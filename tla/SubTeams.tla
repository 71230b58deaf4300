-------------------------------- MODULE SubTeams --------------------------------
(***************************************************************************)
(* sub_teams of services/team_page_service.ts: from the steps of a team,   *)
(* the teams they run and the teams those run, read level by level.  Only  *)
(* the phases of a team lead on: its support steps run teams too, but      *)
(* nobody asks for those.                                                  *)
(***************************************************************************)
EXTENDS Integers, FiniteSets

CONSTANTS
    Refs,           \* the references to teams that steps hold
    Named,          \* those of the form scope/name: the others name no team
    SUB_TEAM_CAP    \* the references looked up in one walk

VARIABLES
    calls,          \* the references that the phases of each team hold
    map,            \* the sub-teams read
    failed,         \* whether a read failed
    read_count,
    level           \* the references that the last teams read hold

walk == <<calls, map, failed, read_count, level>>

WalkTypeOK ==
    /\ map \subseteq Named /\ level \subseteq Refs
    /\ failed \in BOOLEAN /\ read_count \in 0..SUB_TEAM_CAP

NotBegun == map = {} /\ failed = FALSE /\ read_count = 0

\* What is looked up next, each reference once, and as many as there is room for.
Left == level \ map

Room == SUB_TEAM_CAP - read_count

Batches ==
    {refs \in SUBSET Left : Cardinality(refs) <= Room /\ (refs = Left \/ Cardinality(refs) = Room)}

\* A reference that names no team is counted and passed over; a team that cannot
\* be read is left out and opens nothing.
ReadLevel ==
    /\ Left # {} /\ Room > 0
    /\ \E refs \in Batches : \E lost \in SUBSET (refs \cap Named) :
         LET read == (refs \cap Named) \ lost
         IN  /\ read_count' = read_count + Cardinality(refs)
             /\ map' = map \cup read
             /\ failed' = (failed \/ lost # {})
             /\ level' = UNION {calls[ref] : ref \in read}
    /\ UNCHANGED calls

WalkEnded == Left = {} \/ Room = 0

-----------------------------------------------------------------------------
\* What references lead to, themselves included: all that is in every set that
\* holds them and what the phases of its own members hold.
LedTo(refs) ==
    {ref \in Refs : \A some \in SUBSET Refs :
        refs \subseteq some /\ (\A team \in some \cap Named : calls[team] \subseteq some) => ref \in some}
=================================================================================
