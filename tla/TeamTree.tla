------------------------------- MODULE TeamTree -------------------------------
(***************************************************************************)
(* The trees of teams: an org's from the calls of its listed teams, a      *)
(* realm's from the versions it has installed, a team's own from the       *)
(* sub-teams read level by level (lib/team_tree.ts, and the overview of    *)
(* services/team_page_service.ts).  A place in a tree is the path of teams *)
(* from its root; the order of the teams one calls is left open.           *)
(***************************************************************************)
EXTENDS SubTeams, Sequences, SequencesExt

CONSTANTS
    Listed,     \* the teams of a page, in order
    LabelOf,    \* the team of each reference: two versions share their label
    OrgCalls,   \* who may call whom in an org: a set of functions to sets
    VersionCalls,   \* which version calls which in a realm
    OwnCalls,   \* which references the phases of a version hold
    OwnSupport, \* which the support steps of the team whose own tree is built
    Installed   \* the version a realm has of each listed team

VARIABLES
    kind,       \* the tree that is built
    support,    \* the references of its team's support steps
    roots       \* the roots of the finished tree, in order

vars == <<walk, kind, support, roots>>

\* The version whose own tree is built.
Top == Installed[Listed[1]]

TypeOK ==
    /\ kind \in {"org", "realm", "own"}
    /\ WalkTypeOK /\ support \subseteq Refs
    /\ roots \in Seq(DOMAIN LabelOf)

\* What is known to call something: for a team's own tree, itself and what was
\* read.
Opens == IF kind = "own" THEN {Top} \cup map ELSE DOMAIN calls

Label(path) == LabelOf[Last(path)]
Cycle(path) == \E i \in 1..Len(path) - 1 : LabelOf[path[i]] = Label(path)

\* Of the team itself its own tree has the support steps too, of a sub-team only
\* the phases are kept.
Called(path) == calls[Last(path)] \cup IF kind = "own" /\ Len(path) = 1 THEN support ELSE {}

\* A place and all below it: a team seen on the way is not opened again.
RECURSIVE node(_)
node(path) ==
    {path} \cup
    IF Cycle(path) \/ Last(path) \notin Opens THEN {}
    ELSE UNION {node(Append(path, called)) : called \in Called(path)}

\* The references a page has of its listed teams.
Rows == IF kind = "org" THEN Listed ELSE [i \in DOMAIN Listed |-> Installed[Listed[i]]]

\* All a version calls, at any depth.
RECURSIVE Below(_, _)
Below(versions, seen) ==
    IF versions \subseteq seen THEN seen
    ELSE Below(UNION {calls[v] : v \in versions}, seen \cup versions)

\* The calls a row comes with: an org's team with its own, a realm's with those
\* of its whole installed tree.
Callers(row) == IF kind = "org" THEN {row} ELSE Below({row}, {})

\* The labels that the calls of another row name.
used == {LabelOf[called] : called \in UNION {
            {c \in UNION {calls[v] : v \in Callers(row)} : LabelOf[c] # LabelOf[row]} : row \in ToSet(Rows)}}

Reached(some) == {Label(path) : path \in UNION {node(<<row>>) : row \in ToSet(some)}}

\* Mutant: what only a circle of calls reaches is left out.
with_unreached_NoCircles == SelectSeq(Rows, LAMBDA row : LabelOf[row] \notin used)

\* First the rows nobody calls, then those no tree so far has reached.
with_unreached ==
    FoldLeft(LAMBDA some, row : IF LabelOf[row] \in Reached(some) THEN some ELSE Append(some, row),
             SelectSeq(Rows, LAMBDA row : LabelOf[row] \notin used), Rows)

Init ==
    /\ kind \in {"org", "realm", "own"}
    /\ calls \in CASE kind = "org" -> OrgCalls [] kind = "realm" -> VersionCalls [] kind = "own" -> OwnCalls
    /\ support \in IF kind = "own" THEN OwnSupport ELSE {{}}
    /\ NotBegun /\ roots = <<>>
    /\ level = IF kind = "own" THEN calls[Top] ELSE {}

\* The walk starts from the phases alone.
sub_teams ==
    /\ kind = "own" /\ ReadLevel
    /\ UNCHANGED <<kind, support, roots>>

org_team_tree ==
    /\ kind = "org" /\ roots = <<>>
    /\ roots' = with_unreached
    /\ UNCHANGED <<walk, kind, support>>

realm_team_tree ==
    /\ kind = "realm" /\ roots = <<>>
    /\ roots' = with_unreached
    /\ UNCHANGED <<walk, kind, support>>

team_own_tree ==
    /\ kind = "own" /\ roots = <<>>
    /\ WalkEnded
    /\ roots' = <<Top>>
    /\ UNCHANGED <<walk, kind, support>>

Next == sub_teams \/ org_team_tree \/ realm_team_tree \/ team_own_tree

Spec == Init /\ [][Next]_vars

-----------------------------------------------------------------------------
\* Every listed team is somewhere in the tree of its org or realm, opened,
\* whatever circles the calls make, and no tree repeats as a root what an
\* earlier one shows; a team's own tree, unless a read failed or the cap was
\* reached, leaves a sub-team closed only where it closes a circle, where the
\* reference names no team, or where one of its own support steps runs a team
\* that its phases do not lead to (lib/team_tree.ts, sub_teams).
EveryTeamShown ==
    roots # <<>> =>
        /\ kind # "own" => \A i \in DOMAIN Listed :
             \E path \in UNION {node(<<row>>) : row \in ToSet(roots)} : Label(path) = Listed[i] /\ ~Cycle(path)
        /\ \A i \in DOMAIN roots : LabelOf[roots[i]] \notin Reached(SubSeq(roots, 1, i - 1))
        /\ kind = "own" /\ ~failed /\ read_count < SUB_TEAM_CAP =>
             \A path \in node(<<Top>>) :
                \/ Cycle(path) \/ Last(path) \in Opens \/ Last(path) \notin Named
                \/ Len(path) = 2 /\ Last(path) \in support \ LedTo(calls[Top])
=============================================================================
