------------------------------ MODULE PagedLists ------------------------------
(***************************************************************************)
(* Lists the BFF collects whole from Core page by page while Core's list   *)
(* may change: a user's own teams (_mine of services/team_page_service.ts) *)
(* and an org's realms (all_realms of                                      *)
(* services/notification_center_service.ts).                               *)
(***************************************************************************)
EXTENDS Naturals, FiniteSetsExt, SequencesExt

CONSTANTS
    Items,      \* what Core's list may hold
    Step,       \* the rows of a page
    ListCap,    \* ALL_REALMS_CAP: where the realms stop
    Changes     \* bound: the changes of Core's list while it is read

VARIABLES
    loop,       \* which of the two loops runs
    rows,       \* Core's list, in order
    out,        \* the rows collected
    offset,     \* where the next page of realms starts
    total,      \* the length the first page of teams told; -1 before
    ended,      \* "no", or how the loop ended
    kept,       \* the rows in the list since the first page
    shifted,    \* those a removal moved forward
    changes

vars == <<loop, rows, out, offset, total, ended, kept, shifted, changes>>

TypeOK ==
    /\ loop \in {"mine", "realms"} /\ ended \in {"no", "complete", "cut"}
    /\ rows \in Seq(Items) /\ out \in Seq(Items)
    /\ kept \subseteq Items /\ shifted \subseteq Items
    /\ changes \in 0..Changes

Init ==
    /\ loop \in {"mine", "realms"}
    /\ \E held \in SUBSET Items : rows = SetToSeq(held) /\ kept = held
    /\ out = <<>> /\ offset = 0 /\ total = -1 /\ ended = "no"
    /\ shifted = {} /\ changes = 0

\* Core's answer for one page.
PageAt(from) == SubSeq(rows, from + 1, IF from + Step < Len(rows) THEN from + Step ELSE Len(rows))

\* Mutant: the end is left by one.
LastPageShort(seen, all) == seen + 1 >= all

\* Whether the rows up to here are all there are.
LastPage(seen, all) == seen >= all

\* Teams are read from where the collected rows end until there are as many as
\* the first page told, or a page is empty.
_mine ==
    /\ loop = "mine" /\ ended = "no"
    /\ LET page == PageAt(Len(out))
           all == IF total = -1 THEN Len(rows) ELSE total
       IN  /\ out' = out \o page
           /\ total' = all
           /\ ended' = IF LastPage(Len(out'), all) \/ (total # -1 /\ page = <<>>) THEN "complete" ELSE "no"
    /\ UNCHANGED <<loop, rows, offset, kept, shifted, changes>>

\* Realms are read in fixed steps until a page tells that it was the last, at
\* most ListCap of them.
all_realms ==
    /\ loop = "realms" /\ ended = "no"
    /\ out' = out \o PageAt(offset)
    /\ offset' = offset + Step
    /\ ended' = IF LastPage(offset + Step, Len(rows)) THEN "complete" ELSE IF offset + Step >= ListCap THEN "cut" ELSE "no"
    /\ UNCHANGED <<loop, rows, total, kept, shifted, changes>>

\* Another user's change, between two pages.
Leaves ==
    /\ ended = "no" /\ out # <<>> /\ changes < Changes
    /\ \E i \in DOMAIN rows :
         /\ rows' = RemoveAt(rows, i)
         /\ kept' = kept \ {rows[i]}
         /\ shifted' = shifted \cup {rows[j] : j \in i + 1..Len(rows)}
    /\ changes' = changes + 1
    /\ UNCHANGED <<loop, out, offset, total, ended>>

Joins ==
    /\ ended = "no" /\ out # <<>> /\ changes < Changes
    /\ \E item \in Items \ ToSet(rows), i \in 1..Len(rows) + 1 :
         /\ rows' = InsertAt(rows, i, item)
         /\ shifted' = shifted \ {item}
    /\ changes' = changes + 1
    /\ UNCHANGED <<loop, out, offset, total, ended, kept>>

Next == _mine \/ all_realms \/ Leaves \/ Joins

Spec == Init /\ [][Next]_vars

-----------------------------------------------------------------------------
\* A list that did not change is collected whole, each row once, and realms cut
\* at the cap say so; while it changes, a team that stays may be missed, a
\* realm that stays only after one before it was removed (_mine, all_realms).
MissedOnlyIfChanged ==
    ended # "no" =>
        /\ changes = 0 => (ended = "complete" => out = rows) /\ (ended = "cut" => IsStrictPrefix(out, rows))
        /\ loop = "realms" /\ ended = "complete" => kept \ shifted \subseteq ToSet(out)
        /\ ended = "cut" => Len(out) <= ListCap
=============================================================================
