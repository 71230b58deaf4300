------------------------------ MODULE RuleSaves ------------------------------
(***************************************************************************)
(* One save of notification rules: the rules to remove go one after        *)
(* another, then the rules to set are sent by a few workers that share an  *)
(* index and an array of results                                           *)
(* (services/notification_center_service.ts, set_rules and map_limited).   *)
(***************************************************************************)
EXTENDS Naturals, Sequences

CONSTANTS
    Workers,    \* the workers, one for each call under way at a time
    Rules,      \* the rules of one channel, as Core keys them
    Removals,   \* what a request may remove: sequences of rules
    Writes      \* what it may set: sequences of rules; one may come twice

VARIABLES
    remove,     \* the rules to remove, in order
    items,      \* the writes, in order
    pc,         \* where the request is
    gone,       \* how many rules it has removed
    next,       \* the next write to take (from 0)
    doing,      \* the write each worker waits for; 0 for none
    out,        \* the results
    accepted,   \* the writes Core took
    held        \* the rules Core has

vars == <<remove, items, pc, gone, next, doing, out, accepted, held>>

Results == {"none", "saved", "refused", "lost"}

\* What is told of an item.
Verdict(result) == IF result = "saved" THEN "saved" ELSE "failed"

TypeOK ==
    /\ pc \in {"removing", "writing", "ok", "failed", "error"}
    /\ gone \in 0..Len(remove) /\ next \in 0..Len(items)
    /\ doing \in [Workers -> 0..Len(items)]
    /\ out \in [1..Len(items) -> Results]
    /\ accepted \subseteq 1..Len(items) /\ held \subseteq Rules

Init ==
    /\ remove \in Removals /\ items \in Writes
    /\ pc = "removing" /\ gone = 0 /\ next = 0
    /\ doing = [w \in Workers |-> 0]
    /\ out = [i \in 1..Len(items) |-> "none"]
    /\ accepted = {} /\ held \in SUBSET Rules

Request == <<remove, items>>

RemoveRule ==
    /\ pc = "removing" /\ gone < Len(remove)
    /\ held' = held \ {remove[gone + 1]}
    /\ gone' = gone + 1
    /\ UNCHANGED <<Request, pc, next, doing, out, accepted>>

\* The first removal that fails ends the request; Core may have removed it.
RemoveFails ==
    /\ pc = "removing" /\ gone < Len(remove)
    /\ held' \in {held, held \ {remove[gone + 1]}}
    /\ pc' = "error"
    /\ UNCHANGED <<Request, gone, next, doing, out, accepted>>

StartWriting ==
    /\ pc = "removing" /\ gone = Len(remove)
    /\ pc' = "writing"
    /\ UNCHANGED <<Request, gone, next, doing, out, accepted, held>>

\* A worker takes the next write and calls Core; taking it is one step.
Take(w) ==
    /\ pc = "writing" /\ doing[w] = 0 /\ next < Len(items)
    /\ next' = next + 1
    /\ doing' = [doing EXCEPT ![w] = next + 1]
    /\ UNCHANGED <<Request, pc, gone, out, accepted, held>>

Settle(w, result) ==
    /\ out' = [out EXCEPT ![doing[w]] = result]
    /\ doing' = [doing EXCEPT ![w] = 0]
    /\ UNCHANGED <<Request, pc, gone, next>>

SetRule(w) ==
    /\ doing[w] # 0
    /\ held' = held \cup {items[doing[w]]}
    /\ accepted' = accepted \cup {doing[w]}
    /\ Settle(w, "saved")

\* A failure of one write is kept as its result: Core refused it, or its reply
\* was lost and Core may have taken it.
SetRuleFails(w) ==
    /\ doing[w] # 0
    /\ Settle(w, "refused")
    /\ UNCHANGED <<accepted, held>>

SetRuleLost(w) ==
    /\ doing[w] # 0
    /\ \E taken \in SUBSET {doing[w]} :
         /\ accepted' = accepted \cup taken
         /\ held' = held \cup {items[i] : i \in taken}
    /\ Settle(w, "lost")

Failed == {i \in DOMAIN items : Verdict(out[i]) = "failed"}

\* Mutant: one failed write is enough.
ThrowsOnAny == Failed # {}

\* Every write failed: the first failure is the answer.
Throws == items # <<>> /\ Failed = DOMAIN items

SetRules ==
    /\ pc = "writing" /\ next = Len(items) /\ \A w \in Workers : doing[w] = 0
    /\ pc' = IF Throws THEN "failed" ELSE "ok"
    /\ UNCHANGED <<Request, gone, next, doing, out, accepted, held>>

Next ==
    \/ RemoveRule \/ RemoveFails \/ StartWriting \/ SetRules
    \/ \E w \in Workers : Take(w) \/ SetRule(w) \/ SetRuleFails(w) \/ SetRuleLost(w)

Spec == Init /\ [][Next]_vars

-----------------------------------------------------------------------------
\* A save that is answered tells each write once: one it calls saved Core took
\* and its rule is in force, and one Core took is called failed only if its
\* reply was lost; a save that ends in an error knows of no rule it set
\* (set_rules).
AnswerSaysWhatCoreHas ==
    /\ pc \in {"ok", "failed"} => \A i \in DOMAIN items :
         /\ out[i] # "none"
         /\ Verdict(out[i]) = "saved" => i \in accepted /\ items[i] \in held
         /\ i \in accepted => out[i] \in {"saved", "lost"}
    /\ pc \in {"failed", "error"} => \A i \in accepted : out[i] = "lost"
=============================================================================
