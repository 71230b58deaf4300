--------------------------- MODULE RuleSavesProofs ---------------------------
(***************************************************************************)
(* What a save of rules tells of each write is what Core has, for any      *)
(* number of workers, writes and removals.                                 *)
(***************************************************************************)
EXTENDS RuleSaves, TLAPS

SavesAssumption == Writes \subseteq Seq(Rules)

SaveTypes ==
    /\ items \in Seq(Rules)
    /\ next \in 0 .. Len(items)
    /\ doing \in [Workers -> 0 .. Len(items)]
    /\ out \in [1 .. Len(items) -> Results]

\* Every write before the index is with one worker or has a result.
Dealt ==
    /\ \A w \in Workers : doing[w] <= next
    /\ \A v, w \in Workers : doing[v] = doing[w] /\ doing[v] # 0 => v = w
    /\ \A i \in 1 .. Len(items) :
         i <= next => out[i] # "none" \/ \E w \in Workers : doing[w] = i

\* A result agrees with what Core took, and a write that is out with a worker,
\* or has not been taken, Core does not have.
Honest ==
    /\ \A i \in accepted : i \in 1 .. Len(items) /\ i <= next
    /\ \A w \in Workers : doing[w] \notin accepted
    /\ \A i \in 1 .. Len(items) :
         /\ out[i] = "saved" => i \in accepted /\ items[i] \in held
         /\ i \in accepted => out[i] \in {"saved", "lost"}

\* Nothing is written before the removals are done or after the answer.
Staged ==
    /\ pc \in {"removing", "error"} => next = 0 /\ accepted = {}
    /\ pc # "writing" => \A w \in Workers : doing[w] = 0
    /\ pc \in {"ok", "failed"} => next = Len(items)
    /\ pc = "failed" => \A i \in 1 .. Len(items) : out[i] # "saved"

SaveInv == SaveTypes /\ Dealt /\ Honest /\ Staged

LEMMA SaveInit == SavesAssumption /\ Init => SaveInv
  BY DEF SavesAssumption, Init, SaveInv, SaveTypes, Dealt, Honest, Staged, Results

LEMMA RemovingInv ==
    ASSUME SaveInv, RemoveRule \/ RemoveFails \/ StartWriting
    PROVE  SaveInv'
  <1>1. /\ pc = "removing" /\ pc' \in {"removing", "error", "writing"}
        /\ UNCHANGED <<items, next, doing, out, accepted>>
    BY DEF RemoveRule, RemoveFails, StartWriting, Request
  <1>2. next = 0 /\ accepted = {} /\ \A w \in Workers : doing[w] = 0
    BY <1>1 DEF SaveInv, Staged
  <1>3. SaveTypes' /\ Dealt'
    BY <1>1 DEF SaveInv, SaveTypes, Dealt
  <1>4. Honest'
    BY <1>1, <1>2 DEF SaveInv, Honest
  <1>5. Staged'
    BY <1>1, <1>2 DEF Staged
  <1> QED
    BY <1>3, <1>4, <1>5 DEF SaveInv

LEMMA TakeInv ==
    ASSUME SaveInv, NEW w \in Workers, Take(w)
    PROVE  SaveInv'
  <1>1. /\ pc = "writing" /\ doing[w] = 0 /\ next < Len(items) /\ next' = next + 1
        /\ doing' = [doing EXCEPT ![w] = next + 1]
        /\ UNCHANGED <<items, pc, out, accepted, held>>
    BY DEF Take, Request
  <1>2. /\ Len(items) \in Nat /\ next \in Nat /\ next + 1 \in 1 .. Len(items)
        /\ doing \in [Workers -> 0 .. Len(items)]
    BY <1>1 DEF SaveInv, SaveTypes
  <1>3. SaveTypes'
    BY <1>1, <1>2 DEF SaveInv, SaveTypes
  <1>4. doing'[w] = next + 1 /\ \A v \in Workers : v # w => doing'[v] = doing[v]
    BY <1>1, <1>2
  <1>5. Dealt'
    <2>1. \A v \in Workers : doing'[v] <= next'
      BY <1>1, <1>2, <1>4 DEF SaveInv, Dealt
    <2>2. \A v \in Workers : doing[v] # next + 1
      <3> SUFFICES ASSUME NEW v \in Workers, doing[v] = next + 1 PROVE FALSE
        OBVIOUS
      <3>1. doing[v] <= next
        BY DEF SaveInv, Dealt
      <3> QED
        BY <1>2, <3>1
    <2>3. \A u, v \in Workers : doing'[u] = doing'[v] /\ doing'[u] # 0 => u = v
      BY <1>4, <2>2 DEF SaveInv, Dealt
    <2>4. ASSUME NEW i \in 1 .. Len(items), i <= next'
          PROVE  out[i] # "none" \/ \E v \in Workers : doing'[v] = i
      <3>1. CASE i = next + 1
        BY <1>4, <3>1
      <3>2. CASE i # next + 1
        <4>1. i <= next
          BY <1>1, <1>2, <2>4, <3>2
        <4>2. CASE out[i] # "none"
          BY <4>2
        <4>3. ASSUME NEW v \in Workers, doing[v] = i PROVE doing'[v] = i
          BY <1>1, <1>4, <4>3
        <4> QED
          BY <4>1, <4>2, <4>3 DEF SaveInv, Dealt
      <3> QED
        BY <3>1, <3>2
    <2> QED
      BY <1>1, <2>1, <2>3, <2>4 DEF Dealt
  <1>6. Honest'
    <2>1. next + 1 \notin accepted
      BY <1>2 DEF SaveInv, Honest
    <2>2. \A i \in accepted : i <= next'
      BY <1>1, <1>2 DEF SaveInv, Honest
    <2> QED
      BY <1>1, <1>4, <2>1, <2>2 DEF SaveInv, Honest
  <1>7. Staged'
    BY <1>1 DEF Staged
  <1> QED
    BY <1>3, <1>5, <1>6, <1>7 DEF SaveInv

\* One worker's write gets its result.
LEMMA SettleInv ==
    ASSUME SaveInv, NEW w \in Workers, doing[w] # 0,
           NEW result \in Results \ {"none"}, Settle(w, result),
           NEW taken \in SUBSET {doing[w]},
           accepted' = accepted \cup taken,
           held \subseteq held', \A i \in taken : items[i] \in held',
           result = "saved" => taken = {doing[w]},
           result = "refused" => taken = {}
    PROVE  SaveInv'
  <1> DEFINE n == doing[w]
  <1>1. /\ out' = [out EXCEPT ![n] = result] /\ doing' = [doing EXCEPT ![w] = 0]
        /\ UNCHANGED <<items, pc, next>>
    BY DEF Settle, Request
  <1>2. /\ Len(items) \in Nat /\ next \in Nat /\ n \in 1 .. Len(items) /\ n <= next
        /\ doing \in [Workers -> 0 .. Len(items)] /\ out \in [1 .. Len(items) -> Results]
    BY DEF SaveInv, SaveTypes, Dealt
  <1>3. pc = "writing"
    BY DEF SaveInv, Staged
  <1>4. /\ doing'[w] = 0 /\ \A v \in Workers : v # w => doing'[v] = doing[v]
        /\ out'[n] = result /\ \A i \in 1 .. Len(items) : i # n => out'[i] = out[i]
    BY <1>1, <1>2
  <1>5. SaveTypes'
    BY <1>1, <1>2 DEF SaveInv, SaveTypes
  <1>6. n \notin accepted
    BY DEF SaveInv, Honest
  <1> HIDE DEF n
  <1>7. Dealt'
    <2>1. \A v \in Workers : doing'[v] <= next
      BY <1>2, <1>4 DEF SaveInv, Dealt
    <2>2. \A u, v \in Workers : doing'[u] = doing'[v] /\ doing'[u] # 0 => u = v
      BY <1>4 DEF SaveInv, Dealt
    <2>3. ASSUME NEW i \in 1 .. Len(items), i <= next
          PROVE  out'[i] # "none" \/ \E v \in Workers : doing'[v] = i
      <3>1. CASE i = n
        BY <1>4, <3>1
      <3>2. CASE i # n /\ out[i] # "none"
        BY <1>4, <3>2
      <3>3. ASSUME i # n, NEW v \in Workers, doing[v] = i PROVE doing'[v] = i
        BY <1>4, <3>3 DEF n
      <3> QED
        BY <2>3, <3>1, <3>2, <3>3 DEF SaveInv, Dealt
    <2> QED
      BY <1>1, <2>1, <2>2, <2>3 DEF Dealt
  <1>8. Honest'
    <2>1. taken \subseteq {n}
      BY DEF n
    <2>2. \A i \in accepted' : i \in 1 .. Len(items) /\ i <= next
      BY <1>2, <2>1 DEF SaveInv, Honest
    <2>3. \A v \in Workers : doing'[v] \notin accepted'
      <3>1. \A v \in Workers : v # w => doing[v] # n
        BY <1>2 DEF n, SaveInv, Dealt
      <3>2. 0 \notin accepted /\ 0 # n
        BY <1>2 DEF SaveInv, Honest
      <3> QED
        BY <1>4, <2>1, <3>1, <3>2 DEF SaveInv, Honest
    <2>4. ASSUME NEW i \in 1 .. Len(items)
          PROVE  /\ out'[i] = "saved" => i \in accepted' /\ items[i] \in held'
                 /\ i \in accepted' => out'[i] \in {"saved", "lost"}
      <3>1. CASE i = n
        BY <1>4, <1>6, <3>1 DEF n, Results
      <3>2. CASE i # n
        BY <1>4, <2>1, <3>2 DEF SaveInv, Honest
      <3> QED
        BY <3>1, <3>2
    <2> QED
      BY <1>1, <2>2, <2>3, <2>4 DEF Honest
  <1>9. Staged'
    BY <1>1, <1>3 DEF Staged
  <1> QED
    BY <1>5, <1>7, <1>8, <1>9 DEF SaveInv

LEMMA WriteInv ==
    ASSUME SaveInv, NEW w \in Workers, SetRule(w) \/ SetRuleFails(w) \/ SetRuleLost(w)
    PROVE  SaveInv'
  <1>1. CASE SetRule(w)
    <2>1. /\ doing[w] # 0 /\ Settle(w, "saved")
          /\ accepted' = accepted \cup {doing[w]}
          /\ held \subseteq held' /\ items[doing[w]] \in held'
      BY <1>1 DEF SetRule
    <2>2. "saved" \in Results \ {"none"} /\ "saved" # "refused"
      BY DEF Results
    <2>3. /\ {doing[w]} \in SUBSET {doing[w]}
          /\ \A i \in {doing[w]} : items[i] \in held'
      BY <2>1
    <2> QED
      BY <2>1, <2>2, <2>3, SettleInv
  <1>2. CASE SetRuleFails(w)
    <2>1. /\ doing[w] # 0 /\ Settle(w, "refused")
          /\ accepted' = accepted \cup {} /\ held \subseteq held'
      BY <1>2 DEF SetRuleFails
    <2>2. /\ "refused" \in Results \ {"none"} /\ "refused" # "saved"
          /\ {} \in SUBSET {doing[w]} /\ \A i \in {} : items[i] \in held'
      BY DEF Results
    <2> QED
      BY <2>1, <2>2, SettleInv
  <1>3. CASE SetRuleLost(w)
    <2>1. doing[w] # 0 /\ Settle(w, "lost")
      BY <1>3 DEF SetRuleLost
    <2>2. PICK taken \in SUBSET {doing[w]} :
            /\ accepted' = accepted \cup taken
            /\ held' = held \cup {items[i] : i \in taken}
      BY <1>3 DEF SetRuleLost
    <2>3. held \subseteq held' /\ \A i \in taken : items[i] \in held'
      BY <2>2
    <2>4. "lost" \in Results \ {"none"}
      BY DEF Results
    <2> QED
      BY <2>1, <2>2, <2>3, <2>4, SettleInv
  <1> QED
    BY <1>1, <1>2, <1>3

LEMMA AnswerInv == ASSUME SaveInv, SetRules PROVE SaveInv'
  <1>1. /\ next = Len(items) /\ \A w \in Workers : doing[w] = 0
        /\ pc' = IF Throws THEN "failed" ELSE "ok"
        /\ UNCHANGED <<items, next, doing, out, accepted, held>>
    BY DEF SetRules, Request
  <1>2. SaveTypes' /\ Dealt' /\ Honest'
    BY <1>1 DEF SaveInv, SaveTypes, Dealt, Honest
  <1>3. Throws => \A i \in 1 .. Len(items) : out[i] # "saved"
    BY DEF Throws, Failed, Verdict, SaveInv, SaveTypes
  <1>4. Staged'
    BY <1>1, <1>3 DEF Staged
  <1> QED
    BY <1>2, <1>4 DEF SaveInv

LEMMA SaveNext == SaveInv /\ [Next]_vars => SaveInv'
  <1> SUFFICES ASSUME SaveInv, [Next]_vars PROVE SaveInv'
    OBVIOUS
  <1>1. CASE RemoveRule \/ RemoveFails \/ StartWriting
    BY <1>1, RemovingInv
  <1>2. CASE SetRules
    BY <1>2, AnswerInv
  <1>3. ASSUME NEW w \in Workers, Take(w) PROVE SaveInv'
    BY <1>3, TakeInv
  <1>4. ASSUME NEW w \in Workers, SetRule(w) \/ SetRuleFails(w) \/ SetRuleLost(w)
        PROVE  SaveInv'
    BY <1>4, WriteInv
  <1>5. CASE UNCHANGED vars
    BY <1>5 DEF vars, SaveInv, SaveTypes, Dealt, Honest, Staged
  <1> QED
    BY <1>1, <1>2, <1>3, <1>4, <1>5 DEF Next

(***************************************************************************)
(* What set_rules answers of each write is what Core did with it, however  *)
(* the workers' calls overlap and whichever of them fail.                  *)
(***************************************************************************)
THEOREM SaveTheorem == ASSUME SavesAssumption PROVE Spec => []AnswerSaysWhatCoreHas
  <1>1. SaveInv => AnswerSaysWhatCoreHas
    <2> SUFFICES ASSUME SaveInv PROVE AnswerSaysWhatCoreHas
      OBVIOUS
    <2>1. DOMAIN items = 1 .. Len(items)
      BY DEF SaveInv, SaveTypes
    <2>2. ASSUME pc \in {"ok", "failed"}, NEW i \in DOMAIN items
          PROVE  /\ out[i] # "none"
                 /\ Verdict(out[i]) = "saved" => i \in accepted /\ items[i] \in held
                 /\ i \in accepted => out[i] \in {"saved", "lost"}
      <3>1. next = Len(items) /\ (\A w \in Workers : doing[w] = 0) /\ i \in 1 .. Len(items)
        BY <2>1, <2>2 DEF SaveInv, Staged
      <3>2. out[i] # "none"
        BY <3>1 DEF SaveInv, SaveTypes, Dealt
      <3> QED
        BY <3>1, <3>2 DEF Verdict, SaveInv, Honest
    <2>3. pc \in {"failed", "error"} => \A i \in accepted : out[i] = "lost"
      BY DEF SaveInv, Staged, Honest
    <2> QED
      BY <2>2, <2>3 DEF AnswerSaysWhatCoreHas
  <1>2. Spec => []SaveInv
    BY SaveInit, SaveNext, PTL DEF Spec
  <1> QED
    BY <1>1, <1>2, PTL
=============================================================================
