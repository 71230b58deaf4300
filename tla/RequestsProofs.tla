---------------------------- MODULE RequestsProofs ----------------------------
(***************************************************************************)
(* Theorems about Requests, for every instance of its parts.               *)
(***************************************************************************)
EXTENDS Requests, SequenceTheorems, TLAPS

SaveProofs == INSTANCE RuleSavesProofs WITH pc <- saving, Removals <- ToRemove

InstallProofs == INSTANCE TeamInstallProofs WITH
    pc <- stage, refused <- blocked, told <- report

CompatProofs == INSTANCE CoreCompatProofs

partsvars == <<part, clock, sliding, fixed, gate, channel, save, install, compat>>

(***************************************************************************)
(* The builder's limiter, as sequences of times: times that a window       *)
(* ending at reset_at closes, of which it counts the last taken and the    *)
(* earlier ones came before it began, all but the last limit of those      *)
(* more than a window before.                                              *)
(***************************************************************************)
Closes(times, taken, limit, reset_at) ==
    /\ taken <= Len(times)
    /\ \A i \in 1 .. Len(times) :
        /\ times[i] < reset_at
        /\ i + taken <= Len(times) => times[i] + Window < reset_at
        /\ i + taken + limit <= Len(times) => times[i] + Window + Window < reset_at

\* Times that a window beginning at start has all behind it.
Behind(times, limit, start) ==
    \A i \in 1 .. Len(times) :
        /\ times[i] < start
        /\ i + limit <= Len(times) => times[i] + Window < start

Spread(times, limit) ==
    \A i \in 1 .. Len(times) :
        i + 2 * limit <= Len(times) => times[i + 2 * limit] > times[i] + Window

LEMMA WindowEnds ==
    ASSUME NEW times \in Seq(Nat), NEW limit \in Nat, NEW taken \in 0 .. limit,
           NEW reset_at \in Nat, NEW start \in Nat, reset_at <= start,
           Closes(times, taken, limit, reset_at)
    PROVE  Behind(times, limit, start)
  <1> SUFFICES ASSUME NEW i \in 1 .. Len(times)
               PROVE  /\ times[i] < start
                      /\ i + limit <= Len(times) => times[i] + Window < start
    BY DEF Behind
  <1>1. times[i] \in Nat /\ Len(times) \in Nat /\ Window \in Nat
    BY LimiterAssumption
  <1>2. times[i] < reset_at /\ (i + taken <= Len(times) => times[i] + Window < reset_at)
    BY DEF Closes
  <1> QED
    BY <1>1, <1>2

\* A time appended keeps the spread if it is late enough for the one it meets.
LEMMA SpreadGrows ==
    ASSUME NEW times \in Seq(Nat), NEW limit \in Nat \ {0}, NEW time \in Nat,
           Spread(times, limit),
           \A i \in 1 .. Len(times) :
               i + 2 * limit = Len(times) + 1 => times[i] + Window < time
    PROVE  Spread(Append(times, time), limit)
  <1> DEFINE new == Append(times, time)
  <1>1. /\ Len(times) \in Nat /\ Len(new) = Len(times) + 1 /\ new[Len(times) + 1] = time
        /\ \A i \in 1 .. Len(times) : new[i] = times[i] /\ times[i] \in Nat
    OBVIOUS
  <1> HIDE DEF new
  <1>2. ASSUME NEW i \in 1 .. Len(new), i + 2 * limit <= Len(new)
        PROVE  new[i + 2 * limit] > new[i] + Window
    <2>1. i \in 1 .. Len(times) /\ new[i] = times[i] /\ times[i] \in Nat /\ Window \in Nat
      BY <1>1, <1>2, LimiterAssumption
    <2>2. CASE i + 2 * limit = Len(times) + 1
      BY <1>1, <2>1, <2>2
    <2>3. CASE i + 2 * limit # Len(times) + 1
      <3> DEFINE k == i + 2 * limit
      <3>1. k \in 1 .. Len(times)
        <4>1. k \in Nat /\ k >= 1 /\ k <= Len(times) + 1 /\ k # Len(times) + 1
          BY <1>1, <1>2, <2>1, <2>3
        <4>2. Len(times) \in Nat
          OBVIOUS
        <4> HIDE DEF k
        <4> QED
          BY <4>1, <4>2
      <3> QED
        BY <1>1, <2>1, <3>1 DEF Spread
    <2> QED
      BY <2>2, <2>3
  <1> QED
    BY <1>2 DEF Spread, new

\* A request let through in a window already begun.
LEMMA WindowGoesOn ==
    ASSUME NEW times \in Seq(Nat), NEW limit \in Nat \ {0}, NEW taken \in Nat,
           taken + 1 <= limit, NEW reset_at \in Nat, NEW time \in Nat,
           time < reset_at, reset_at <= time + Window,
           Closes(times, taken, limit, reset_at), Spread(times, limit)
    PROVE  /\ Closes(Append(times, time), taken + 1, limit, reset_at)
           /\ Spread(Append(times, time), limit)
  <1> DEFINE new == Append(times, time)
  <1>1. /\ Len(times) \in Nat /\ Len(new) = Len(times) + 1 /\ new[Len(times) + 1] = time
        /\ \A i \in 1 .. Len(times) : new[i] = times[i] /\ times[i] \in Nat
        /\ Window \in Nat
    BY LimiterAssumption
  <1> HIDE DEF new
  <1>2. ASSUME NEW i \in 1 .. Len(new)
        PROVE  /\ new[i] < reset_at
               /\ i + (taken + 1) <= Len(new) => new[i] + Window < reset_at
               /\ i + (taken + 1) + limit <= Len(new) => new[i] + Window + Window < reset_at
    <2>1. CASE i = Len(times) + 1
      BY <1>1, <2>1
    <2>2. CASE i \in 1 .. Len(times)
      <3>1. /\ times[i] < reset_at
            /\ i + taken <= Len(times) => times[i] + Window < reset_at
            /\ i + taken + limit <= Len(times) => times[i] + Window + Window < reset_at
        BY <2>2 DEF Closes
      <3> QED
        BY <1>1, <2>2, <3>1
    <2> QED
      BY <1>1, <2>1, <2>2
  <1>3. taken + 1 <= Len(new)
    BY <1>1 DEF Closes
  <1>4. ASSUME NEW i \in 1 .. Len(times), i + 2 * limit = Len(times) + 1
        PROVE  times[i] + Window < time
    <2>1. i + taken + limit <= Len(times)
      BY <1>1, <1>4
    <2>2. times[i] + Window + Window < reset_at
      BY <2>1 DEF Closes
    <2> QED
      BY <1>1, <2>2
  <1>5. Spread(new, limit)
    BY <1>4, SpreadGrows DEF new
  <1> QED
    BY <1>2, <1>3, <1>5 DEF Closes, new

\* The first request of a window.
LEMMA WindowBegins ==
    ASSUME NEW times \in Seq(Nat), NEW limit \in Nat \ {0}, NEW time \in Nat,
           Behind(times, limit, time), Spread(times, limit)
    PROVE  /\ Closes(Append(times, time), 1, limit, time + Window)
           /\ Spread(Append(times, time), limit)
  <1> DEFINE new == Append(times, time)
  <1>1. /\ Len(times) \in Nat /\ Len(new) = Len(times) + 1 /\ new[Len(times) + 1] = time
        /\ \A i \in 1 .. Len(times) : new[i] = times[i] /\ times[i] \in Nat
        /\ Window \in Nat \ {0}
    BY LimiterAssumption
  <1> HIDE DEF new
  <1>2. ASSUME NEW i \in 1 .. Len(new)
        PROVE  /\ new[i] < time + Window
               /\ i + 1 <= Len(new) => new[i] + Window < time + Window
               /\ i + 1 + limit <= Len(new) => new[i] + Window + Window < time + Window
    <2>1. CASE i = Len(times) + 1
      BY <1>1, <2>1
    <2>2. CASE i \in 1 .. Len(times)
      <3>1. times[i] < time /\ (i + limit <= Len(times) => times[i] + Window < time)
        BY <2>2 DEF Behind
      <3> QED
        BY <1>1, <2>2, <3>1
    <2> QED
      BY <1>1, <2>1, <2>2
  <1>3. ASSUME NEW i \in 1 .. Len(times), i + 2 * limit = Len(times) + 1
        PROVE  times[i] + Window < time
    <2>1. i + limit <= Len(times)
      BY <1>1, <1>3
    <2> QED
      BY <2>1 DEF Behind
  <1>4. Spread(new, limit)
    BY <1>3, SpreadGrows DEF new
  <1>5. 1 <= Len(new)
    BY <1>1
  <1> QED
    BY <1>2, <1>4, <1>5 DEF Closes, new

\* Rounding up to whole seconds never shortens a wait.
LEMMA CeilCovers ==
    ASSUME NEW d \in Nat
    PROVE  Fixed!Ceil(d) \in Nat /\ Fixed!Ceil(d) * Second >= d
  <1> DEFINE q == (d + Second - 1) \div Second
  <1>1. q \in Nat /\ Second * q <= d + Second - 1 /\ d + Second - 1 < Second * (q + 1)
    BY RequestsAssumption
  <1>2. \A p \in Nat : Second * (p + 1) = Second * p + Second /\ Second * p = p * Second
    BY RequestsAssumption
  <1>3. Second * (q + 1) = Second * q + Second /\ Second * q = q * Second /\ Second * q \in Nat
    BY <1>1, <1>2, RequestsAssumption
  <1>4. q * Second >= d
    BY <1>1, <1>3, RequestsAssumption
  <1> QED
    BY <1>1, <1>4 DEF Fixed!Ceil

Callers == DOMAIN LimitOf

FixedTypes ==
    /\ clock \in Nat
    /\ DOMAIN buckets \subseteq Callers
    /\ \A c \in DOMAIN buckets : buckets[c] \in Fixed!WindowEntry
    /\ passed \in [Callers -> Seq(Nat)]
    /\ refused \in [caller : Callers, at : Nat, retry_after : Nat] \cup {Fixed!NoRefusal}

\* Of the requests counted in an entry, those that were let through.
Taken(entry, c) == IF entry.count < LimitOf[c] THEN entry.count ELSE LimitOf[c]

CallerOK(c) ==
    IF c \in DOMAIN buckets
    THEN /\ buckets[c].reset_at <= clock + Window
         /\ Closes(passed[c], Taken(buckets[c], c), LimitOf[c], buckets[c].reset_at)
    ELSE Behind(passed[c], LimitOf[c], clock)

\* The caller refused last has a window that ends when it may come again, or
\* has been let through since, or has no window.
RefusalOK ==
    refused # Fixed!NoRefusal =>
        LET c == refused.caller IN
        \/ \E i \in 1 .. Len(passed[c]) : passed[c][i] > refused.at
        \/ /\ c \in DOMAIN buckets /\ buckets[c].reset_at > refused.at
           /\ buckets[c].reset_at <= refused.at + refused.retry_after * Second
        \/ c \notin DOMAIN buckets /\ refused.at < clock

\* The inductive invariant of the builder's limiter.
FixedInv ==
    /\ FixedTypes
    /\ \A c \in Callers : CallerOK(c) /\ Spread(passed[c], LimitOf[c])
    /\ RefusalOK

LEMMA FixedInit == Fixed!Init => FixedInv
  <1> SUFFICES ASSUME Fixed!Init PROVE FixedInv
    OBVIOUS
  <1>1. /\ clock = Start /\ refused = Fixed!NoRefusal
        /\ DOMAIN buckets = {} /\ passed = [c \in Callers |-> <<>>]
    BY DEF Fixed!Init, Callers
  <1> QED
    BY <1>1, LimiterAssumption
       DEF FixedInv, FixedTypes, CallerOK, Behind, Spread, RefusalOK

LEMMA CallerTypes ==
    ASSUME FixedInv, NEW c \in Callers
    PROVE  /\ passed[c] \in Seq(Nat) /\ clock \in Nat /\ LimitOf[c] \in Nat \ {0}
           /\ c \in DOMAIN buckets =>
                /\ buckets[c].count \in Nat /\ buckets[c].reset_at \in Nat
                /\ Taken(buckets[c], c) \in 0 .. LimitOf[c]
  <1>1. LimitOf[c] \in Nat \ {0}
    BY RequestsAssumption DEF Callers
  <1> QED
    BY <1>1 DEF FixedInv, FixedTypes, Fixed!WindowEntry, Taken

\* A caller without a window, or with one that has ended, starts anew.
LEMMA NoneOpen ==
    ASSUME FixedInv, NEW c \in Callers, c \in DOMAIN buckets => buckets[c].reset_at <= clock
    PROVE  Behind(passed[c], LimitOf[c], clock)
  <1>1. CASE c \in DOMAIN buckets
    <2>1. /\ passed[c] \in Seq(Nat) /\ clock \in Nat /\ LimitOf[c] \in Nat
          /\ buckets[c].reset_at \in Nat /\ Taken(buckets[c], c) \in 0 .. LimitOf[c]
      BY <1>1, CallerTypes
    <2>2. Closes(passed[c], Taken(buckets[c], c), LimitOf[c], buckets[c].reset_at)
      BY <1>1 DEF FixedInv, CallerOK
    <2> QED
      BY <1>1, <2>1, <2>2, WindowEnds
  <1>2. CASE c \notin DOMAIN buckets
    BY <1>2 DEF FixedInv, CallerOK
  <1> QED
    BY <1>1, <1>2

\* The window a request falls in: the caller's, or a new one.
Open(c) == c \in DOMAIN buckets /\ buckets[c].reset_at > clock

LEMMA EntryCases ==
    ASSUME FixedInv, NEW c \in Callers
    PROVE  /\ Fixed!Entry(c).count \in Nat /\ Fixed!Entry(c).reset_at \in Nat
           /\ Fixed!Entry(c) \in Fixed!WindowEntry
           /\ Open(c) => Fixed!Entry(c) = buckets[c]
           /\ ~Open(c) => /\ c \in DOMAIN buckets => buckets[c].reset_at <= clock
                          /\ Fixed!Entry(c).count = 0
                          /\ Fixed!Entry(c).reset_at = clock + Window
  <1>1. c \in DOMAIN buckets => buckets[c].reset_at \in Nat
    BY CallerTypes
  <1>2. clock \in Nat /\ Window \in Nat
    BY LimiterAssumption DEF FixedInv, FixedTypes
  <1> QED
    BY <1>1, <1>2 DEF FixedInv, FixedTypes, Fixed!WindowEntry, Fixed!Entry, Open

LEMMA CountSets ==
    ASSUME FixedInv, NEW c \in Callers, Fixed!Count(c)
    PROVE  /\ DOMAIN buckets' = DOMAIN buckets \cup {c}
           /\ \A x \in DOMAIN buckets : x # c => buckets'[x] = buckets[x]
           /\ buckets'[c] \in Fixed!WindowEntry
           /\ buckets'[c].count = Fixed!Entry(c).count + 1
           /\ buckets'[c].reset_at = Fixed!Entry(c).reset_at
  <1>1. Fixed!Entry(c) \in Fixed!WindowEntry
    BY EntryCases
  <1>2. buckets'[c] = [Fixed!Entry(c) EXCEPT !.count = Fixed!Entry(c).count + 1]
    BY DEF Fixed!Count
  <1> QED
    BY <1>1, <1>2 DEF Fixed!Count, Fixed!WindowEntry

\* A step that leaves the state of a caller as it is.
LEMMA CallerStays ==
    ASSUME FixedInv, NEW c \in Callers, UNCHANGED clock,
           c \in DOMAIN buckets' <=> c \in DOMAIN buckets,
           c \in DOMAIN buckets => buckets'[c] = buckets[c], passed'[c] = passed[c]
    PROVE  CallerOK(c)' /\ Spread(passed'[c], LimitOf[c])
  BY DEF FixedInv, CallerOK, Taken, Closes, Behind

LEMMA PassKeeps ==
    ASSUME FixedInv, NEW c \in Callers, Fixed!Pass(c)
    PROVE  FixedInv'
  <1>1. /\ passed[c] \in Seq(Nat) /\ clock \in Nat /\ LimitOf[c] \in Nat \ {0}
        /\ Window \in Nat \ {0}
        /\ Fixed!Entry(c).count \in Nat /\ Fixed!Entry(c).reset_at \in Nat
    BY CallerTypes, EntryCases, LimiterAssumption
  <1>2. /\ Fixed!Count(c) /\ clock' = clock /\ refused' = refused
        /\ passed' = [passed EXCEPT ![c] = Append(passed[c], clock)]
        /\ Fixed!Entry(c).count + 1 <= LimitOf[c]
    BY DEF Fixed!Pass
  <1>3. /\ passed' \in [Callers -> Seq(Nat)] /\ passed'[c] = Append(passed[c], clock)
        /\ \A x \in Callers : x # c => passed'[x] = passed[x]
    BY <1>1, <1>2 DEF FixedInv, FixedTypes
  <1>4. /\ DOMAIN buckets' = DOMAIN buckets \cup {c}
        /\ \A x \in DOMAIN buckets : x # c => buckets'[x] = buckets[x]
        /\ buckets'[c] \in Fixed!WindowEntry
        /\ buckets'[c].count = Fixed!Entry(c).count + 1
        /\ buckets'[c].reset_at = Fixed!Entry(c).reset_at
    BY <1>2, CountSets
  <1>5. FixedTypes'
    BY <1>2, <1>3, <1>4 DEF FixedInv, FixedTypes
  <1>6. Taken(buckets'[c], c) = Fixed!Entry(c).count + 1
    BY <1>1, <1>2, <1>4 DEF Taken
  <1>7. ASSUME NEW x \in Callers
        PROVE  CallerOK(x)' /\ Spread(passed'[x], LimitOf[x])
    <2>1. CASE x # c
      BY <1>2, <1>3, <1>4, <2>1, CallerStays
    <2>2. CASE x = c
      <3> SUFFICES /\ buckets'[c].reset_at <= clock + Window
                   /\ Closes(passed'[c], Taken(buckets'[c], c), LimitOf[c], buckets'[c].reset_at)
                   /\ Spread(passed'[c], LimitOf[c])
        BY <1>2, <1>4, <2>2 DEF CallerOK, Closes, Taken
      <3>1. Spread(passed[c], LimitOf[c])
        BY DEF FixedInv
      <3>2. CASE Open(c)
        <4>1. /\ buckets[c] = Fixed!Entry(c) /\ buckets[c].reset_at > clock
              /\ buckets[c].reset_at <= clock + Window
              /\ Closes(passed[c], Taken(buckets[c], c), LimitOf[c], buckets[c].reset_at)
          BY <3>2, EntryCases DEF FixedInv, CallerOK, Open
        <4>2. Taken(buckets[c], c) = Fixed!Entry(c).count
          BY <1>1, <1>2, <4>1 DEF Taken
        <4> QED
          BY <1>1, <1>2, <1>3, <1>4, <1>6, <3>1, <4>1, <4>2, WindowGoesOn
      <3>3. CASE ~Open(c)
        <4>1. Fixed!Entry(c).count = 0 /\ Fixed!Entry(c).reset_at = clock + Window
          BY <3>3, EntryCases
        <4>2. Behind(passed[c], LimitOf[c], clock)
          BY <3>3, EntryCases, NoneOpen
        <4>3. Taken(buckets'[c], c) = 1 /\ buckets'[c].reset_at = clock + Window
          BY <1>4, <1>6, <4>1
        <4>4. /\ Closes(passed'[c], 1, LimitOf[c], clock + Window)
              /\ Spread(passed'[c], LimitOf[c])
          BY <1>1, <1>3, <3>1, <4>2, WindowBegins
        <4> QED
          BY <1>1, <4>3, <4>4
      <3> QED
        BY <3>2, <3>3
    <2> QED
      BY <2>1, <2>2
  <1>8. RefusalOK'
    <2> SUFFICES ASSUME refused # Fixed!NoRefusal, NEW x \in Callers, refused.caller = x
                 PROVE  \/ \E i \in 1 .. Len(passed'[x]) : passed'[x][i] > refused.at
                        \/ /\ x \in DOMAIN buckets' /\ buckets'[x].reset_at > refused.at
                           /\ buckets'[x].reset_at <= refused.at + refused.retry_after * Second
                        \/ x \notin DOMAIN buckets' /\ refused.at < clock
      BY <1>2 DEF RefusalOK, FixedInv, FixedTypes, Fixed!NoRefusal
    <2>0. refused.at \in Nat
      BY DEF FixedInv, FixedTypes
    <2>1. \/ \E i \in 1 .. Len(passed[x]) : passed[x][i] > refused.at
          \/ /\ x \in DOMAIN buckets /\ buckets[x].reset_at > refused.at
             /\ buckets[x].reset_at <= refused.at + refused.retry_after * Second
          \/ x \notin DOMAIN buckets /\ refused.at < clock
      BY DEF FixedInv, RefusalOK
    <2>2. CASE x # c
      BY <1>3, <1>4, <2>1, <2>2
    <2>3. CASE x = c
      <3>1. /\ Len(passed'[c]) = Len(passed[c]) + 1 /\ Len(passed[c]) \in Nat
            /\ passed'[c][Len(passed[c]) + 1] = clock
            /\ \A i \in 1 .. Len(passed[c]) : passed'[c][i] = passed[c][i]
        BY <1>1, <1>3
      <3>2. CASE \E i \in 1 .. Len(passed[c]) : passed[c][i] > refused.at
        BY <2>3, <3>1, <3>2
      <3>3. CASE Open(c)
        BY <1>4, <2>1, <2>3, <3>2, <3>3, EntryCases DEF Open
      <3>4. CASE ~Open(c) /\ ~\E i \in 1 .. Len(passed[c]) : passed[c][i] > refused.at
        <4>1. refused.at < clock
          BY <1>1, <2>0, <2>1, <2>3, <3>4, EntryCases, CallerTypes
        <4> QED
          BY <2>3, <3>1, <4>1
      <3> QED
        BY <3>2, <3>3, <3>4
    <2> QED
      BY <2>2, <2>3
  <1> QED
    BY <1>5, <1>7, <1>8 DEF FixedInv

\* Only a window that is used up refuses.
LEMMA RefuseSets ==
    ASSUME FixedInv, NEW c \in Callers, Fixed!Refuse(c)
    PROVE  /\ Open(c) /\ UNCHANGED <<clock, passed>>
           /\ DOMAIN buckets' = DOMAIN buckets
           /\ \A x \in DOMAIN buckets : x # c => buckets'[x] = buckets[x]
           /\ buckets'[c] \in Fixed!WindowEntry
           /\ buckets'[c].reset_at = buckets[c].reset_at
           /\ Taken(buckets[c], c) = LimitOf[c] /\ Taken(buckets'[c], c) = LimitOf[c]
           /\ refused' \in [caller : Callers, at : Nat, retry_after : Nat]
           /\ refused'.caller = c /\ refused'.at = clock
           /\ refused'.retry_after * Second >= buckets[c].reset_at - clock
  <1>1. /\ clock \in Nat /\ LimitOf[c] \in Nat \ {0}
        /\ Fixed!Entry(c).count \in Nat /\ Fixed!Entry(c).reset_at \in Nat
    BY CallerTypes, EntryCases
  <1>2. /\ Fixed!Count(c) /\ clock' = clock /\ passed' = passed
        /\ Fixed!Entry(c).count + 1 > LimitOf[c]
        /\ refused' = [caller |-> c, at |-> clock,
                       retry_after |-> Fixed!Ceil(Fixed!Entry(c).reset_at - clock)]
    BY DEF Fixed!Refuse
  <1>3. Open(c) /\ Fixed!Entry(c) = buckets[c]
    BY <1>1, <1>2, EntryCases
  <1>4. buckets[c].reset_at - clock \in Nat
    BY <1>1, <1>3 DEF Open
  <1>5. /\ Fixed!Ceil(buckets[c].reset_at - clock) \in Nat
        /\ Fixed!Ceil(buckets[c].reset_at - clock) * Second >= buckets[c].reset_at - clock
    BY <1>4, CeilCovers
  <1>6. /\ DOMAIN buckets' = DOMAIN buckets \cup {c}
        /\ \A x \in DOMAIN buckets : x # c => buckets'[x] = buckets[x]
        /\ buckets'[c] \in Fixed!WindowEntry
        /\ buckets'[c].count = buckets[c].count + 1
        /\ buckets'[c].reset_at = buckets[c].reset_at
    BY <1>2, <1>3, CountSets
  <1>7. Taken(buckets[c], c) = LimitOf[c] /\ Taken(buckets'[c], c) = LimitOf[c]
    BY <1>1, <1>2, <1>3, <1>6 DEF Taken
  <1> QED
    BY <1>1, <1>2, <1>3, <1>5, <1>6, <1>7 DEF Open

LEMMA RefuseKeeps ==
    ASSUME FixedInv, NEW c \in Callers, Fixed!Refuse(c)
    PROVE  FixedInv'
  <1>1. FixedTypes'
    BY RefuseSets DEF FixedInv, FixedTypes, Open
  <1>2. ASSUME NEW x \in Callers
        PROVE  CallerOK(x)' /\ Spread(passed'[x], LimitOf[x])
    <2>1. CASE x # c
      BY <2>1, RefuseSets, CallerStays
    <2>2. CASE x = c
      BY <2>2, RefuseSets DEF FixedInv, CallerOK, Closes, Taken, Open
    <2> QED
      BY <2>1, <2>2
  <1>3. RefusalOK'
    <2>1. /\ refused'.caller = c /\ refused'.at = clock /\ c \in DOMAIN buckets'
          /\ buckets'[c].reset_at = buckets[c].reset_at /\ buckets[c].reset_at > clock
          /\ refused'.retry_after * Second >= buckets[c].reset_at - clock
          /\ refused'.retry_after \in Nat
      BY RefuseSets DEF Open
    <2>2. clock \in Nat /\ buckets[c].reset_at \in Nat /\ refused'.retry_after * Second \in Nat
      BY <2>1, RefuseSets, CallerTypes, RequestsAssumption DEF Open
    <2> QED
      BY <2>1, <2>2 DEF RefusalOK
  <1> QED
    BY <1>1, <1>2, <1>3 DEF FixedInv

LEMMA PurgeKeeps ==
    ASSUME FixedInv, Fixed!Purge
    PROVE  FixedInv'
  <1>1. /\ DOMAIN buckets' = {x \in DOMAIN buckets : buckets[x].reset_at > clock}
        /\ \A x \in DOMAIN buckets' : buckets'[x] = buckets[x]
        /\ clock' = clock /\ passed' = passed /\ refused' = refused
    BY DEF Fixed!Purge
  <1>2. FixedTypes'
    BY <1>1 DEF FixedInv, FixedTypes
  <1>3. ASSUME NEW x \in Callers
        PROVE  CallerOK(x)' /\ Spread(passed'[x], LimitOf[x])
    <2>1. CASE x \in DOMAIN buckets' \/ x \notin DOMAIN buckets
      BY <1>1, <2>1, CallerStays
    <2>2. CASE x \in DOMAIN buckets /\ x \notin DOMAIN buckets'
      <3>1. Behind(passed[x], LimitOf[x], clock)
        BY <1>1, <2>2, CallerTypes, NoneOpen
      <3> QED
        BY <1>1, <2>2, <3>1 DEF FixedInv, CallerOK, Behind
    <2> QED
      BY <2>1, <2>2
  <1>4. RefusalOK'
    <2> SUFFICES ASSUME refused # Fixed!NoRefusal, NEW x \in Callers, refused.caller = x
                 PROVE  \/ \E i \in 1 .. Len(passed[x]) : passed[x][i] > refused.at
                        \/ /\ x \in DOMAIN buckets' /\ buckets'[x].reset_at > refused.at
                           /\ buckets'[x].reset_at <= refused.at + refused.retry_after * Second
                        \/ x \notin DOMAIN buckets' /\ refused.at < clock
      BY <1>1 DEF RefusalOK, FixedInv, FixedTypes, Fixed!NoRefusal
    <2>1. \/ \E i \in 1 .. Len(passed[x]) : passed[x][i] > refused.at
          \/ /\ x \in DOMAIN buckets /\ buckets[x].reset_at > refused.at
             /\ buckets[x].reset_at <= refused.at + refused.retry_after * Second
          \/ x \notin DOMAIN buckets /\ refused.at < clock
      BY DEF FixedInv, RefusalOK
    <2>2. refused.at \in Nat /\ clock \in Nat
      BY DEF FixedInv, FixedTypes
    <2>3. x \in DOMAIN buckets => buckets[x].reset_at \in Nat
      BY CallerTypes
    <2> QED
      BY <1>1, <2>1, <2>2, <2>3
  <1> QED
    BY <1>2, <1>3, <1>4 DEF FixedInv

LEMMA ClockKeeps ==
    ASSUME FixedInv, clock' = clock + 1, UNCHANGED <<buckets, passed, refused>>
    PROVE  FixedInv'
  <1>0. clock \in Nat /\ Window \in Nat
    BY LimiterAssumption DEF FixedInv, FixedTypes
  <1>1. FixedTypes'
    BY <1>0 DEF FixedInv, FixedTypes
  <1>2. ASSUME NEW x \in Callers
        PROVE  CallerOK(x)' /\ Spread(passed'[x], LimitOf[x])
    <2>1. CASE x \in DOMAIN buckets
      <3>1. buckets[x].reset_at \in Nat /\ buckets[x].reset_at <= clock + Window
        BY <2>1, CallerTypes DEF FixedInv, CallerOK
      <3>2. buckets[x].reset_at <= clock' + Window
        BY <1>0, <3>1
      <3> QED
        BY <2>1, <3>2 DEF FixedInv, CallerOK, Closes, Taken
    <2>2. CASE x \notin DOMAIN buckets
      <3>1. Behind(passed[x], LimitOf[x], clock) /\ passed[x] \in Seq(Nat)
        BY <2>2, CallerTypes DEF FixedInv, CallerOK
      <3>2. Behind(passed[x], LimitOf[x], clock + 1)
        BY <1>0, <3>1 DEF Behind
      <3> QED
        BY <2>2, <3>2 DEF FixedInv, CallerOK, Behind
    <2> QED
      BY <2>1, <2>2
  <1>3. RefusalOK'
    <2>1. refused # Fixed!NoRefusal => refused.at \in Nat
      BY DEF FixedInv, FixedTypes
    <2> QED
      BY <1>0, <2>1 DEF FixedInv, RefusalOK
  <1> QED
    BY <1>1, <1>2, <1>3 DEF FixedInv

LEMMA FixedNext == FixedInv /\ [Fixed!Next]_Fixed!vars => FixedInv'
  <1> SUFFICES ASSUME FixedInv, [Fixed!Next]_Fixed!vars PROVE FixedInv'
    OBVIOUS
  <1>1. CASE UNCHANGED Fixed!vars
    BY <1>1
       DEF Fixed!vars, FixedInv, FixedTypes, CallerOK, Taken, Closes, Behind, Spread, RefusalOK
  <1>2. CASE Fixed!Tick
    BY <1>2, ClockKeeps DEF Fixed!Tick
  <1> QED
    BY <1>1, <1>2, PassKeeps, RefuseKeeps, PurgeKeeps DEF Fixed!Next, Callers

\* Only a caller let through since is refused again after its Retry-After.
LEMMA RefusedAgain ==
    ASSUME FixedInv, [Fixed!Next]_Fixed!vars, NEW c \in Callers,
           refused # Fixed!NoRefusal, refused.caller = c,
           refused' # refused, refused'.caller = c,
           clock >= refused.at + refused.retry_after * Second
    PROVE  \E i \in 1 .. Len(passed[c]) : passed[c][i] > refused.at
  <1>1. PICK x \in Callers : Fixed!Refuse(x)
    BY DEF Fixed!Next, Fixed!vars, Fixed!Pass, Fixed!Purge, Fixed!Tick, Callers
  <1>2. Open(c)
    BY <1>1, RefuseSets
  <1>3. \/ \E i \in 1 .. Len(passed[c]) : passed[c][i] > refused.at
        \/ /\ c \in DOMAIN buckets /\ buckets[c].reset_at > refused.at
           /\ buckets[c].reset_at <= refused.at + refused.retry_after * Second
        \/ c \notin DOMAIN buckets /\ refused.at < clock
    BY DEF FixedInv, RefusalOK
  <1>4. /\ refused.at \in Nat /\ refused.retry_after \in Nat /\ clock \in Nat
        /\ buckets[c].reset_at \in Nat /\ refused.retry_after * Second \in Nat
    BY <1>2, CallerTypes, RequestsAssumption DEF FixedInv, FixedTypes, Open
  <1> QED
    BY <1>2, <1>3, <1>4 DEF Open

(***************************************************************************)
(* The two tables of the routes agree.                                     *)
(***************************************************************************)

\* The rule of a route and the credential its handler takes, for one body: a
\* handler that needs a token is not public, one that needs a session is
\* admitted on a session unless it looks itself, and what the table judged on a
\* session is asked for with that session or a bearer.
Agree(rule, cred, body) ==
    /\ rule \in {"public", "token", "session", "site_admin"}
    /\ cred = "bearer" => rule # "public"
    /\ cred = "session" =>
           rule \in {"session", "site_admin"} \/ (rule = "token" /\ body = "told")
    /\ rule = "session" => cred \in {"session", "optional"}
    /\ rule = "site_admin" => cred \in {"session", "optional", "bearer", "forward"}

Agrees(r, takes) ==
    /\ r \in DOMAIN ROUTE_AUTH
    /\ Agree(ROUTE_AUTH[r].told, takes.told.cred, "told")
    /\ Agree(ROUTE_AUTH[r].plain, takes.plain.cred, "plain")

\* The handlers of a controller are what the table says.
Fits(handlers) == \A r \in DOMAIN handlers : Agrees(r, handlers[r])

LEMMA FitsTogether ==
    ASSUME NEW tables, \A t \in tables : Fits(t)
    PROVE  Fits(Together(tables))
  <1> SUFFICES ASSUME NEW r \in UNION {DOMAIN t : t \in tables}
               PROVE  Agrees(r, Together(tables)[r])
    BY DEF Fits, Together
  <1>1. PICK t \in tables : r \in DOMAIN t /\ Together(tables)[r] = t[r]
    BY DEF Together
  <1> QED
    BY <1>1 DEF Fits

LEMMA FitsSet ==
    ASSUME NEW routes, NEW cred, NEW via,
           \A r \in routes : /\ r \in DOMAIN ROUTE_AUTH
                             /\ Agree(ROUTE_AUTH[r].told, cred, "told")
                             /\ Agree(ROUTE_AUTH[r].plain, cred, "plain")
    PROVE  Fits(Handler(routes, cred, via))
  BY DEF Fits, Agrees, Handler, For, Takes

BodyPaths == {"users/change_password", "users/reset_password"}
ForwardedToken == {"realms/create", "runs/claim"}
ForwardedAdmin == {"settings/set", "settings/remove"}

\* No route has two lines.
LEMMA Apart ==
    ASSUME NEW r
    PROVE  /\ r \in TokenRoutes => r \notin PublicRoutes
           /\ r \in SessionRoutes => r \notin PublicRoutes \cup TokenRoutes
           /\ r \in AdminRoutes => r \notin PublicRoutes \cup TokenRoutes \cup SessionRoutes
           /\ r \in BodyPaths =>
                r \notin PublicRoutes \cup TokenRoutes \cup SessionRoutes \cup AdminRoutes
           /\ r \in ForwardedToken \cup ForwardedAdmin =>
                r \notin PublicRoutes \cup TokenRoutes \cup SessionRoutes \cup AdminRoutes \cup BodyPaths
           /\ r \in ForwardedToken => r \notin ForwardedAdmin
  <1>1. r \in TokenRoutes => r \notin PublicRoutes
    BY DEF PublicRoutes, TokenRoutes
  <1>2. r \in SessionRoutes => r \notin PublicRoutes
    BY DEF PublicRoutes, SessionRoutes
  <1>3. r \in SessionRoutes => r \notin TokenRoutes
    BY DEF TokenRoutes, SessionRoutes
  <1>4. r \in AdminRoutes => r \notin PublicRoutes \cup TokenRoutes
    BY DEF AdminRoutes, PublicRoutes, TokenRoutes
  <1>5. r \in AdminRoutes => r \notin SessionRoutes
    BY DEF AdminRoutes, SessionRoutes
  <1>6. r \in BodyPaths \cup ForwardedToken \cup ForwardedAdmin =>
            r \notin PublicRoutes \cup TokenRoutes
    BY DEF BodyPaths, ForwardedToken, ForwardedAdmin, PublicRoutes, TokenRoutes
  <1>7. r \in BodyPaths \cup ForwardedToken \cup ForwardedAdmin =>
            r \notin SessionRoutes \cup AdminRoutes
    BY DEF BodyPaths, ForwardedToken, ForwardedAdmin, SessionRoutes, AdminRoutes
  <1>8. /\ r \in ForwardedToken \cup ForwardedAdmin => r \notin BodyPaths
        /\ r \in ForwardedToken => r \notin ForwardedAdmin
    BY DEF BodyPaths, ForwardedToken, ForwardedAdmin
  <1> QED
    BY <1>1, <1>2, <1>3, <1>4, <1>5, <1>6, <1>7, <1>8

LEMMA Owned ==
    ASSUME NEW tables, NEW r, NEW v,
           \E t \in tables : r \in DOMAIN t,
           \A t \in tables : r \in DOMAIN t => t[r] = v
    PROVE  r \in DOMAIN Together(tables) /\ Together(tables)[r] = v
  BY DEF Together

LEMMA ForAll ==
    ASSUME NEW routes, NEW rule
    PROVE  /\ DOMAIN For(routes, rule) = routes
           /\ \A r \in routes : For(routes, rule)[r] = [told |-> rule, plain |-> rule]
  BY DEF For

LEMMA Forwarded ==
    ASSUME NEW r
    PROVE  /\ DOMAIN PASSTHROUGH_PATHS = ForwardedToken \cup ForwardedAdmin
           /\ r \in ForwardedToken =>
                PASSTHROUGH_PATHS[r] = [told |-> "token", plain |-> "token"]
           /\ r \in ForwardedAdmin =>
                PASSTHROUGH_PATHS[r] = [told |-> "site_admin", plain |-> "site_admin"]
  <1> DEFINE T == For(ForwardedToken, "token")
             A == For(ForwardedAdmin, "site_admin")
  <1>1. PASSTHROUGH_PATHS = Together({T, A})
    BY DEF PASSTHROUGH_PATHS, ForwardedToken, ForwardedAdmin
  <1>2. /\ DOMAIN T = ForwardedToken /\ DOMAIN A = ForwardedAdmin
        /\ r \in ForwardedToken => T[r] = [told |-> "token", plain |-> "token"]
        /\ r \in ForwardedAdmin => A[r] = [told |-> "site_admin", plain |-> "site_admin"]
    BY ForAll
  <1> HIDE DEF T, A
  <1>3. DOMAIN Together({T, A}) = ForwardedToken \cup ForwardedAdmin
    BY <1>2 DEF Together
  <1>4. ASSUME NEW t, t \in {T, A}, r \in DOMAIN t, \A u \in {T, A} : r \in DOMAIN u => u = t
        PROVE  Together({T, A})[r] = t[r]
    <2> DEFINE tables == {T, A}
    <2>1. \E u \in tables : r \in DOMAIN u
      BY <1>4
    <2>2. \A u \in tables : r \in DOMAIN u => u[r] = t[r]
      BY <1>4
    <2> HIDE DEF tables
    <2>3. Together(tables)[r] = t[r]
      BY <2>1, <2>2, Owned
    <2> QED
      BY <2>3 DEF tables
  <1>5. r \in ForwardedToken => Together({T, A})[r] = T[r]
    BY <1>2, <1>4, Apart
  <1>6. r \in ForwardedAdmin => Together({T, A})[r] = A[r]
    BY <1>2, <1>4, Apart
  <1> QED
    BY <1>1, <1>2, <1>3, <1>5, <1>6

Line(r, rule) ==
    r \in DOMAIN ROUTE_AUTH /\ ROUTE_AUTH[r] = [told |-> rule, plain |-> rule]

LEMMA Lines ==
    ASSUME NEW r
    PROVE  /\ r \in PublicRoutes => Line(r, "public")
           /\ r \in TokenRoutes \cup ForwardedToken => Line(r, "token")
           /\ r \in SessionRoutes => Line(r, "session")
           /\ r \in AdminRoutes \cup ForwardedAdmin => Line(r, "site_admin")
           /\ r \in BodyPaths => r \in DOMAIN ROUTE_AUTH /\ ROUTE_AUTH[r] = BodyRoutes[r]
  <1> DEFINE P == For(PublicRoutes, "public")
             T == For(TokenRoutes, "token")
             S == For(SessionRoutes, "session")
             A == For(AdminRoutes, "site_admin")
             Tables == {P, T, S, A, BodyRoutes, PASSTHROUGH_PATHS}
             Both(rule) == [told |-> rule, plain |-> rule]
  <1>1. ROUTE_AUTH = Together(Tables)
    BY DEF ROUTE_AUTH
  <1>2. /\ DOMAIN P = PublicRoutes /\ (r \in PublicRoutes => P[r] = Both("public"))
        /\ DOMAIN T = TokenRoutes /\ (r \in TokenRoutes => T[r] = Both("token"))
        /\ DOMAIN S = SessionRoutes /\ (r \in SessionRoutes => S[r] = Both("session"))
        /\ DOMAIN A = AdminRoutes /\ (r \in AdminRoutes => A[r] = Both("site_admin"))
    BY ForAll
  <1>3. DOMAIN BodyRoutes = BodyPaths
    BY DEF BodyRoutes, BodyPaths
  <1>4. /\ DOMAIN PASSTHROUGH_PATHS = ForwardedToken \cup ForwardedAdmin
        /\ r \in ForwardedToken => PASSTHROUGH_PATHS[r] = Both("token")
        /\ r \in ForwardedAdmin => PASSTHROUGH_PATHS[r] = Both("site_admin")
    BY Forwarded
  <1> HIDE DEF P, T, S, A, Both
  <1>5. ASSUME NEW v, \E t \in Tables : r \in DOMAIN t,
               \A t \in Tables : r \in DOMAIN t => t[r] = v
        PROVE  r \in DOMAIN ROUTE_AUTH /\ ROUTE_AUTH[r] = v
    <2> HIDE DEF Tables
    <2> QED
      BY <1>1, <1>5, Owned
  <1>6. CASE r \in PublicRoutes
    <2>1. /\ \E t \in Tables : r \in DOMAIN t
          /\ \A t \in Tables : r \in DOMAIN t => t[r] = Both("public")
      BY <1>2, <1>3, <1>4, <1>6, Apart
    <2> QED
      BY <1>5, <1>6, <2>1, Apart DEF Line, Both
  <1>7. CASE r \in TokenRoutes \cup ForwardedToken
    <2>1. /\ \E t \in Tables : r \in DOMAIN t
          /\ \A t \in Tables : r \in DOMAIN t => t[r] = Both("token")
      BY <1>2, <1>3, <1>4, <1>7, Apart
    <2> QED
      BY <1>5, <1>7, <2>1, Apart DEF Line, Both
  <1>8. CASE r \in SessionRoutes
    <2>1. /\ \E t \in Tables : r \in DOMAIN t
          /\ \A t \in Tables : r \in DOMAIN t => t[r] = Both("session")
      BY <1>2, <1>3, <1>4, <1>8, Apart
    <2> QED
      BY <1>5, <1>8, <2>1, Apart DEF Line, Both
  <1>9. CASE r \in AdminRoutes \cup ForwardedAdmin
    <2>1. /\ \E t \in Tables : r \in DOMAIN t
          /\ \A t \in Tables : r \in DOMAIN t => t[r] = Both("site_admin")
      BY <1>2, <1>3, <1>4, <1>9, Apart
    <2> QED
      BY <1>5, <1>9, <2>1, Apart DEF Line, Both
  <1>10. CASE r \in BodyPaths
    <2>1. /\ \E t \in Tables : r \in DOMAIN t
          /\ \A t \in Tables : r \in DOMAIN t => t[r] = BodyRoutes[r]
      BY <1>2, <1>3, <1>4, <1>10, Apart
    <2> QED
      BY <1>5, <1>10, <2>1, Apart
  <1> QED
    BY <1>6, <1>7, <1>8, <1>9, <1>10

(***************************************************************************)
(* Every handler's line is one it can rely on.                             *)
(***************************************************************************)

LEMMA FitsSigned ==
    ASSUME NEW routes, routes \subseteq SessionRoutes \cup AdminRoutes
    PROVE  Fits(Signed(routes))
  <1>1. ASSUME NEW r \in routes
        PROVE  Line(r, "session") \/ Line(r, "site_admin")
    BY Lines
  <1> QED
    BY <1>1, FitsSet DEF Signed, Line, Agree

LEMMA FitsTokens ==
    ASSUME NEW routes, routes \subseteq TokenRoutes \cup ForwardedToken \cup ForwardedAdmin,
           NEW via
    PROVE  Fits(Handler(routes, "bearer", via))
  <1>1. ASSUME NEW r \in routes
        PROVE  Line(r, "token") \/ Line(r, "site_admin")
    BY Lines
  <1> QED
    BY <1>1, FitsSet DEF Line, Agree

LEMMA FitsOpen ==
    ASSUME NEW routes, routes \subseteq PublicRoutes \cup TokenRoutes, NEW via,
           NEW cred \in {"none", "header", "optional", "forward"}
    PROVE  Fits(Handler(routes, cred, via))
  <1>1. ASSUME NEW r \in routes
        PROVE  Line(r, "public") \/ Line(r, "token")
    BY Lines
  <1> QED
    BY <1>1, FitsSet DEF Line, Agree

LEMMA FitsPage ==
    ASSUME NEW r \in SessionRoutes \cup AdminRoutes
    PROVE  Fits(Signed({r}))
  BY FitsSigned

\* A route whose handler does the work of the BFF itself for a body that tells its
\* field, and forwards any other.
LEMMA FitsChecked ==
    ASSUME NEW r \in TokenRoutes, NEW via, NEW other
    PROVE  Fits([x \in {r} |-> [told |-> Takes("session", via), plain |-> Takes("bearer", other)]])
  <1>1. Line(r, "token")
    BY Lines
  <1> QED
    BY <1>1 DEF Line, Fits, Agrees, Agree, Takes

LEMMA FitsLinks == Fits(UsersControllerLinks)
  <1> DEFINE links == [r \in {"users/reset_password", "users/change_password"} |->
                        [told |-> Takes("none", "post"), plain |-> Takes("session", "post")]]
  <1>1. ASSUME NEW r \in BodyPaths
        PROVE  /\ r \in DOMAIN ROUTE_AUTH /\ ROUTE_AUTH[r].told = "public"
               /\ ROUTE_AUTH[r].plain \in {"session", "site_admin"}
    <2>1. r \in DOMAIN ROUTE_AUTH /\ ROUTE_AUTH[r] = BodyRoutes[r]
      BY <1>1, Lines
    <2>2. /\ BodyRoutes[r].told = "public"
          /\ BodyRoutes[r].plain \in {"session", "site_admin"}
      BY <1>1 DEF BodyRoutes, BodyPaths
    <2> QED
      BY <2>1, <2>2
  <1>2. Fits(links)
    BY <1>1 DEF Fits, Agrees, Agree, Takes, BodyPaths
  <1>3. {"users/update_role", "users/update_profile"} \subseteq SessionRoutes \cup AdminRoutes
    BY DEF SessionRoutes
  <1>4. Fits(Signed({"users/update_role", "users/update_profile"}))
    BY <1>3, FitsSigned
  <1> HIDE DEF links
  <1>5. UsersControllerLinks = Together({Signed({"users/update_role", "users/update_profile"}), links})
    BY DEF UsersControllerLinks, links
  <1> QED
    BY <1>2, <1>4, <1>5, FitsTogether

LEMMA FitsHealth == Fits(register_health_routes) /\ Fits(register_a2a_routes)
  <1>1. /\ {"bff-health"} \subseteq PublicRoutes \cup TokenRoutes
        /\ {"a2a/card"} \subseteq PublicRoutes \cup TokenRoutes
        /\ {"a2a/send"} \subseteq PublicRoutes \cup TokenRoutes
    BY DEF PublicRoutes
  <1>2. /\ Fits(Handler({"bff-health"}, "none", "nothing"))
        /\ Fits(Handler({"a2a/card"}, "none", "get_json"))
        /\ Fits(Handler({"a2a/send"}, "header", "relay"))
    BY <1>1, FitsOpen
  <1> QED
    BY <1>2, FitsTogether
       DEF register_health_routes, register_a2a_routes, HealthController, A2aController

LEMMA FitsAuth == Fits(register_auth_routes)
  <1>1. /\ {"session/get", "session/update"} \subseteq SessionRoutes \cup AdminRoutes
        /\ {"session/create"} \subseteq PublicRoutes \cup TokenRoutes
        /\ {"session/delete"} \subseteq PublicRoutes \cup TokenRoutes
        /\ {"auth/signup"} \subseteq PublicRoutes \cup TokenRoutes
        /\ {"auth/generate_token", "auth/get_tokens", "auth/revoke_token", "auth/rotate_token",
            "auth/get_dispatch_public_key", "auth/rotate_dispatch_key"} \subseteq TokenRoutes
    BY DEF PublicRoutes, TokenRoutes, SessionRoutes
  <1>2. Fits(SessionController)
    BY <1>1, FitsSigned, FitsOpen, FitsTogether DEF SessionController
  <1>3. Fits(AuthController)
    BY <1>1, FitsOpen DEF AuthController
  <1>4. Fits(TokensController) /\ Fits(DispatchKeyController)
    BY <1>1, FitsTokens DEF TokensController, DispatchKeyController
  <1> QED
    BY <1>2, <1>3, <1>4, FitsTogether DEF register_auth_routes

LEMMA FitsTeams == Fits(register_teams_routes)
  <1>1. /\ {"teams/get", "teams/get_by_id", "teams/get_versions", "teams/get_phases", "teams/build"}
             \subseteq PublicRoutes \cup TokenRoutes
        /\ {"teams/create", "teams/update", "teams/publish", "teams/unpublish", "teams/delete"}
             \subseteq SessionRoutes \cup AdminRoutes
        /\ {"teams/download"} \subseteq TokenRoutes
        /\ {"realms/get"} \subseteq TokenRoutes
        /\ "realms/add_team" \in TokenRoutes
    BY DEF PublicRoutes, TokenRoutes, SessionRoutes
  <1>2. Fits(TeamsController)
    BY <1>1, FitsSigned, FitsOpen, FitsTokens, FitsTogether DEF TeamsController
  <1>3. Fits(RealmsListController)
    BY <1>1, FitsTokens DEF RealmsListController
  <1>4. Fits(TeamInstallController)
    BY <1>1, FitsChecked DEF TeamInstallController
  <1> QED
    BY <1>2, <1>3, <1>4, FitsTogether DEF register_teams_routes

LEMMA FitsOrgs == Fits(register_orgs_routes) /\ Fits(register_invitations_routes)
  <1>1. {"orgs/get", "orgs/new", "orgs/delete", "orgs/get_by_id", "orgs/update", "orgs/leave",
         "orgs/remove_member", "orgs/list_roles", "orgs/get_role", "orgs/create_role"}
          \subseteq SessionRoutes \cup AdminRoutes
    BY DEF SessionRoutes, AdminRoutes
  <1>2. {"orgs/update_role", "orgs/delete_role", "orgs/new_scope", "orgs/update_scope",
         "orgs/delete_scope", "orgs/assign_scope_member", "orgs/unassign_scope_member",
         "orgs/get_scopes"} \subseteq SessionRoutes \cup AdminRoutes
    BY DEF SessionRoutes
  <1>3. /\ {"invitations/create", "invitations/get", "invitations/get_by_id", "invitations/revoke"}
             \subseteq SessionRoutes \cup AdminRoutes
        /\ {"invitations/get_by_token", "invitations/accept"} \subseteq PublicRoutes \cup TokenRoutes
    BY DEF SessionRoutes, PublicRoutes
  <1>4. Fits(OrgsController)
    BY <1>1, FitsSigned DEF OrgsController
  <1>5. Fits(OrgsControllerScopes)
    BY <1>2, FitsSigned DEF OrgsControllerScopes
  <1>6. Fits(InvitationsController)
    BY <1>3, FitsSigned, FitsOpen, FitsTogether DEF InvitationsController
  <1> QED
    BY <1>4, <1>5, <1>6, FitsTogether DEF register_orgs_routes, register_invitations_routes

LEMMA FitsUsers == Fits(register_users_routes) /\ Fits(register_reports_routes)
  <1>1. /\ {"users/get", "users/get_by_id", "users/new", "users/update", "users/suspend",
            "users/unsuspend", "users/delete", "users/set_role"} \subseteq SessionRoutes \cup AdminRoutes
        /\ {"reports/audit"} \subseteq SessionRoutes \cup AdminRoutes
    BY DEF SessionRoutes, AdminRoutes
  <1>2. Fits(UsersController) /\ Fits(ReportsController)
    BY <1>1, FitsSigned DEF UsersController, ReportsController
  <1> QED
    BY <1>2, FitsLinks, FitsTogether DEF register_users_routes, register_reports_routes

LEMMA FitsNotifications == Fits(NotificationCenterController)
  <1>1. /\ {"notification_center/get", "notification_center/check", "notification_center/set_rules"}
             \subseteq SessionRoutes \cup AdminRoutes
        /\ "notification_channels/update" \in TokenRoutes
    BY DEF SessionRoutes, TokenRoutes
  <1> DEFINE rules == Signed({"notification_center/get", "notification_center/check",
                              "notification_center/set_rules"})
             change == [r \in {"notification_channels/update"} |->
                         [told |-> Takes("session", "post"), plain |-> Takes("bearer", "post_body")]]
  <1>2. Fits(rules) /\ Fits(change)
    BY <1>1, FitsSigned, FitsChecked
  <1>3. NotificationCenterController = Together({rules, change})
    BY DEF NotificationCenterController
  <1> HIDE DEF rules, change
  <1> QED
    BY <1>2, <1>3, FitsTogether

\* The routes of the composed pages, a controller each.
Pages == {
    "overview/get", "getting_started/get", "inbox/get", "org_page/get", "realm_inbox/get",
    "realm_runs/get", "realm_teams/get", "realm_daemons/get", "realm_settings/get",
    "run_detail/get", "run_telemetry/get", "daemon_page/get", "workspace_page/get",
    "team_list/get", "team_page/get", "agent_list/get", "agent_page/get", "hug_page/get",
    "admin_home/get", "admin_list/get"}

LEMMA FitsPageRoutes == Fits(register_pages_routes)
  <1>1. Pages \subseteq SessionRoutes \cup AdminRoutes
    BY DEF Pages, SessionRoutes, AdminRoutes
  <1>2. \A r \in Pages : Fits(Signed({r}))
    BY <1>1, FitsPage
  <1> DEFINE tables == {
            OverviewController, GettingStartedController, InboxController,
            NotificationCenterController, OrgPageController, RealmInboxController,
            RunDetailController, RealmRunsController, RealmTeamsController,
            RealmDaemonsController, RealmSettingsController, RunTelemetryController,
            DaemonPageController, WorkspacePageController, TeamListController,
            TeamPageController, AgentListController, AgentPageController, HugPageController,
            AdminHomeController, AdminListController}
  <1>3. ASSUME NEW t \in tables
        PROVE  t = NotificationCenterController \/ \E r \in Pages : t = Signed({r})
    BY DEF Pages, OverviewController, GettingStartedController, InboxController, OrgPageController,
           RealmInboxController, RealmRunsController, RealmTeamsController,
           RealmDaemonsController, RealmSettingsController, RunDetailController,
           RunTelemetryController, DaemonPageController, WorkspacePageController,
           TeamListController, TeamPageController, AgentListController, AgentPageController,
           HugPageController, AdminHomeController, AdminListController
  <1>4. register_pages_routes = Together(tables)
    BY DEF register_pages_routes
  <1> HIDE DEF tables
  <1>5. \A t \in tables : Fits(t)
    BY <1>2, <1>3, FitsNotifications
  <1> QED
    BY <1>4, <1>5, FitsTogether

LEMMA FitsPassthrough == Fits(register_runs_routes) /\ Fits(register_passthrough_routes)
  <1>1. /\ {"runs/enqueue"} \subseteq TokenRoutes
        /\ {"runs/stream"} \subseteq TokenRoutes
        /\ {"artifacts/upload", "teams/files/upload", "GET artifacts/download", "artifacts/download"}
             \subseteq TokenRoutes
    BY DEF TokenRoutes
  <1>2. Fits(RunEnqueueController) /\ Fits(ArtifactFilesController)
    BY <1>1, FitsTokens DEF RunEnqueueController, ArtifactFilesController
  <1>3. Fits(StreamsController)
    BY <1>1, FitsOpen DEF StreamsController
  <1>4. DOMAIN PASSTHROUGH_PATHS \subseteq ForwardedToken \cup ForwardedAdmin
    BY Forwarded
  <1>5. Fits(PassthroughController)
    BY <1>4, FitsTokens DEF PassthroughController
  <1> QED
    BY <1>2, <1>3, <1>5, FitsTogether DEF register_runs_routes, register_passthrough_routes

\* The rule of every route fits the credential its handler takes, for either body
\* (routes/route_auth.ts, the controllers), and no route is served without a
\* line, so check_route_auth never keeps the BFF from starting.
THEOREM TablesAgree == Fits(register_routes) /\ check_route_auth = {}
  <1>1. Fits(register_routes)
    BY FitsHealth, FitsAuth, FitsTeams, FitsOrgs, FitsUsers, FitsPageRoutes, FitsPassthrough,
       FitsTogether DEF register_routes
  <1> QED
    BY <1>1 DEF Fits, Agrees, check_route_auth

(***************************************************************************)
(* Every line's route is served.                                           *)
(***************************************************************************)

LEMMA Mounts ==
    ASSUME NEW tables, NEW t \in tables
    PROVE  DOMAIN t \subseteq DOMAIN Together(tables)
  BY DEF Together

LEMMA Paths ==
    ASSUME NEW routes, NEW cred, NEW via
    PROVE  DOMAIN Handler(routes, cred, via) = routes /\ DOMAIN Signed(routes) = routes
  BY DEF Handler, Signed, For

LEMMA ServesHealth ==
    {"bff-health", "a2a/card", "a2a/send"} \subseteq DOMAIN register_routes
  <1>1. DOMAIN register_health_routes = {"bff-health"}
    BY Paths DEF register_health_routes, HealthController
  <1>2. {"a2a/card", "a2a/send"} \subseteq DOMAIN register_a2a_routes
    <2> DEFINE card == Handler({"a2a/card"}, "none", "get_json")
               send == Handler({"a2a/send"}, "header", "relay")
    <2>1. "a2a/card" \in DOMAIN card /\ "a2a/send" \in DOMAIN send
      BY Paths
    <2>2. register_a2a_routes = Together({card, send})
      BY DEF register_a2a_routes, A2aController
    <2> HIDE DEF card, send
    <2> QED
      BY <2>1, <2>2, Mounts
  <1> QED
    BY <1>1, <1>2, Mounts DEF register_routes

LEMMA ServesAuth ==
    {"session/get", "session/update", "session/create", "session/delete", "auth/signup",
     "auth/generate_token", "auth/get_tokens", "auth/revoke_token", "auth/rotate_token",
     "auth/get_dispatch_public_key", "auth/rotate_dispatch_key"} \subseteq DOMAIN register_routes
  <1>1. {"session/get", "session/update", "session/create", "session/delete"}
          \subseteq DOMAIN SessionController
    <2> DEFINE own == Signed({"session/get", "session/update"})
               in == Handler({"session/create"}, "none", "post")
               off == Handler({"session/delete"}, "optional", "post")
    <2>1. /\ DOMAIN own = {"session/get", "session/update"}
          /\ DOMAIN in = {"session/create"} /\ DOMAIN off = {"session/delete"}
      BY Paths
    <2>2. SessionController = Together({own, in, off})
      BY DEF SessionController
    <2> HIDE DEF own, in, off
    <2> QED
      BY <2>1, <2>2, Mounts
  <1>2. /\ DOMAIN AuthController = {"auth/signup"}
        /\ DOMAIN TokensController = {"auth/generate_token", "auth/get_tokens", "auth/revoke_token",
                                      "auth/rotate_token"}
        /\ DOMAIN DispatchKeyController = {"auth/get_dispatch_public_key", "auth/rotate_dispatch_key"}
    BY Paths DEF AuthController, TokensController, DispatchKeyController
  <1>3. DOMAIN register_auth_routes \subseteq DOMAIN register_routes
    BY Mounts DEF register_routes
  <1>4. /\ DOMAIN SessionController \subseteq DOMAIN register_auth_routes
        /\ DOMAIN AuthController \subseteq DOMAIN register_auth_routes
        /\ DOMAIN TokensController \subseteq DOMAIN register_auth_routes
        /\ DOMAIN DispatchKeyController \subseteq DOMAIN register_auth_routes
    BY Mounts DEF register_auth_routes
  <1> QED
    BY <1>1, <1>2, <1>3, <1>4

LEMMA ServesTeams ==
    {"teams/get", "teams/get_by_id", "teams/get_versions", "teams/get_phases", "teams/build",
     "teams/create", "teams/update", "teams/publish", "teams/unpublish", "teams/delete",
     "teams/download", "realms/get", "realms/add_team"} \subseteq DOMAIN register_routes
  <1>1. {"teams/get", "teams/get_by_id", "teams/get_versions", "teams/get_phases", "teams/build",
         "teams/create", "teams/update", "teams/publish", "teams/unpublish", "teams/delete",
         "teams/download"} \subseteq DOMAIN TeamsController
    <2> DEFINE shown == Handler({"teams/get", "teams/get_by_id", "teams/get_versions",
                                 "teams/get_phases", "teams/build"}, "optional", "post")
               own == Signed({"teams/create", "teams/update", "teams/publish", "teams/unpublish",
                              "teams/delete"})
               files == Handler({"teams/download"}, "bearer", "post")
    <2>1. /\ DOMAIN shown = {"teams/get", "teams/get_by_id", "teams/get_versions",
                             "teams/get_phases", "teams/build"}
          /\ DOMAIN own = {"teams/create", "teams/update", "teams/publish", "teams/unpublish",
                           "teams/delete"}
          /\ DOMAIN files = {"teams/download"}
      BY Paths
    <2>2. TeamsController = Together({shown, own, files})
      BY DEF TeamsController
    <2> HIDE DEF shown, own, files
    <2> QED
      BY <2>1, <2>2, Mounts
  <1>2. /\ DOMAIN RealmsListController = {"realms/get"}
        /\ DOMAIN TeamInstallController = {"realms/add_team"}
    BY Paths DEF RealmsListController, TeamInstallController
  <1>3. DOMAIN register_teams_routes \subseteq DOMAIN register_routes
    BY Mounts DEF register_routes
  <1>4. /\ DOMAIN TeamsController \subseteq DOMAIN register_teams_routes
        /\ DOMAIN TeamInstallController \subseteq DOMAIN register_teams_routes
        /\ DOMAIN RealmsListController \subseteq DOMAIN register_teams_routes
    BY Mounts DEF register_teams_routes
  <1> QED
    BY <1>1, <1>2, <1>3, <1>4

LEMMA ServesOrgs ==
    /\ {"orgs/get", "orgs/new", "orgs/delete", "orgs/get_by_id", "orgs/update", "orgs/leave",
        "orgs/remove_member", "orgs/list_roles", "orgs/get_role", "orgs/create_role"}
         \subseteq DOMAIN register_routes
    /\ {"orgs/update_role", "orgs/delete_role", "orgs/new_scope", "orgs/update_scope",
        "orgs/delete_scope", "orgs/assign_scope_member", "orgs/unassign_scope_member",
        "orgs/get_scopes"} \subseteq DOMAIN register_routes
    /\ {"invitations/create", "invitations/get", "invitations/get_by_id", "invitations/revoke",
        "invitations/get_by_token", "invitations/accept"} \subseteq DOMAIN register_routes
  <1>1. DOMAIN OrgsController = {
          "orgs/get", "orgs/new", "orgs/delete", "orgs/get_by_id", "orgs/update", "orgs/leave",
          "orgs/remove_member", "orgs/list_roles", "orgs/get_role", "orgs/create_role"}
    BY Paths DEF OrgsController
  <1>2. DOMAIN OrgsControllerScopes = {
          "orgs/update_role", "orgs/delete_role", "orgs/new_scope", "orgs/update_scope",
          "orgs/delete_scope", "orgs/assign_scope_member", "orgs/unassign_scope_member",
          "orgs/get_scopes"}
    BY Paths DEF OrgsControllerScopes
  <1>3. {"invitations/create", "invitations/get", "invitations/get_by_id", "invitations/revoke",
         "invitations/get_by_token", "invitations/accept"} \subseteq DOMAIN register_invitations_routes
    <2> DEFINE own == Signed({"invitations/create", "invitations/get", "invitations/get_by_id",
                              "invitations/revoke"})
               link == Handler({"invitations/get_by_token", "invitations/accept"}, "optional", "post")
    <2>1. /\ DOMAIN own = {"invitations/create", "invitations/get", "invitations/get_by_id",
                           "invitations/revoke"}
          /\ DOMAIN link = {"invitations/get_by_token", "invitations/accept"}
      BY Paths
    <2>2. register_invitations_routes = Together({own, link})
      BY DEF register_invitations_routes, InvitationsController
    <2> HIDE DEF own, link
    <2> QED
      BY <2>1, <2>2, Mounts
  <1>4. /\ DOMAIN OrgsController \subseteq DOMAIN register_orgs_routes
        /\ DOMAIN OrgsControllerScopes \subseteq DOMAIN register_orgs_routes
    BY Mounts DEF register_orgs_routes
  <1>5. /\ DOMAIN register_orgs_routes \subseteq DOMAIN register_routes
        /\ DOMAIN register_invitations_routes \subseteq DOMAIN register_routes
    BY Mounts DEF register_routes
  <1>6. DOMAIN OrgsController \subseteq DOMAIN register_routes
    BY <1>4, <1>5
  <1>7. DOMAIN OrgsControllerScopes \subseteq DOMAIN register_routes
    BY <1>4, <1>5
  <1> QED
    BY <1>1, <1>2, <1>3, <1>5, <1>6, <1>7

LEMMA ServesUsers ==
    /\ {"users/get", "users/get_by_id", "users/new", "users/update", "users/suspend",
        "users/unsuspend", "users/delete", "users/set_role"} \subseteq DOMAIN register_routes
    /\ {"users/update_role", "users/update_profile", "reports/audit"} \subseteq DOMAIN register_routes
    /\ BodyPaths \subseteq DOMAIN register_routes
  <1>1. DOMAIN UsersController = {
          "users/get", "users/get_by_id", "users/new", "users/update", "users/suspend",
          "users/unsuspend", "users/delete", "users/set_role"}
    BY Paths DEF UsersController
  <1>2. {"users/update_role", "users/update_profile"} \cup BodyPaths \subseteq DOMAIN UsersControllerLinks
    <2> DEFINE own == Signed({"users/update_role", "users/update_profile"})
               links == [r \in {"users/reset_password", "users/change_password"} |->
                          [told |-> Takes("none", "post"), plain |-> Takes("session", "post")]]
    <2>1. DOMAIN own = {"users/update_role", "users/update_profile"} /\ DOMAIN links = BodyPaths
      BY Paths DEF BodyPaths
    <2>2. UsersControllerLinks = Together({own, links})
      BY DEF UsersControllerLinks
    <2> HIDE DEF own, links
    <2> QED
      BY <2>1, <2>2, Mounts
  <1>3. DOMAIN register_reports_routes = {"reports/audit"}
    BY Paths DEF register_reports_routes, ReportsController
  <1>4. /\ DOMAIN UsersController \subseteq DOMAIN register_users_routes
        /\ DOMAIN UsersControllerLinks \subseteq DOMAIN register_users_routes
    BY Mounts DEF register_users_routes
  <1>5. /\ DOMAIN register_users_routes \subseteq DOMAIN register_routes
        /\ DOMAIN register_reports_routes \subseteq DOMAIN register_routes
    BY Mounts DEF register_routes
  <1> QED
    BY <1>1, <1>2, <1>3, <1>4, <1>5

LEMMA ServesPages ==
    /\ Pages \subseteq DOMAIN register_routes
    /\ {"notification_center/get", "notification_center/check", "notification_center/set_rules",
        "notification_channels/update"} \subseteq DOMAIN register_routes
  <1> DEFINE tables == {
        OverviewController, GettingStartedController, InboxController,
        NotificationCenterController, OrgPageController, RealmInboxController,
        RunDetailController, RealmRunsController, RealmTeamsController,
        RealmDaemonsController, RealmSettingsController, RunTelemetryController,
        DaemonPageController, WorkspacePageController, TeamListController,
        TeamPageController, AgentListController, AgentPageController, HugPageController,
        AdminHomeController, AdminListController}
  <1>1. \A r \in Pages : Signed({r}) \in tables
    BY DEF Pages, OverviewController, GettingStartedController, InboxController, OrgPageController,
           RealmInboxController, RealmRunsController, RealmTeamsController,
           RealmDaemonsController, RealmSettingsController, RunDetailController,
           RunTelemetryController, DaemonPageController, WorkspacePageController,
           TeamListController, TeamPageController, AgentListController, AgentPageController,
           HugPageController, AdminHomeController, AdminListController
  <1>2. NotificationCenterController \in tables /\ register_pages_routes = Together(tables)
    BY DEF register_pages_routes
  <1> HIDE DEF tables
  <1>3. /\ \A r \in Pages : r \in DOMAIN register_pages_routes
        /\ DOMAIN NotificationCenterController \subseteq DOMAIN register_pages_routes
    BY <1>1, <1>2, Mounts, Paths
  <1>4. DOMAIN register_pages_routes \subseteq DOMAIN register_routes
    BY Mounts DEF register_routes
  <1> DEFINE rules == Signed({"notification_center/get", "notification_center/check",
                              "notification_center/set_rules"})
             change == [r \in {"notification_channels/update"} |->
                         [told |-> Takes("session", "post"), plain |-> Takes("bearer", "post_body")]]
  <1>5. /\ DOMAIN rules = {"notification_center/get", "notification_center/check",
                           "notification_center/set_rules"}
        /\ DOMAIN change = {"notification_channels/update"}
    BY Paths
  <1>6. NotificationCenterController = Together({rules, change})
    BY DEF NotificationCenterController
  <1> HIDE DEF rules, change
  <1> QED
    BY <1>3, <1>4, <1>5, <1>6, Mounts

LEMMA ServesPassthrough ==
    {"runs/enqueue", "runs/stream", "artifacts/upload", "teams/files/upload",
     "GET artifacts/download", "artifacts/download"} \cup ForwardedToken \cup ForwardedAdmin
        \subseteq DOMAIN register_routes
  <1>1. /\ DOMAIN register_runs_routes = {"runs/enqueue"}
        /\ DOMAIN StreamsController = {"runs/stream"}
        /\ DOMAIN ArtifactFilesController = {"artifacts/upload", "teams/files/upload",
                                             "GET artifacts/download", "artifacts/download"}
        /\ DOMAIN PassthroughController = ForwardedToken \cup ForwardedAdmin
    BY Paths, Forwarded DEF register_runs_routes, RunEnqueueController, StreamsController,
       ArtifactFilesController, PassthroughController
  <1>2. /\ DOMAIN StreamsController \subseteq DOMAIN register_passthrough_routes
        /\ DOMAIN ArtifactFilesController \subseteq DOMAIN register_passthrough_routes
        /\ DOMAIN PassthroughController \subseteq DOMAIN register_passthrough_routes
    BY Mounts DEF register_passthrough_routes
  <1>3. /\ DOMAIN register_passthrough_routes \subseteq DOMAIN register_routes
        /\ DOMAIN register_runs_routes \subseteq DOMAIN register_routes
    BY Mounts DEF register_routes
  <1> QED
    BY <1>1, <1>2, <1>3

LEMMA AllServed == DOMAIN ROUTE_AUTH \subseteq DOMAIN register_routes
  <1> DEFINE Served == DOMAIN register_routes
  <1>1. PublicRoutes \subseteq Served
    BY ServesHealth, ServesAuth, ServesTeams, ServesOrgs DEF PublicRoutes
  <1>2. TokenRoutes \subseteq Served
    BY ServesAuth, ServesTeams, ServesPages, ServesPassthrough DEF TokenRoutes
  <1>3. SessionRoutes \subseteq Served
    BY ServesAuth, ServesTeams, ServesOrgs, ServesUsers, ServesPages DEF SessionRoutes, Pages
  <1>4. AdminRoutes \subseteq Served
    BY ServesOrgs, ServesUsers, ServesPages DEF AdminRoutes, Pages
  <1>5. BodyPaths \cup ForwardedToken \cup ForwardedAdmin \subseteq Served
    BY ServesUsers, ServesPassthrough
  <1> HIDE DEF Served
  <1>6. DOMAIN ROUTE_AUTH = PublicRoutes \cup TokenRoutes \cup SessionRoutes \cup AdminRoutes
                            \cup BodyPaths \cup ForwardedToken \cup ForwardedAdmin
    <2> DEFINE P == For(PublicRoutes, "public")
               T == For(TokenRoutes, "token")
               S == For(SessionRoutes, "session")
               A == For(AdminRoutes, "site_admin")
    <2>1. /\ DOMAIN P = PublicRoutes /\ DOMAIN T = TokenRoutes
          /\ DOMAIN S = SessionRoutes /\ DOMAIN A = AdminRoutes
      BY ForAll
    <2>2. DOMAIN BodyRoutes = BodyPaths
      BY DEF BodyRoutes, BodyPaths
    <2>3. DOMAIN PASSTHROUGH_PATHS = ForwardedToken \cup ForwardedAdmin
      BY Forwarded
    <2>4. ROUTE_AUTH = Together({P, T, S, A, BodyRoutes, PASSTHROUGH_PATHS})
      BY DEF ROUTE_AUTH
    <2> HIDE DEF P, T, S, A
    <2>5. DOMAIN ROUTE_AUTH = UNION {DOMAIN t : t \in {P, T, S, A, BodyRoutes, PASSTHROUGH_PATHS}}
      BY <2>4 DEF Together
    <2> QED
      BY <2>1, <2>2, <2>3, <2>5
  <1> QED
    BY <1>1, <1>2, <1>3, <1>4, <1>5, <1>6 DEF Served

(***************************************************************************)
(* The gate: a request that is past the route table keeps what the table   *)
(* saw, and a browser whose row stays has a session from then on.          *)
(***************************************************************************)

RouteKnown == req.route \in DOMAIN ROUTE_AUTH

\* Whose token a session carries; a bearer's session is of a request with that PAT.
TokenOfSession ==
    \/ session.token = [kind |-> "session"]
    \/ session.token = [kind |-> "pat"] /\ req.bearer = "pat"

\* What the table admitted it would admit still, and what was sent is what the
\* handler takes.
PastTable ==
    /\ pc \in {"handler", "core"} => RouteKnown /\ Gate!Admits
    /\ sent # Gate!Nothing => RouteKnown /\ Gate!Admits /\ sent = Gate!Credential

\* Nothing is sent before the handler, nothing is answered before the end.
NotYet ==
    /\ pc \in {"csrf_guard", "find", "hydrate", "route_auth"} => sent = Gate!Nothing
    /\ pc # "answered" => told = Gate!NoAnswer

\* A browser whose row stays.
SignedIn ==
    kept => /\ row /\ req.cookie
            /\ pc # "hydrate"
            /\ pc \in {"route_auth", "handler", "core"} => session # Gate!Nothing

\* The inductive invariant of the gate.
GateInv ==
    /\ req \in Gate!Request
    /\ session # Gate!Nothing => TokenOfSession
    /\ PastTable
    /\ NotYet
    /\ SignedIn
    /\ Gate!AdmittedHasCredential
    /\ Gate!SignedInNeverTold401

LEMMA RuleAgrees ==
    ASSUME req \in Gate!Request, RouteKnown
    PROVE  Agree(Gate!Rule, Gate!Takes.cred, req.told)
  <1>1. Agrees(req.route, register_routes[req.route])
    BY TablesAgree, AllServed DEF Fits, RouteKnown
  <1>2. req.told = "told" \/ req.told = "plain"
    BY DEF Gate!Request
  <1> QED
    BY <1>1, <1>2 DEF Agrees, Gate!Rule, Gate!Takes

\* With a session there is a token to forward.
LEMMA TokenHeld ==
    ASSUME req \in Gate!Request, session # Gate!Nothing, TokenOfSession
    PROVE  Gate!forward_token # Gate!Nothing /\ session.token # Gate!Nothing
  BY DEF Gate!Request, Gate!Bearers, Gate!forward_token, Gate!Nothing, TokenOfSession

LEMMA GateInit == Gate!Init => GateInv
  BY DEF Gate!Init, GateInv, PastTable, NotYet, SignedIn, Gate!AdmittedHasCredential,
         Gate!SignedInNeverTold401, Gate!NoAnswer

\* A handler that says 401 or 500 for want of a credential is one whose line leaves
\* the check to it, and its browser is not signed in.
LEMMA RefusalsMeant ==
    ASSUME GateInv, Gate!HandlerRefuses
    PROVE  /\ told'.told.code # "internal"
           /\ session = Gate!Nothing /\ Gate!ControllerChecks(req)
  <1>1. /\ pc = "handler" /\ Gate!Credential = Gate!Nothing
        /\ req \in Gate!Request /\ RouteKnown /\ Gate!Admits
        /\ session # Gate!Nothing => TokenOfSession
    BY DEF Gate!HandlerRefuses, GateInv, PastTable
  <1>2. Agree(Gate!Rule, Gate!Takes.cred, req.told)
    BY <1>1, RuleAgrees
  <1>3. CASE Gate!Takes.cred = "session"
    <2>1. session = Gate!Nothing
      BY <1>1, <1>3, TokenHeld DEF Gate!Credential
    <2>2. Gate!Rule = "token" /\ req.told = "told"
      BY <1>1, <1>2, <1>3, <2>1 DEF Agree, Gate!Admits
    <2> QED
      BY <1>3, <2>1, <2>2
         DEF Gate!HandlerRefuses, Gate!Reject, Gate!ByBff, Gate!Answer, Gate!ApiError,
             Gate!ControllerChecks, Gate!Rule
  <1>4. CASE Gate!Takes.cred = "bearer"
    <2>1. Gate!forward_token = Gate!Nothing
      BY <1>1, <1>4 DEF Gate!Credential
    <2>2. Gate!Rule \in {"token", "site_admin"}
      BY <1>2, <1>4 DEF Agree
    <2> QED
      BY <1>1, <2>1, <2>2, TokenHeld DEF Gate!Admits
  <1> QED
    BY <1>3, <1>4 DEF Gate!HandlerRefuses

\* Who the table turns away is not signed in, or not an admin.
LEMMA DenialsMeant ==
    ASSUME GateInv, pc = "route_auth", RouteKnown, ~Gate!Admits
    PROVE  /\ Gate!Denial.told.code # "internal" /\ Gate!Denial.by = "bff"
           /\ session # Gate!Nothing => Gate!Denial.told.status # 401
  <1>1. Agree(Gate!Rule, Gate!Takes.cred, req.told)
    BY RuleAgrees DEF GateInv
  <1>2. session # Gate!Nothing => Gate!Rule = "site_admin"
    BY <1>1, TokenHeld DEF Agree, Gate!Admits, GateInv
  <1> QED
    BY <1>2 DEF Gate!Denial, Gate!ByBff, Gate!Answer, Gate!ApiError

LEMMA GateNext == GateInv /\ [Gate!Next]_Gate!vars => GateInv'
  <1> SUFFICES ASSUME GateInv, [Gate!Next]_Gate!vars PROVE GateInv'
    OBVIOUS
  <1> USE DEF GateInv
  <1> DEFINE Stay == /\ UNCHANGED <<req, session>>
                     /\ Gate!Admits' = Gate!Admits /\ Gate!Credential' = Gate!Credential
                     /\ TokenOfSession' = TokenOfSession /\ RouteKnown' = RouteKnown
                     /\ Gate!ControllerChecks(req)' = Gate!ControllerChecks(req)
  <1>0. ASSUME UNCHANGED <<req, session>>
        PROVE  Stay
    BY <1>0
       DEF TokenOfSession, RouteKnown, Gate!Admits, Gate!Rule, Gate!forward_token,
           Gate!Credential, Gate!Takes, Gate!ControllerChecks
  <1> HIDE DEF Stay
  <1>1. CASE Gate!RowGoes \/ UNCHANGED Gate!vars
    <2>1. Stay /\ UNCHANGED <<pc, sent, told>> /\ (kept' => kept /\ row')
      BY <1>0, <1>1 DEF Gate!RowGoes, Gate!vars, SignedIn
    <2> QED
      BY <2>1
         DEF Stay, PastTable, NotYet, SignedIn, Gate!AdmittedHasCredential,
             Gate!SignedInNeverTold401, RouteKnown
  <1>2. CASE Gate!csrf_guard
    BY <1>2
       DEF Gate!csrf_guard, Gate!Reject, Gate!ByBff, Gate!Answer, Gate!ApiError,
           TokenOfSession, PastTable, NotYet, SignedIn,
           Gate!AdmittedHasCredential, Gate!SignedInNeverTold401, Gate!NoAnswer
  <1>3. CASE Gate!Find
    BY <1>3
       DEF Gate!Find, TokenOfSession, PastTable, NotYet, SignedIn, Gate!Nothing,
           Gate!AdmittedHasCredential, Gate!SignedInNeverTold401, Gate!NoAnswer
  <1>4. CASE Gate!FindFails
    BY <1>4
       DEF Gate!FindFails, Gate!Reject, Gate!ByBff, Gate!Answer, Gate!ApiError,
           TokenOfSession, PastTable, NotYet, SignedIn,
           Gate!AdmittedHasCredential, Gate!SignedInNeverTold401
  <1>5. CASE Gate!Hydrate
    BY <1>5
       DEF Gate!Hydrate, TokenOfSession, PastTable, NotYet, SignedIn, Gate!Nothing,
           Gate!AdmittedHasCredential, Gate!SignedInNeverTold401, Gate!NoAnswer
  <1>6. ASSUME Stay, UNCHANGED <<row, kept, sent>>, pc' = "answered",
               told'.by = "bff" =>
                   /\ told'.told.code # "internal"
                   /\ told'.told.code = "unauthorized" /\ RouteKnown =>
                          ~Gate!Admits \/ Gate!ControllerChecks(req)
                   /\ kept => told'.told.status # 401
        PROVE  GateInv'
    BY <1>6
       DEF Stay, PastTable, NotYet, SignedIn, RouteKnown, Gate!AdmittedHasCredential,
           Gate!SignedInNeverTold401
  <1>7. CASE Gate!route_auth
    <2>1. Stay /\ pc = "route_auth" /\ UNCHANGED <<row, kept, sent>>
      BY <1>0, <1>7 DEF Gate!route_auth
    <2>2. CASE req.route = "unknown"
      BY <1>6, <1>7, <2>1, <2>2
         DEF Gate!route_auth, Gate!Reject, Gate!ByBff, Gate!Answer, Gate!ApiError
    <2>3. CASE req.route # "unknown" /\ Gate!Admits
      <3>1. RouteKnown /\ pc' = "handler" /\ told' = told
        BY <1>7, <2>3 DEF Gate!route_auth, Gate!Request, RouteKnown
      <3> QED
        BY <2>1, <2>3, <3>1
           DEF Stay, PastTable, NotYet, SignedIn, RouteKnown, Gate!AdmittedHasCredential,
               Gate!SignedInNeverTold401, Gate!NoAnswer
    <2>4. CASE req.route # "unknown" /\ ~Gate!Admits
      <3>1. RouteKnown /\ pc' = "answered" /\ told' = Gate!Denial
        BY <1>7, <2>4 DEF Gate!route_auth, Gate!Request, RouteKnown
      <3>2. kept => session # Gate!Nothing
        BY <2>1 DEF SignedIn
      <3>3. /\ Gate!Denial.told.code # "internal"
            /\ session # Gate!Nothing => Gate!Denial.told.status # 401
        BY <2>1, <2>4, <3>1, DenialsMeant
      <3> QED
        BY <1>6, <2>1, <2>4, <3>1, <3>2, <3>3
    <2> QED
      BY <2>2, <2>3, <2>4
  <1>8. CASE Gate!HandlerRefuses
    <2>1. Stay /\ UNCHANGED <<row, kept, sent>> /\ pc = "handler" /\ pc' = "answered"
      BY <1>0, <1>8 DEF Gate!HandlerRefuses, Gate!Reject
    <2>2. kept => session # Gate!Nothing
      BY <2>1 DEF SignedIn
    <2> QED
      BY <1>6, <1>8, <2>1, <2>2, RefusalsMeant
  <1>9. CASE Gate!HandlerRejects
    <2>1. Stay /\ UNCHANGED <<row, kept, sent>> /\ pc' = "answered"
      BY <1>0, <1>9 DEF Gate!HandlerRejects, Gate!Reject
    <2>2. told'.told.code \notin {"internal", "unauthorized"} /\ told'.told.status # 401
      BY <1>9 DEF Gate!HandlerRejects, Gate!Reject, Gate!ByBff, Gate!Answer, Gate!ApiError
    <2> QED
      BY <1>6, <2>1, <2>2
  <1>10. CASE Gate!HandlerAsks
    <2>1. /\ Stay /\ pc = "handler" /\ pc' = "core" /\ sent' = Gate!Credential
          /\ UNCHANGED <<row, kept, told>>
      BY <1>0, <1>10 DEF Gate!HandlerAsks
    <2> QED
      BY <2>1
         DEF Stay, PastTable, NotYet, SignedIn, RouteKnown, Gate!AdmittedHasCredential,
             Gate!SignedInNeverTold401, Gate!NoAnswer
  <1>11. CASE Gate!HandlerAnswers
    <2>1. Stay /\ UNCHANGED <<row, kept, sent>> /\ pc' = "answered"
      BY <1>0, <1>11 DEF Gate!HandlerAnswers
    <2>2. told'.told.code \notin {"internal", "unauthorized"} /\ told'.told.status # 401
      BY <1>11 DEF Gate!HandlerAnswers, Gate!Answer, Gate!Success
    <2> QED
      BY <1>6, <2>1, <2>2
  <1>12. ASSUME NEW reply \in Replies, Gate!CoreAnswers(reply)
         PROVE  GateInv'
    <2>1. Stay /\ UNCHANGED <<row, kept, sent>> /\ pc' = "answered"
      BY <1>0, <1>12 DEF Gate!CoreAnswers
    <2>2. told'.by = "core"
      BY <1>12 DEF Gate!CoreAnswers, Gate!Answer
    <2> QED
      BY <1>6, <2>1, <2>2
  <1> QED
    BY <1>1, <1>2, <1>3, <1>4, <1>5, <1>7, <1>8, <1>9, <1>10, <1>11, <1>12 DEF Gate!Next

(***************************************************************************)
(* What a client is told of a failed call.                                 *)
(***************************************************************************)

LEMMA StatusFrom ==
    ASSUME NEW code, NEW http \in Nat
    PROVE  /\ Gate!StatusOf(code, http) = 404 => code = "not_found" \/ http = 404
           /\ Gate!StatusOf(code, http) = 401 => code = "unauthorized" \/ http = 401
  <1>1. /\ DOMAIN Gate!STATUS_MAP = {"unauthorized", "forbidden", "not_found", "conflict",
                                     "invalid_params", "rate_limited"}
        /\ \A c \in DOMAIN Gate!STATUS_MAP :
              /\ Gate!STATUS_MAP[c] = 404 => c = "not_found"
              /\ Gate!STATUS_MAP[c] = 401 => c = "unauthorized"
    BY DEF Gate!STATUS_MAP
  <1> QED
    BY <1>1 DEF Gate!StatusOf

\* The code of a reply that gives none comes from its status.
LEMMA CodeFrom ==
    ASSUME NEW reply \in Gate!Reply
    PROVE  /\ reply.http \in Nat
           /\ reply.code # "none" => Gate!CodeOf(reply) = reply.code
           /\ Gate!CodeOf(reply) = "unauthorized" =>
                reply.code = "unauthorized" \/ reply.http = 401
  <1>1. \A s \in DOMAIN Gate!CODE_FOR_STATUS :
            Gate!CODE_FOR_STATUS[s] = "unauthorized" => s = 401
    <2> SUFFICES ASSUME NEW s \in {400, 401, 403, 404, 409, 422, 429},
                        Gate!CODE_FOR_STATUS[s] = "unauthorized", s # 401
                 PROVE  FALSE
      BY DEF Gate!CODE_FOR_STATUS
    <2> QED
      BY DEF Gate!CODE_FOR_STATUS
  <1>2. /\ reply.http \in Nat /\ reply.code \in {"none", "unauthorized", "not_found",
                                                "route_not_found", "other"}
    BY DEF Gate!Reply
  <1>3. CASE reply.code # "none"
    BY <1>2, <1>3 DEF Gate!CodeOf
  <1>4. CASE reply.code = "none" /\ reply.http \in DOMAIN Gate!CODE_FOR_STATUS
    <2>1. Gate!CodeOf(reply) = Gate!CODE_FOR_STATUS[reply.http]
      BY <1>4 DEF Gate!CodeOf
    <2> QED
      BY <1>1, <1>2, <1>4, <2>1
  <1>5. CASE reply.code = "none" /\ reply.http \notin DOMAIN Gate!CODE_FOR_STATUS
    <2>1. Gate!CodeOf(reply) = IF reply.http >= 500 THEN "upstream_error" ELSE "unknown"
      BY <1>5 DEF Gate!CodeOf
    <2> QED
      BY <1>2, <1>5, <2>1
  <1> QED
    BY <1>3, <1>4, <1>5

LEMMA SignedOutStatus ==
    ASSUME NEW reply \in Gate!Reply,
           Gate!StatusOf(Gate!CodeOf(reply), reply.http) = 401
    PROVE  reply.http = 401 \/ reply.code = "unauthorized"
  <1>1. Gate!CodeOf(reply) = "unauthorized" \/ reply.http = 401
    BY CodeFrom, StatusFrom
  <1> QED
    BY <1>1, CodeFrom

\* What the answer may say of the reply.
Fair(reply, answered) ==
    /\ answered.ok => reply.json /\ reply.http < 400 /\ reply.ok # "false"
    /\ answered.status = 404 =>
         reply.json /\ reply.says # "unknown api route" /\ reply.code # "route_not_found"
    /\ answered.status = 401 => reply.http = 401 \/ reply.code = "unauthorized"

LEMMA FailureTold ==
    ASSUME NEW reply \in Gate!Reply, ReplyOfCore(reply),
           NEW failure, failure = Gate!upstream_error(reply)
    PROVE  Fair(reply, failure)
  <1>1. reply.http \in Nat
    BY CodeFrom
  <1>2. CASE Gate!RouteMissing(reply)
    <2>1. failure = [ok |-> FALSE, code |-> "upstream_route_missing", status |-> 502]
      BY <1>2 DEF Gate!upstream_error, Gate!ApiError
    <2> QED
      BY <2>1 DEF Fair
  <1>3. CASE ~Gate!RouteMissing(reply) /\ ~reply.json
    <2>1. failure = [ok |-> FALSE, code |-> "parse_error",
                     status |-> IF reply.http >= 400 THEN reply.http ELSE 502]
      BY <1>3 DEF Gate!upstream_error, Gate!ApiError
    <2>2. reply.http # 404
      BY <1>3 DEF Gate!RouteMissing
    <2>3. failure.ok = FALSE /\ failure.status # 404 /\ (failure.status = 401 => reply.http = 401)
      BY <1>1, <2>1, <2>2
    <2> QED
      BY <2>3 DEF Fair
  <1>4. CASE ~Gate!RouteMissing(reply) /\ reply.json
    <2>1. reply.says # "unknown api route" /\ reply.code # "route_not_found"
      BY <1>4, CodeFrom DEF Gate!RouteMissing, ReplyOfCore
    <2>2. CASE reply.says = "unrecognized key"
      <3>1. failure = [ok |-> FALSE, code |-> "upstream_version_mismatch", status |-> 502]
        BY <1>4, <2>2 DEF Gate!upstream_error, Gate!ApiError
      <3> QED
        BY <3>1 DEF Fair
    <2>3. CASE reply.says # "unrecognized key"
      <3>1. failure = [ok |-> FALSE, code |-> Gate!CodeOf(reply),
                       status |-> Gate!StatusOf(Gate!CodeOf(reply), reply.http)]
        BY <1>4, <2>3 DEF Gate!upstream_error, Gate!ApiError
      <3>2. failure.ok = FALSE /\ failure.status = Gate!StatusOf(Gate!CodeOf(reply), reply.http)
        BY <3>1
      <3>3. failure.status = 401 => reply.code = "unauthorized" \/ reply.http = 401
        <4>1. ASSUME failure.status = 401
              PROVE  Gate!StatusOf(Gate!CodeOf(reply), reply.http) = 401
          BY <3>2, <4>1
        <4> QED
          BY <4>1, SignedOutStatus
      <3> QED
        BY <1>4, <2>1, <3>2, <3>3 DEF Fair
    <2> QED
      BY <2>2, <2>3
  <1> QED
    BY <1>2, <1>3, <1>4

LEMMA FairlyTold ==
    ASSUME NEW reply \in Gate!Reply, ReplyOfCore(reply), NEW answered,
           answered = Gate!post(reply) \/ answered = Gate!post_body(reply)
    PROVE  Fair(reply, answered)
  <1>1. CASE answered = Gate!upstream_error(reply)
    BY <1>1, FailureTold
  <1>2. CASE /\ answered = Gate!Success(200) /\ reply.json /\ reply.http < 400
             /\ reply.ok # "false"
    <2>1. answered = [ok |-> TRUE, code |-> "none", status |-> 200]
      BY <1>2 DEF Gate!Success
    <2>2. answered.status # 404 /\ answered.status # 401
      BY <2>1
    <2> QED
      BY <1>2, <2>2 DEF Fair
  <1> QED
    BY <1>1, <1>2 DEF Gate!post, Gate!post_body

\* What is told of a call is what the client made of Core's reply.
CoreTold ==
    told.by = "core" =>
        told.reply \in Replies /\ told.told = Gate!Told(Gate!Takes.via, told.reply)

LEMMA CoreToldNext == CoreTold /\ [Gate!Next]_Gate!vars => CoreTold'
  <1> SUFFICES ASSUME CoreTold, [Gate!Next]_Gate!vars PROVE CoreTold'
    OBVIOUS
  <1>1. CASE \E reply \in Replies : Gate!CoreAnswers(reply)
    BY <1>1 DEF Gate!CoreAnswers, Gate!Answer, CoreTold, Gate!Takes
  <1>2. CASE UNCHANGED told /\ UNCHANGED req
    BY <1>2 DEF CoreTold, Gate!Takes
  <1>3. CASE told'.by = "bff"
    BY <1>3 DEF CoreTold
  <1>4. UNCHANGED req
    BY DEF Gate!Next, Gate!vars, Gate!RowGoes, Gate!csrf_guard, Gate!Find, Gate!FindFails,
           Gate!Hydrate, Gate!route_auth, Gate!HandlerRefuses, Gate!HandlerRejects,
           Gate!HandlerAsks, Gate!HandlerAnswers, Gate!CoreAnswers
  <1>5. \/ UNCHANGED told \/ told'.by = "bff" \/ \E reply \in Replies : Gate!CoreAnswers(reply)
    BY DEF Gate!Next, Gate!vars, Gate!RowGoes, Gate!csrf_guard, Gate!Find, Gate!FindFails,
           Gate!Hydrate, Gate!route_auth, Gate!HandlerRefuses, Gate!HandlerRejects,
           Gate!HandlerAsks, Gate!HandlerAnswers,
           Gate!Reject, Gate!Denial, Gate!ByBff, Gate!Answer
  <1> QED
    BY <1>1, <1>2, <1>3, <1>4, <1>5

(***************************************************************************)
(* The destinations of a channel.  A list of destinations has at least one *)
(* and none twice; what a change makes of such a list is one again, and it *)
(* takes away what the change names.  That, with what a request knows of   *)
(* the list as long as nothing was written since it looked or read, is     *)
(* inductive.                                                              *)
(***************************************************************************)

Places == DOMAIN Destination

\* A list of destinations has at least one, and none twice.
WellFormed(s) == s \in Seq(Places) /\ s # <<>> /\ Channel!IsInjective(s)

\* The list with a destination joined to it.
Joined(have, d) == IF d \in Channel!Range(have) THEN have ELSE Append(have, d)

LEMMA JoinedKeeps ==
    ASSUME NEW s, WellFormed(s), NEW d \in Places
    PROVE  WellFormed(Joined(s, d)) /\ Channel!Range(s) \subseteq Channel!Range(Joined(s, d))
  <1>1. CASE d \in Channel!Range(s)
    BY <1>1 DEF Joined
  <1>2. CASE d \notin Channel!Range(s)
    <2> DEFINE t == Append(s, d)
    <2>1. /\ s \in Seq(Places) /\ Len(s) \in Nat /\ t \in Seq(Places)
          /\ DOMAIN s = 1 .. Len(s) /\ DOMAIN t = 1 .. Len(s) + 1
          /\ t[Len(s) + 1] = d /\ \A i \in 1 .. Len(s) : t[i] = s[i]
      BY DEF WellFormed
    <2>2. \A i \in 1 .. Len(s) : s[i] # d
      BY <1>2, <2>1 DEF Channel!Range
    <2> HIDE DEF t
    <2>3. Channel!IsInjective(t)
      BY <2>1, <2>2 DEF WellFormed, Channel!IsInjective
    <2>4. Channel!Range(s) \subseteq Channel!Range(t)
      BY <2>1 DEF Channel!Range
    <2>5. t # <<>>
      BY <2>1
    <2>6. Joined(s, d) = t
      BY <1>2 DEF Joined, t
    <2> QED
      BY <2>1, <2>3, <2>4, <2>5, <2>6 DEF WellFormed
  <1> QED
    BY <1>1, <1>2

LEMMA LastPlace == Channel!Max({1}) = 1 /\ Channel!Max({2}) = 2 /\ Channel!Max({1, 2}) = 2
  <1>1. \A x \in {1, 2} : (\A y \in {1, 2} : x >= y) <=> x = 2
    OBVIOUS
  <1> QED
    BY <1>1 DEF Channel!Max

\* At most two destinations are joined at a time, one after the other.
LEMMA AddSteps ==
    ASSUME NEW s, NEW new \in Seq(Places), Len(new) \in {1, 2}
    PROVE  Channel!Add(s, new) = IF Len(new) = 1 THEN Joined(s, new[1])
                                 ELSE Joined(Joined(s, new[1]), new[2])
  <1> DEFINE D == DOMAIN new
             Step(g) == [S \in SUBSET D |->
                           IF S = {} THEN s
                           ELSE Joined(g[S \ {Channel!Max(S)}], new[Channel!Max(S)])]
             f == CHOOSE g : g = Step(g)
  <1>1. Channel!Add(s, new) = f[D]
    BY DEF Channel!Add, Channel!FoldLeft, Channel!MapThenFoldSet, Joined
  <1>2. D = IF Len(new) = 1 THEN {1} ELSE {1, 2}
    OBVIOUS
  <1>3. f = Step(f)
    <2> DEFINE g == [S \in SUBSET D |->
                       IF S = {} THEN s
                       ELSE IF S = {1} THEN Joined(s, new[1])
                       ELSE IF S = {2} THEN Joined(s, new[2])
                       ELSE Joined(Joined(s, new[1]), new[2])]
    <2> HIDE DEF D
    <2>1. ASSUME NEW S \in SUBSET D
          PROVE  g[S] = IF S = {} THEN s
                        ELSE Joined(g[S \ {Channel!Max(S)}], new[Channel!Max(S)])
      <3>1. S \in {{}, {1}, {2}, {1, 2}}
        BY <1>2
      <3>2. CASE S = {}
        BY <3>2
      <3>3. CASE S = {1}
        <4>1. S \ {Channel!Max(S)} = {} /\ Channel!Max(S) = 1
          BY <3>3, LastPlace
        <4> QED
          BY <3>3, <4>1
      <3>4. CASE S = {2}
        <4>1. S \ {Channel!Max(S)} = {} /\ Channel!Max(S) = 2 /\ S # {1}
          BY <3>4, LastPlace
        <4> QED
          BY <3>4, <4>1
      <3>5. CASE S = {1, 2}
        <4>1. /\ S \ {Channel!Max(S)} = {1} /\ Channel!Max(S) = 2
              /\ S # {1} /\ S # {2} /\ {1} # {} /\ {1} \in SUBSET D
          BY <3>5, LastPlace
        <4> QED
          BY <3>5, <4>1
      <3> QED
        BY <3>1, <3>2, <3>3, <3>4, <3>5
    <2>2. g = Step(g)
      <3>1. g = [S \in SUBSET D |-> g[S]]
        OBVIOUS
      <3> HIDE DEF g
      <3> QED
        BY <2>1, <3>1
    <2> HIDE DEF Step, g
    <2> QED
      BY <2>2
  <1> HIDE DEF f
  <1>4. \A S \in SUBSET D : f[S] = IF S = {} THEN s
                                   ELSE Joined(f[S \ {Channel!Max(S)}], new[Channel!Max(S)])
    BY <1>3
  <1> HIDE DEF D, Step
  <1>5. f[{}] = s
    BY <1>4
  <1>6. f[{1}] = Joined(s, new[1])
    <2>1. {1} \ {1} = {} /\ {1} # {} /\ {1} \in SUBSET D
      BY <1>2
    <2> QED
      BY <1>4, <1>5, <2>1, LastPlace
  <1>7. Len(new) = 2 => f[{1, 2}] = Joined(f[{1}], new[2])
    <2>1. {1, 2} \ {2} = {1} /\ {1, 2} # {}
      OBVIOUS
    <2> QED
      BY <1>2, <1>4, <2>1, LastPlace
  <1> QED
    BY <1>1, <1>2, <1>6, <1>7

LEMMA AddKeeps ==
    ASSUME NEW s, WellFormed(s), NEW new \in Seq(Places), Len(new) \in {1, 2}
    PROVE  WellFormed(Channel!Add(s, new)) /\ Channel!Range(s) \subseteq Channel!Range(Channel!Add(s, new))
  <1>1. new[1] \in Places /\ Len(new) = 2 => new[2] \in Places
    OBVIOUS
  <1>2. WellFormed(Joined(s, new[1])) /\ Channel!Range(s) \subseteq Channel!Range(Joined(s, new[1]))
    BY <1>1, JoinedKeeps
  <1>3. Len(new) = 2 =>
            /\ WellFormed(Joined(Joined(s, new[1]), new[2]))
            /\ Channel!Range(Joined(s, new[1])) \subseteq Channel!Range(Joined(Joined(s, new[1]), new[2]))
    BY <1>1, <1>2, JoinedKeeps
  <1> QED
    BY <1>2, <1>3, AddSteps

\* Taking out one place takes out one destination.
LEMMA RemoveKeeps ==
    ASSUME NEW s, WellFormed(s), Len(s) # 1, NEW i \in 1 .. Len(s)
    PROVE  /\ WellFormed(Channel!RemoveAt(s, i))
           /\ Channel!Range(s) \ Channel!Range(Channel!RemoveAt(s, i)) = {s[i]}
  <1> DEFINE t == SubSeq(s, 1, i - 1) \o SubSeq(s, i + 1, Len(s))
  <1>1. /\ s \in Seq(Places) /\ Len(s) \in Nat /\ Len(s) > 1 /\ i \in Nat /\ i >= 1 /\ i <= Len(s)
        /\ DOMAIN s = 1 .. Len(s)
    <2>1. s \in Seq(Places) /\ s # <<>>
      BY DEF WellFormed
    <2>2. Len(s) \in Nat /\ Len(s) # 0 /\ DOMAIN s = 1 .. Len(s)
      BY <2>1
    <2> QED
      BY <2>1, <2>2
  <1>2. /\ t \in Seq(Places) /\ Len(t) = Len(s) - 1 /\ DOMAIN t = 1 .. Len(s) - 1
        /\ \A j \in 1 .. Len(s) - 1 : t[j] = IF j < i THEN s[j] ELSE s[j + 1]
    <2> DEFINE n == Len(s)
               a == SubSeq(s, 1, i - 1)
               b == SubSeq(s, i + 1, n)
    <2>1. /\ a \in Seq(Places) /\ Len(a) = i - 1
          /\ \A j \in 1 .. i - 1 : a[j] = s[j]
      BY <1>1
    <2>2. b \in Seq(Places) /\ Len(b) = n - i
      <3>1. \A k \in i + 1 .. n : s[k] \in Places
        BY <1>1
      <3>2. i + 1 \in Int /\ n \in Int
        BY <1>1
      <3>3. (IF i + 1 <= n THEN n - (i + 1) + 1 ELSE 0) = n - i
        <4> HIDE DEF a, b, n
        <4>1. n \in Nat /\ i \in Nat /\ i <= n
          BY <1>1 DEF n
        <4>2. CASE i = n
          BY <4>1, <4>2
        <4>3. CASE i + 1 <= n
          BY <4>1, <4>3
        <4> QED
          BY <4>1, <4>2, <4>3
      <3> QED
        BY <3>1, <3>2, <3>3, SubSeqProperties
    <2>3. \A j \in 1 .. n - i : b[j] = s[j + i]
      BY <1>1
    <2> HIDE DEF a, b
    <2>4. /\ a \o b \in Seq(Places) /\ Len(a \o b) = n - 1
          /\ \A j \in 1 .. n - 1 : (a \o b)[j] = IF j <= Len(a) THEN a[j] ELSE b[j - Len(a)]
      <3>1. Len(a) + Len(b) = n - 1
        BY <1>1, <2>1, <2>2
      <3>2. /\ a \o b \in Seq(Places) /\ Len(a \o b) = Len(a) + Len(b)
            /\ \A j \in 1 .. Len(a) + Len(b) :
                 (a \o b)[j] = IF j <= Len(a) THEN a[j] ELSE b[j - Len(a)]
        <4>1. a \in Seq(Places) /\ b \in Seq(Places)
          BY <2>1, <2>2
        <4> QED
          BY <4>1, ConcatProperties, Zenon
      <3> QED
        BY <3>1, <3>2, Zenon
    <2>5. ASSUME NEW j \in 1 .. n - 1
          PROVE  (a \o b)[j] = IF j < i THEN s[j] ELSE s[j + 1]
      <3> DEFINE c == a \o b
      <3>1. c[j] = IF j <= i - 1 THEN a[j] ELSE b[j - (i - 1)]
        BY <2>1, <2>4
      <3> HIDE DEF c, n, t
      <3>2. n \in Nat
        BY <1>1 DEF n
      <3>3. CASE j < i
        <4>1. j <= i - 1 /\ j \in 1 .. i - 1
          BY <1>1, <3>2, <3>3
        <4> QED
          BY <2>1, <3>1, <3>3, <4>1 DEF c
      <3>4. CASE ~(j < i)
        <4>1. j - (i - 1) \in 1 .. n - i /\ ~(j <= i - 1) /\ (j - (i - 1)) + i = j + 1
          BY <1>1, <3>2, <3>4
        <4>2. b[j - (i - 1)] = s[j + 1]
          BY <2>3, <4>1
        <4> QED
          BY <3>1, <3>4, <4>1, <4>2 DEF c
      <3> QED
        BY <3>3, <3>4
    <2>6. t = a \o b
      BY DEF a, b
    <2> HIDE DEF t, n
    <2>7. DOMAIN t = 1 .. n - 1
      <3>1. t \in Seq(Places) /\ Len(t) = n - 1
        BY <2>4, <2>6
      <3> QED
        BY <3>1, LenProperties, Zenon
    <2> USE DEF n
    <2> QED
      BY <2>4, <2>5, <2>6, <2>7
  <1>3. t = Channel!RemoveAt(s, i)
    BY DEF Channel!RemoveAt
  <1> HIDE DEF t
  <1>4. \A a, b \in 1 .. Len(s) : s[a] = s[b] => a = b
    BY <1>1 DEF WellFormed, Channel!IsInjective
  <1>5. WellFormed(t)
    <2>1. ASSUME NEW a \in 1 .. Len(s) - 1, NEW b \in 1 .. Len(s) - 1, t[a] = t[b] PROVE a = b
      <3> DEFINE p == IF a < i THEN a ELSE a + 1
                 q == IF b < i THEN b ELSE b + 1
      <3>1. p \in 1 .. Len(s) /\ q \in 1 .. Len(s) /\ s[p] = s[q]
        BY <1>1, <1>2, <2>1
      <3>2. p = q
        BY <1>4, <3>1
      <3> QED
        BY <3>2, <1>1
    <2>2. t # <<>>
      BY <1>1, <1>2
    <2> QED
      BY <1>2, <2>1, <2>2 DEF WellFormed, Channel!IsInjective
  <1>6. Channel!Range(s) \ Channel!Range(t) = {s[i]}
    <2>1. ASSUME NEW a \in 1 .. Len(s), a # i PROVE s[a] \in Channel!Range(t)
      <3> DEFINE p == IF a < i THEN a ELSE a - 1
      <3>1. p \in 1 .. Len(s) - 1 /\ t[p] = s[a]
        BY <1>1, <1>2, <2>1
      <3> QED
        BY <3>1, <1>2 DEF Channel!Range
    <2>2. s[i] \notin Channel!Range(t)
      <3> SUFFICES ASSUME NEW j \in 1 .. Len(s) - 1, t[j] = s[i] PROVE FALSE
        BY <1>2 DEF Channel!Range
      <3> DEFINE p == IF j < i THEN j ELSE j + 1
      <3>1. p \in 1 .. Len(s) /\ s[p] = s[i] /\ p # i
        BY <1>1, <1>2
      <3> QED
        BY <1>4, <3>1
    <2>3. s[i] \in Channel!Range(s)
      BY <1>1 DEF Channel!Range
    <2> QED
      BY <1>1, <2>1, <2>2, <2>3 DEF Channel!Range
  <1> QED
    BY <1>3, <1>5, <1>6

Change ==
    {Channel!NoChange} \cup Channel!Additions
    \cup [kind : {"remove"}, index : Nat \ {0}, type : {Destination[d] : d \in Places}]

Caller ==
    [pc : {"away", "looking", "writing", "ok", "refused", "failed"},
     shown : Seq(Places), seen : Nat, change : Change, copy : Seq(Places), read : Nat]

\* What a change says of the list the user saw.
OfShown(change, shown) ==
    IF change.kind = "add" THEN change \in Channel!Additions ELSE change \in Channel!Removals(shown)

\* A list a change applies to: a removal does not take the last destination, and
\* finds the type it names in its place.
Applies(s, change) ==
    change.kind # "add" =>
        ~(change.index > Len(s)) /\ Destination[s[change.index]] = change.type /\ Len(s) # 1

\* As long as nothing was written since, what a request saw is the list, and
\* what it read is the list it changed.
Knows(r, now_list, now_writes) ==
    /\ r.pc \in {"looking", "writing"} =>
         r.seen <= now_writes /\ (r.seen = now_writes => r.shown = now_list)
    /\ r.pc = "writing" =>
         /\ WellFormed(r.copy) /\ r.read <= now_writes
         /\ r.change.kind \in {"add", "remove"} /\ OfShown(r.change, r.shown)
         /\ r.read = now_writes =>
              r.copy = Channel!Changed(now_list, r.change) /\ Applies(now_list, r.change)

ChannelInv ==
    /\ WellFormed(list) /\ writes \in Nat
    /\ caller \in [Browsers -> Caller]
    /\ \A c \in Browsers : Knows(caller[c], list, writes)

LEMMA ShortLists ==
    ASSUME NEW n \in Nat, NEW s \in Channel!BoundedSeq(Places, n)
    PROVE  s \in Seq(Places) /\ Len(s) <= n
  <1>1. PICK m \in 0 .. n : s \in [1 .. m -> Places]
    BY DEF Channel!BoundedSeq, Channel!SeqOf
  <1> QED
    BY <1>1

LEMMA AdditionIs ==
    ASSUME NEW change \in Channel!Additions
    PROVE  change.kind = "add" /\ change.new \in Seq(Places) /\ Len(change.new) \in {1, 2}
  <1>1. change.kind = "add" /\ change.new \in Channel!BoundedSeq(Places, 2) /\ change.new # <<>>
    BY DEF Channel!Additions, Places
  <1>2. change.new \in Seq(Places) /\ Len(change.new) <= 2
    BY <1>1, ShortLists
  <1>3. Len(change.new) # 0 /\ Len(change.new) \in Nat
    BY <1>1, <1>2
  <1> DEFINE n == Len(change.new)
  <1>4. n \in {1, 2}
    <2>1. n \in Nat /\ n # 0 /\ n <= 2
      BY <1>2, <1>3
    <2> HIDE DEF n
    <2> QED
      BY <2>1
  <1> QED
    BY <1>1, <1>2, <1>4

LEMMA RemovalIs ==
    ASSUME NEW shown \in Seq(Places), NEW change \in Channel!Removals(shown)
    PROVE  /\ change.kind = "remove" /\ change \in Change
           /\ change.index \in 1 .. Len(shown) /\ change.type = Destination[shown[change.index]]
  <1>1. PICK i \in DOMAIN shown : change = [kind |-> "remove", index |-> i, type |-> Destination[shown[i]]]
    BY DEF Channel!Removals
  <1>2. i \in 1 .. Len(shown) /\ i \in Nat \ {0} /\ shown[i] \in Places
    OBVIOUS
  <1> QED
    BY <1>1, <1>2 DEF Change

\* What a change that is not refused makes of a list, and what it takes away.
LEMMA ChangeKeeps ==
    ASSUME NEW s, WellFormed(s), NEW shown \in Seq(Places), NEW change,
           change.kind \in {"add", "remove"}, OfShown(change, shown), Applies(s, change),
           NEW t, t = Channel!Changed(s, change)
    PROVE  /\ WellFormed(t)
           /\ change.kind = "add" => Channel!Range(s) \ Channel!Range(t) = {}
           /\ change.kind # "add" =>
                /\ Channel!Range(s) \ Channel!Range(t) = {s[change.index]}
                /\ Destination[s[change.index]] = change.type
  <1>1. CASE change.kind = "add"
    <2>1. change \in Channel!Additions /\ t = Channel!Add(s, change.new)
      BY <1>1 DEF OfShown, Channel!Changed
    <2>2. change.new \in Seq(Places) /\ Len(change.new) \in {1, 2}
      BY <2>1, AdditionIs
    <2>3. WellFormed(t) /\ Channel!Range(s) \subseteq Channel!Range(t)
      BY <2>1, <2>2, AddKeeps
    <2> QED
      BY <1>1, <2>3
  <1>2. CASE change.kind # "add"
    <2>1. change \in Channel!Removals(shown) /\ t = Channel!RemoveAt(s, change.index)
      BY <1>2 DEF OfShown, Channel!Changed
    <2>2. change.index \in 1 .. Len(shown)
      BY <2>1, RemovalIs
    <2>3. /\ ~(change.index > Len(s)) /\ Len(s) # 1
          /\ Destination[s[change.index]] = change.type
      BY <1>2 DEF Applies
    <2>4. change.index \in 1 .. Len(s)
      <3>1. Len(shown) \in Nat /\ Len(s) \in Nat
        BY DEF WellFormed
      <3> QED
        BY <2>2, <2>3, <3>1
    <2> QED
      BY <1>2, <2>1, <2>3, <2>4, RemoveKeeps
  <1> QED
    BY <1>1, <1>2

LEMMA ChannelStart == Channel!Init => ChannelInv
  <1> SUFFICES ASSUME Channel!Init PROVE ChannelInv
    OBVIOUS
  <1>1. WellFormed(list)
    <2>1. list \in Channel!BoundedSeq(Places, 3) /\ list # <<>> /\ Channel!IsInjective(list)
      BY DEF Channel!Init, Channel!Lists, Places
    <2> QED
      BY <2>1, ShortLists DEF WellFormed
  <1>2. writes = 0
    BY DEF Channel!Init
  <1>3. caller = [c \in Browsers |-> [pc |-> "away", shown |-> <<>>, seen |-> 0,
                                      change |-> Channel!NoChange, copy |-> <<>>, read |-> 0]]
    BY DEF Channel!Init
  <1>4. <<>> \in Seq(Places) /\ Channel!NoChange \in Change
    BY DEF Change
  <1>5. caller \in [Browsers -> Caller]
    BY <1>3, <1>4 DEF Caller
  <1>6. \A c \in Browsers : caller[c].pc = "away"
    BY <1>3
  <1> QED
    BY <1>1, <1>2, <1>5, <1>6 DEF ChannelInv, Knows

\* A step of one request that writes nothing.
LEMMA OneRequest ==
    ASSUME ChannelInv, NEW c \in Browsers, UNCHANGED <<list, writes>>,
           NEW r \in Caller, caller' = [caller EXCEPT ![c] = r], Knows(r, list, writes)
    PROVE  ChannelInv'
  <1>1. caller' \in [Browsers -> Caller] /\ \A d \in Browsers : caller'[d] = IF d = c THEN r ELSE caller[d]
    BY DEF ChannelInv
  <1>2. \A d \in Browsers : Knows(caller[d], list, writes)'
    BY <1>1 DEF ChannelInv, Knows
  <1> QED
    BY <1>1, <1>2 DEF ChannelInv, WellFormed

\* A record with another place in the program is a request still.
LEMMA Moves ==
    ASSUME NEW r \in Caller, NEW q \in {"away", "looking", "writing", "ok", "refused", "failed"}
    PROVE  [r EXCEPT !.pc = q] \in Caller /\ [r EXCEPT !.pc = q].pc = q
  BY DEF Caller

LEMMA ChannelNext == ChannelInv /\ [Channel!Next]_Channel!vars => ChannelInv'
  <1> SUFFICES ASSUME ChannelInv, [Channel!Next]_Channel!vars PROVE ChannelInv'
    OBVIOUS
  <1>0. WellFormed(list) /\ list \in Seq(Places) /\ writes \in Nat /\ caller \in [Browsers -> Caller]
    BY DEF ChannelInv, WellFormed
  <1>1. ASSUME NEW c \in Browsers, Channel!Show(c) PROVE ChannelInv'
    <2> DEFINE r == [caller[c] EXCEPT !.pc = "looking", !.shown = list, !.seen = writes]
    <2>1. caller' = [caller EXCEPT ![c] = r] /\ UNCHANGED <<list, writes>>
      BY <1>0, <1>1 DEF Channel!Show
    <2>2. r \in Caller /\ r.pc = "looking" /\ r.shown = list /\ r.seen = writes
      BY <1>0 DEF Caller
    <2> HIDE DEF r
    <2>3. Knows(r, list, writes)
      BY <1>0, <2>2 DEF Knows
    <2> QED
      BY <2>1, <2>2, <2>3, OneRequest
  <1>2. ASSUME NEW c \in Browsers, Channel!ChangeDestinations(c) PROVE ChannelInv'
    <2>1. caller[c] \in Caller /\ caller[c].pc = "looking" /\ UNCHANGED <<list, writes>>
      BY <1>0, <1>2 DEF Channel!ChangeDestinations
    <2>2. caller[c].seen <= writes /\ (caller[c].seen = writes => caller[c].shown = list)
      BY <2>1 DEF ChannelInv, Knows
    <2>3. caller[c].shown \in Seq(Places)
      BY <2>1 DEF Caller
    <2>4. PICK change \in Channel!Additions \cup Channel!Removals(caller[c].shown) :
            IF ~exists \/ Channel!Refuses(list, change)
            THEN caller' = [caller EXCEPT ![c].pc = "refused"]
            ELSE caller' = [caller EXCEPT ![c].pc = "writing", ![c].change = change,
                                          ![c].copy = Channel!Changed(list, change), ![c].read = writes]
      BY <1>2 DEF Channel!ChangeDestinations
    <2>5. CASE ~exists \/ Channel!Refuses(list, change)
      <3> DEFINE r == [caller[c] EXCEPT !.pc = "refused"]
      <3>1. caller' = [caller EXCEPT ![c] = r]
        BY <1>0, <2>4, <2>5
      <3>2. r \in Caller /\ r.pc = "refused"
        BY <2>1, Moves
      <3> HIDE DEF r
      <3>3. Knows(r, list, writes)
        BY <3>2 DEF Knows
      <3> QED
        BY <2>1, <3>1, <3>2, <3>3, OneRequest
    <2>6. CASE ~Channel!Refuses(list, change) /\ exists
      <3> DEFINE t == Channel!Changed(list, change)
                 r == [caller[c] EXCEPT !.pc = "writing", !.change = change, !.copy = t, !.read = writes]
      <3>1. caller' = [caller EXCEPT ![c] = r]
        BY <1>0, <2>4, <2>6
      <3>2. /\ change.kind \in {"add", "remove"} /\ change \in Change
            /\ OfShown(change, caller[c].shown)
        <4>1. CASE change \in Channel!Additions
          BY <4>1, AdditionIs DEF OfShown, Change
        <4>2. CASE change \in Channel!Removals(caller[c].shown)
          BY <2>3, <4>2, RemovalIs DEF OfShown
        <4> QED
          BY <4>1, <4>2
      <3>0. Applies(list, change)
        BY <2>6 DEF Applies, Channel!Refuses
      <3>3. WellFormed(t) /\ t \in Seq(Places)
        BY <1>0, <2>3, <3>0, <3>2, ChangeKeeps DEF WellFormed
      <3> HIDE DEF t
      <3>4. /\ r \in Caller /\ r.pc = "writing" /\ r.change = change /\ r.copy = t /\ r.read = writes
            /\ r.shown = caller[c].shown /\ r.seen = caller[c].seen
        BY <1>0, <2>1, <3>2, <3>3 DEF Caller
      <3> HIDE DEF r
      <3>5. Knows(r, list, writes)
        BY <1>0, <2>2, <3>0, <3>2, <3>3, <3>4 DEF Knows, t
      <3> QED
        BY <2>1, <3>1, <3>4, <3>5, OneRequest
    <2> QED
      BY <2>5, <2>6
  <1>3. ASSUME NEW c \in Browsers, NEW q \in {"ok", "failed"}, Channel!Goes(c, q),
               UNCHANGED <<list, writes>>
        PROVE  ChannelInv'
    <2> DEFINE r == [caller[c] EXCEPT !.pc = q]
    <2>1. caller' = [caller EXCEPT ![c] = r]
      BY <1>0, <1>3 DEF Channel!Goes
    <2>2. r \in Caller /\ r.pc = q
      <3>1. caller[c] \in Caller /\ q \in {"away", "looking", "writing", "ok", "refused", "failed"}
        BY <1>0
      <3> QED
        BY <3>1, Moves
    <2> HIDE DEF r
    <2>3. Knows(r, list, writes)
      BY <2>2 DEF Knows
    <2> QED
      BY <1>3, <2>1, <2>2, <2>3, OneRequest
  <1>4. ASSUME NEW c \in Browsers, NEW q \in {"ok", "failed"}, Channel!Goes(c, q),
               caller[c].pc = "writing", list' = caller[c].copy, writes' = writes + 1
        PROVE  ChannelInv'
    <2> DEFINE r == [caller[c] EXCEPT !.pc = q]
    <2>1. caller' = [caller EXCEPT ![c] = r]
      BY <1>0, <1>4 DEF Channel!Goes
    <2>2. r \in Caller /\ r.pc = q
      <3>1. caller[c] \in Caller /\ q \in {"away", "looking", "writing", "ok", "refused", "failed"}
        BY <1>0
      <3> QED
        BY <3>1, Moves
    <2> HIDE DEF r
    <2>3. caller' \in [Browsers -> Caller] /\ \A d \in Browsers : caller'[d] = IF d = c THEN r ELSE caller[d]
      BY <1>0, <2>1, <2>2
    <2>4. WellFormed(list')
      BY <1>4 DEF ChannelInv, Knows, WellFormed
    <2>5. ASSUME NEW d \in Browsers PROVE Knows(caller[d], list, writes)'
      <3>1. CASE d = c
        BY <2>2, <2>3, <3>1 DEF Knows
      <3>2. CASE d # c
        <4>1. Knows(caller[d], list, writes) /\ caller[d] \in Caller /\ caller'[d] = caller[d]
          BY <1>0, <2>3, <3>2 DEF ChannelInv
        <4>2. caller[d].seen \in Nat /\ caller[d].read \in Nat
          BY <4>1 DEF Caller
        <4> QED
          BY <1>0, <1>4, <4>1, <4>2 DEF Knows
      <3> QED
        BY <3>1, <3>2
    <2> QED
      BY <1>0, <1>4, <2>3, <2>4, <2>5 DEF ChannelInv, WellFormed
  <1>5. ASSUME UNCHANGED <<list, writes, caller>> PROVE ChannelInv'
    BY <1>5 DEF ChannelInv, WellFormed, Knows
  <1>6. ASSUME NEW c \in Browsers, Channel!SetChannelDestinations(c) PROVE ChannelInv'
    BY <1>3, <1>4, <1>6 DEF Channel!SetChannelDestinations
  <1>7. ASSUME NEW c \in Browsers, Channel!CoreFails(c) PROVE ChannelInv'
    BY <1>3, <1>7 DEF Channel!CoreFails
  <1> QED
    BY <1>1, <1>2, <1>5, <1>6, <1>7 DEF Channel!Next, Channel!vars, Channel!DeleteChannel

LEMMA OverlapStep ==
    ASSUME ChannelInv, [Channel!Next]_Channel!vars,
           NEW c \in Browsers, caller[c].pc = "writing", writes' # writes, caller'[c].pc # "writing"
    PROVE  /\ list' # <<>> /\ Channel!IsInjective(list')
           /\ caller[c].read = writes =>
                IF caller[c].change.kind = "add" THEN Channel!Lost = {}
                ELSE /\ {Destination[d] : d \in Channel!Lost} = {caller[c].change.type}
                     /\ caller[c].seen = writes => Channel!Lost = {caller[c].shown[caller[c].change.index]}
  <1>1. PICK d \in Browsers : Channel!SetChannelDestinations(d)
    BY DEF Channel!Next, Channel!vars, Channel!Show, Channel!ChangeDestinations, Channel!CoreFails,
           Channel!DeleteChannel
  <1>2. d = c
    BY <1>1 DEF Channel!SetChannelDestinations, Channel!Goes, ChannelInv
  <1>3. list' = caller[c].copy
    BY <1>1, <1>2 DEF Channel!SetChannelDestinations
  <1>4. WellFormed(list) /\ caller[c] \in Caller /\ Knows(caller[c], list, writes)
    BY DEF ChannelInv
  <1> DEFINE r == caller[c]
  <1>5. r.shown \in Seq(Places)
    BY <1>4 DEF Caller
  <1> HIDE DEF r
  <1>6. /\ WellFormed(r.copy) /\ r.change.kind \in {"add", "remove"} /\ OfShown(r.change, r.shown)
        /\ r.seen = writes => r.shown = list
        /\ r.read = writes => r.copy = Channel!Changed(list, r.change) /\ Applies(list, r.change)
    BY <1>4 DEF Knows, r
  <1>7. list' # <<>> /\ Channel!IsInjective(list')
    BY <1>3, <1>6 DEF WellFormed, r
  <1>8. ASSUME r.read = writes
        PROVE  IF r.change.kind = "add" THEN Channel!Lost = {}
               ELSE /\ {Destination[e] : e \in Channel!Lost} = {r.change.type}
                    /\ r.seen = writes => Channel!Lost = {r.shown[r.change.index]}
    <2>1. Channel!Lost = Channel!Range(list) \ Channel!Range(r.copy)
      BY <1>3 DEF Channel!Lost, r
    <2>2. /\ r.change.kind = "add" => Channel!Lost = {}
          /\ r.change.kind # "add" =>
               /\ Channel!Lost = {list[r.change.index]}
               /\ Destination[list[r.change.index]] = r.change.type
      BY <1>4, <1>5, <1>6, <1>8, <2>1, ChangeKeeps
    <2> QED
      BY <1>6, <2>2
  <1> QED
    BY <1>7, <1>8 DEF r

(***************************************************************************)
(* Each part of a behaviour is a behaviour of that part, the limiter of    *)
(* the builder with the ticks of the other limiter's clock.                *)
(***************************************************************************)

LEMMA FixedRuns == PartsSpec => Fixed!Init /\ [][Fixed!Next]_Fixed!vars
  <1>1. PartsInit => Fixed!Init
    BY DEF PartsInit
  <1>2. [PartsNext]_partsvars => [Fixed!Next]_Fixed!vars
    <2> SUFFICES ASSUME [PartsNext]_partsvars PROVE [Fixed!Next]_Fixed!vars
      OBVIOUS
    <2>1. CASE Next /\ UNCHANGED fixed
      <3>1. UNCHANGED clock \/ (clock < MaxTime /\ clock' = clock + 1)
        BY <2>1 DEF Next, Admit, Refuse, Tick
      <3> QED
        BY <2>1, <3>1 DEF fixed, Fixed!vars, Fixed!Next, Fixed!Tick
    <2>2. CASE UNCHANGED <<clock, fixed>>
      BY <2>2 DEF fixed, Fixed!vars
    <2> QED
      BY <2>1, <2>2 DEF PartsNext, partsvars
  <1> QED
    BY <1>1, <1>2, PTL DEF PartsSpec, partsvars

LEMMA GateRuns == PartsSpec => Gate!Init /\ [][Gate!Next]_Gate!vars
  <1>1. PartsInit => Gate!Init
    BY DEF PartsInit
  <1>2. [PartsNext]_partsvars => [Gate!Next]_Gate!vars
    BY DEF PartsNext, partsvars, gate, Gate!vars
  <1> QED
    BY <1>1, <1>2, PTL DEF PartsSpec, partsvars

LEMMA ChannelRuns == PartsSpec => Channel!Init /\ [][Channel!Next]_Channel!vars
  <1>1. PartsInit => Channel!Init
    BY DEF PartsInit
  <1>2. [PartsNext]_partsvars => [Channel!Next]_Channel!vars
    BY DEF PartsNext, partsvars, channel, Channel!vars
  <1> QED
    BY <1>1, <1>2, PTL DEF PartsSpec, partsvars

LEMMA SavesRun == PartsSpec => SaveProofs!Spec
  <1>1. PartsInit => SaveProofs!Init
    BY DEF PartsInit, Saves!Init, SaveProofs!Init
  <1>2. [PartsNext]_partsvars => [SaveProofs!Next]_SaveProofs!vars
    BY DEF PartsNext, partsvars, save,
           Saves!Next, Saves!vars, Saves!Request, Saves!RemoveRule, Saves!RemoveFails,
           Saves!StartWriting, Saves!Take, Saves!Settle, Saves!SetRule, Saves!SetRuleFails,
           Saves!SetRuleLost, Saves!Failed, Saves!Throws, Saves!SetRules, Saves!Verdict,
           SaveProofs!Next, SaveProofs!vars, SaveProofs!Request, SaveProofs!RemoveRule,
           SaveProofs!RemoveFails, SaveProofs!StartWriting, SaveProofs!Take, SaveProofs!Settle,
           SaveProofs!SetRule, SaveProofs!SetRuleFails, SaveProofs!SetRuleLost,
           SaveProofs!Failed, SaveProofs!Throws, SaveProofs!SetRules, SaveProofs!Verdict
  <1> QED
    BY <1>1, <1>2, PTL DEF PartsSpec, partsvars, SaveProofs!Spec

LEMMA InstallRuns == PartsSpec => InstallProofs!Spec
  <1>1. PartsInit => InstallProofs!Init
    BY DEF PartsInit,
           Install!Init, Install!Roles, Install!Ranks, Install!Places, InstallProofs!Init,
           InstallProofs!Roles, InstallProofs!Ranks, InstallProofs!Places
  <1>2. [PartsNext]_partsvars => [InstallProofs!Next]_InstallProofs!vars
    BY DEF PartsNext, partsvars, install,
           Install!Next, Install!vars, Install!Standing, Install!Places, Install!ReadOrg,
           Install!ReadTeamFails, Install!KnownRole, Install!Undecided, Install!Obstacles,
           Install!_preflight, Install!Preflight, Install!Judge, Install!AddTeam,
           Install!Install, Install!Outside, Install!OrgAdmin, Install!ManagesRealmTeams,
           Install!AddsOrgTeams, InstallProofs!Next, InstallProofs!vars,
           InstallProofs!Standing, InstallProofs!Places, InstallProofs!ReadOrg,
           InstallProofs!ReadTeamFails, InstallProofs!KnownRole, InstallProofs!Undecided,
           InstallProofs!Obstacles, InstallProofs!_preflight, InstallProofs!Preflight,
           InstallProofs!Judge, InstallProofs!AddTeam, InstallProofs!Install,
           InstallProofs!Outside, InstallProofs!OrgAdmin, InstallProofs!ManagesRealmTeams,
           InstallProofs!AddsOrgTeams
  <1> QED
    BY <1>1, <1>2, PTL DEF PartsSpec, partsvars, InstallProofs!Spec

LEMMA CompatRuns == PartsSpec => CompatProofs!Spec
  <1>1. PartsInit => CompatProofs!Init
    BY DEF PartsInit,
           Compat!Init, Compat!Versions, Compat!NoVersion, Compat!NoVerdict, Compat!NoProbe,
           CompatProofs!Init, CompatProofs!Versions, CompatProofs!NoVersion,
           CompatProofs!NoVerdict, CompatProofs!NoProbe
  <1>2. [PartsNext]_partsvars => [CompatProofs!Next]_CompatProofs!vars
    BY DEF PartsNext, partsvars, compat,
           Compat!Next, Compat!vars, Compat!Tick, Compat!Restart, Compat!Probing, Compat!Known,
           Compat!Begun, Compat!Stale, Compat!Current, Compat!ApiVersion, Compat!Check,
           Compat!Lands, Compat!ProbeLands, Compat!ProbeFails, Compat!judge, Compat!Waits,
           Compat!Given, Compat!Versions, Compat!NoVersion, Compat!NoVerdict, Compat!NoProbe,
           Compat!MIN_CORE_API_VERSION, CompatProofs!Next, CompatProofs!vars,
           CompatProofs!Tick, CompatProofs!Restart, CompatProofs!Probing, CompatProofs!Known,
           CompatProofs!Begun, CompatProofs!Stale, CompatProofs!Current,
           CompatProofs!ApiVersion, CompatProofs!Check, CompatProofs!Lands,
           CompatProofs!ProbeLands, CompatProofs!ProbeFails, CompatProofs!judge,
           CompatProofs!Waits, CompatProofs!Given, CompatProofs!Versions,
           CompatProofs!NoVersion, CompatProofs!NoVerdict, CompatProofs!NoProbe,
           CompatProofs!MIN_CORE_API_VERSION
  <1> QED
    BY <1>1, <1>2, PTL DEF PartsSpec, partsvars, CompatProofs!Spec

(***************************************************************************)
(* The theorems.                                                           *)
(***************************************************************************)

LEMMA FixedInvariance == PartsSpec => []FixedInv
  <1> QED
    BY FixedRuns, FixedInit, FixedNext, PTL

\* For any limits, window and clock, and whenever the timer drops counters, a
\* caller passes at most twice its limit within a window's length.
THEOREM TwiceTheorem == PartsSpec => []AtMostTwiceTheLimit
  <1>1. FixedInv => AtMostTwiceTheLimit
    BY DEF AtMostTwiceTheLimit, Fixed!AtMostTwiceTheLimit, FixedInv, Spread, Callers
  <1> QED
    BY <1>1, FixedInvariance, PTL

\* A caller that waits for the Retry-After of its latest refusal gets through, for
\* any limits, window and length of a second.
THEOREM RetryTheorem == PartsSpec => RetryAfterIsEnough
  <1>1. FixedInv /\ [Fixed!Next]_Fixed!vars =>
          [\A c \in DOMAIN LimitOf :
            /\ refused # Fixed!NoRefusal /\ refused.caller = c
            /\ refused' # refused /\ refused'.caller = c
            /\ clock >= refused.at + refused.retry_after * Second
            => \E i \in 1 .. Len(passed[c]) : passed[c][i] > refused.at]_Fixed!vars
    BY RefusedAgain DEF Callers
  <1> QED
    BY <1>1, FixedRuns, FixedInvariance, PTL DEF RetryAfterIsEnough, Fixed!RetryAfterIsEnough

LEMMA GateInvariance == PartsSpec => []GateInv
  <1> QED
    BY GateRuns, GateInit, GateNext, PTL

\* Whenever rows go, and whatever Core or the table of sessions answers, the
\* BFF tells no signed-in browser that it is signed out.
THEOREM Never401Theorem == PartsSpec => []SignedInNeverTold401
  <1>1. GateInv => SignedInNeverTold401
    BY DEF GateInv, SignedInNeverTold401
  <1> QED
    BY <1>1, GateInvariance, PTL

\* For every route and body, whatever happens to the session meanwhile: a request
\* the table lets through has the credential its handler takes, and the user the
\* table judged is the one whose token Core gets, unless the request carries a
\* bearer beside its cookie.
THEOREM CredentialTheorem == PartsSpec => []CredentialFits
  <1>1. ASSUME GateInv, sent # Gate!Nothing, Gate!Rule \in {"session", "site_admin"}
        PROVE  /\ session # Gate!Nothing
               /\ Gate!Rule = "site_admin" => session.role = "admin"
               /\ sent # session.token =>
                    /\ Gate!Rule = "site_admin" /\ req.bearer # "none"
                    /\ session.token.kind = "session"
    <2>1. RouteKnown /\ Gate!Admits /\ sent = Gate!Credential /\ req \in Gate!Request
      BY <1>1 DEF GateInv, PastTable
    <2>2. session # Gate!Nothing /\ (Gate!Rule = "site_admin" => session.role = "admin")
      BY <1>1, <2>1 DEF Gate!Admits
    <2>3. Agree(Gate!Rule, Gate!Takes.cred, req.told)
      BY <2>1, RuleAgrees
    <2>4. CASE Gate!Takes.cred \in {"session", "optional"}
      BY <2>1, <2>2, <2>4 DEF Gate!Credential
    <2>5. CASE Gate!Takes.cred \in {"bearer", "forward"}
      <3>1. Gate!Rule = "site_admin" /\ sent = Gate!forward_token
        BY <1>1, <2>1, <2>3, <2>5 DEF Agree, Gate!Credential
      <3>2. TokenOfSession
        BY <1>1, <2>2 DEF GateInv
      <3> QED
        BY <2>1, <2>2, <3>1, <3>2
           DEF Gate!forward_token, TokenOfSession, Gate!Request, Gate!Bearers
    <2> QED
      BY <1>1, <2>3, <2>4, <2>5 DEF Agree
  <1>2. GateInv => CredentialFits
    BY <1>1 DEF CredentialFits, GateInv, Gate!JudgedIsSent
  <1> QED
    BY <1>2, GateInvariance, PTL

\* For every reply Core can give, what the client is told of the call is what
\* Core said.
THEOREM FailuresTheorem == PartsSpec => []CoreFailuresAreTold
  <1>1. Gate!Init => CoreTold
    BY DEF Gate!Init, Gate!NoAnswer, CoreTold
  <1>2. ASSUME CoreTold, told.by = "core", told.reply # Gate!Unreachable,
               Gate!Takes.via \in {"post", "post_body"}
        PROVE  Fair(told.reply, told.told)
    <2>1. told.reply \in Gate!Reply /\ ReplyOfCore(told.reply)
      BY <1>2, RequestsAssumption DEF CoreTold
    <2>2. told.told = Gate!post(told.reply) \/ told.told = Gate!post_body(told.reply)
      BY <1>2 DEF CoreTold, Gate!Told
    <2> QED
      BY <2>1, <2>2, FairlyTold
  <1>3. CoreTold => CoreFailuresAreTold
    BY <1>2 DEF CoreFailuresAreTold, Gate!CoreFailuresAreTold, Fair
  <1> QED
    BY <1>1, <1>3, CoreToldNext, GateRuns, PTL

\* Whatever the interleaving of its workers, a save tells what Core did.
THEOREM AnswerTheorem == PartsSpec => []AnswerSaysWhatCoreHas
  <1>1. SaveProofs!SavesAssumption
    BY RequestsAssumption DEF SaveProofs!SavesAssumption
  <1>2. SaveProofs!AnswerSaysWhatCoreHas => AnswerSaysWhatCoreHas
    BY DEF AnswerSaysWhatCoreHas,
           Saves!AnswerSaysWhatCoreHas, Saves!Verdict, SaveProofs!AnswerSaysWhatCoreHas,
           SaveProofs!Verdict
  <1> QED
    BY <1>1, <1>2, SavesRun, SaveProofs!SaveTheorem, PTL

\* An install of any number of realms reports what Core did.
THEOREM ReportTheorem == PartsSpec => []ReportIsCore
  <1>1. InstallProofs!InstallAssumption
    BY RequestsAssumption DEF InstallProofs!InstallAssumption, InstallProofs!Places
  <1>2. InstallProofs!ReportIsCore => ReportIsCore
    BY DEF ReportIsCore,
           Install!ReportIsCore, Install!Places, InstallProofs!ReportIsCore,
           InstallProofs!Places
  <1> QED
    BY <1>1, <1>2, InstallRuns, InstallProofs!InstallTheorem, PTL

\* However the askers interleave with the probe and with Core's restarts, a
\* verdict past its interval is being renewed.
THEOREM VerdictTheorem == PartsSpec => VerdictIsRenewed
  <1>1. CompatProofs!CompatAssumption
    BY RequestsAssumption DEF CompatProofs!CompatAssumption
  <1>2. CompatProofs!VerdictIsRenewed => VerdictIsRenewed
    BY PTL
       DEF VerdictIsRenewed, Compat!VerdictIsRenewed, Compat!vars, Compat!Known,
           Compat!NoVerdict, Compat!NoVersion, Compat!NoProbe,
           CompatProofs!VerdictIsRenewed, CompatProofs!vars, CompatProofs!Known,
           CompatProofs!NoVerdict, CompatProofs!NoVersion, CompatProofs!NoProbe
  <1> QED
    BY <1>1, <1>2, CompatRuns, CompatProofs!RenewalTheorem, PTL

\* For any browsers and destinations, and whatever other changes overlap it.
THEOREM OverlapTheorem == PartsSpec => LostOnlyToOverlap
  <1>1. ChannelInv /\ [Channel!Next]_Channel!vars =>
          [\A c \in Browsers : caller[c].pc = "writing" /\ writes' # writes /\ caller'[c].pc # "writing" =>
            /\ list' # <<>> /\ Channel!IsInjective(list')
            /\ caller[c].read = writes =>
                 IF caller[c].change.kind = "add" THEN Channel!Lost = {}
                 ELSE /\ {Destination[d] : d \in Channel!Lost} = {caller[c].change.type}
                      /\ caller[c].seen = writes => Channel!Lost = {caller[c].shown[caller[c].change.index]}]_Channel!vars
    BY OverlapStep
  <1>2. PartsSpec => []ChannelInv
    BY ChannelRuns, ChannelStart, ChannelNext, PTL
  <1> QED
    BY <1>1, <1>2, ChannelRuns, PTL DEF LostOnlyToOverlap, Channel!LostOnlyToOverlap
==============================================================================
