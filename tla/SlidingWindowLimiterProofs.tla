--------------------- MODULE SlidingWindowLimiterProofs ---------------------
(***************************************************************************)
(* The sliding limiter never lets more than Limit hits of a key through in *)
(* any window, for every limit, window, set of keys and length of time.    *)
(***************************************************************************)
EXTENDS SlidingWindowLimiter, FiniteSetTheorems, WellFoundedInduction, TLAPS

\* The parts of the state the bound rests on.
StateOK ==
    /\ clock \in Nat
    /\ log \in [Keys -> Seq(Nat)]
    /\ DOMAIN hits \subseteq Keys
    /\ \A k \in DOMAIN hits : hits[k] \subseteq 1 .. Len(log[k])

\* The times of a key's hits ascend, up to now.
Ascending(k) ==
    \A i, j \in 1 .. Len(log[k]) : i <= j => log[k][i] <= log[k][j] /\ log[k][j] <= clock

\* A hit the limiter no longer counts is a window old.
Complete(k) ==
    \A i \in 1 .. Len(log[k]) : i \notin Counted(k) => log[k][i] + Window <= clock

\* AtMostLimitPerWindow, for one key.
Bounded(k) ==
    \A i \in 1 .. Len(log[k]) :
        i + Limit <= Len(log[k]) => log[k][i + Limit] >= log[k][i] + Window

LimiterInv == StateOK /\ \A k \in Keys : Ascending(k) /\ Complete(k) /\ Bounded(k)

LEMMA LimiterInit == Init => LimiterInv
  BY LimiterAssumption DEF Init, LimiterInv, StateOK, Ascending, Complete, Bounded

LEMMA HitTimes ==
    ASSUME LimiterInv, NEW k \in Keys
    PROVE  /\ Len(log[k]) \in Nat /\ clock \in Nat /\ Window \in Nat /\ Limit \in Nat \ {0}
           /\ \A i \in 1 .. Len(log[k]) : log[k][i] \in Nat
  BY LimiterAssumption DEF LimiterInv, StateOK

\* What hit counts for k is every hit of k inside the window.
LEMMA CountedNowIsRecent ==
    ASSUME LimiterInv, NEW k \in Keys
    PROVE  CountedNow(k) = {i \in 1 .. Len(log[k]) : log[k][i] + Window > clock}
  <1>1. Recent(k) = {i \in 1 .. Len(log[k]) : log[k][i] + Window > clock}
    <2>1. Counted(k) \subseteq 1 .. Len(log[k])
      BY DEF LimiterInv, StateOK, Counted
    <2>2. \A i \in 1 .. Len(log[k]) : i \notin Counted(k) => log[k][i] + Window <= clock
      BY DEF LimiterInv, Complete
    <2> QED
      BY <2>1, <2>2, HitTimes DEF Recent
  <1>2. k \notin Kept => Recent(k) = {}
    BY DEF Kept, Recent, Counted
  <1> QED
    BY <1>1, <1>2 DEF CountedNow

\* And the other hits of k are a window old.
LEMMA NotCountedIsOld ==
    ASSUME LimiterInv, NEW k \in Keys, NEW i \in 1 .. Len(log[k]), i \notin CountedNow(k)
    PROVE  log[k][i] + Window <= clock
  <1>1. ~(log[k][i] + Window > clock)
    BY CountedNowIsRecent
  <1> QED
    BY <1>1, HitTimes

\* Saving the hits of k keeps what is counted for the other keys complete.
LEMMA SaveComplete ==
    ASSUME LimiterInv, NEW k \in Keys, NEW counted, Save(k, counted),
           UNCHANGED clock, NEW x \in Keys, x # k, log'[x] = log[x]
    PROVE  Complete(x)'
  <1> SUFFICES ASSUME NEW i \in 1 .. Len(log[x]), i \notin Counted(x)'
               PROVE  log[x][i] + Window <= clock
    BY DEF Complete
  <1>1. CASE x \in Kept
    BY <1>1 DEF LimiterInv, Complete, Save, Counted, Kept
  <1>2. CASE x \notin Kept
    <2>1. CASE x \in DOMAIN hits
      <3>1. Recent(x) = {}
        BY <1>2, <2>1 DEF Kept
      <3>2. log[x][i] \in Nat /\ clock \in Nat /\ Window \in Nat
        BY LimiterAssumption DEF LimiterInv, StateOK
      <3>3. CASE i \in Counted(x)
        BY <3>1, <3>2, <3>3 DEF Recent
      <3>4. CASE i \notin Counted(x)
        BY <3>4 DEF LimiterInv, Complete
      <3> QED
        BY <3>3, <3>4
    <2>2. CASE x \notin DOMAIN hits
      BY <2>2 DEF LimiterInv, Complete, Counted
    <2> QED
      BY <2>1, <2>2
  <1> QED
    BY <1>1, <1>2

\* Counted(k)' is what was saved, and the keys held stay keys.
LEMMA Saved ==
    ASSUME StateOK, NEW k \in Keys, NEW counted, Save(k, counted)
    PROVE  /\ Counted(k)' = counted
           /\ DOMAIN hits' \subseteq Keys
           /\ \A x \in DOMAIN hits' : x # k => x \in DOMAIN hits /\ hits'[x] = hits[x]
           /\ hits'[k] = counted
  BY DEF StateOK, Save, Counted, Kept

LEMMA RefuseInv ==
    ASSUME LimiterInv, NEW k \in Keys, Refuse(k)
    PROVE  LimiterInv'
  <1>1. Save(k, CountedNow(k)) /\ UNCHANGED <<clock, log>>
    BY DEF Refuse
  <1>2. StateOK'
    <2>1. CountedNow(k) \subseteq 1 .. Len(log[k])
      BY CountedNowIsRecent
    <2> QED
      BY <1>1, <2>1, Saved DEF LimiterInv, StateOK
  <1>3. \A x \in Keys : Ascending(x)' /\ Bounded(x)'
    BY <1>1 DEF LimiterInv, Ascending, Bounded
  <1>4. \A x \in Keys : x # k => Complete(x)'
    BY <1>1, SaveComplete
  <1>5. Complete(k)'
    <2>1. Counted(k)' = CountedNow(k)
      BY <1>1, Saved DEF LimiterInv
    <2> QED
      BY <1>1, <2>1, NotCountedIsOld DEF Complete
  <1> QED
    BY <1>2, <1>3, <1>4, <1>5 DEF LimiterInv

\* Fewer than Limit hits of k are inside the window, so the Limit-th last one
\* is not.
LEMMA RoomMeansOld ==
    ASSUME LimiterInv, NEW k \in Keys, Cardinality(CountedNow(k)) < Limit,
           NEW i \in 1 .. Len(log[k]), i + Limit = Len(log[k]) + 1
    PROVE  log[k][i] + Window <= clock
  <1> SUFFICES ASSUME log[k][i] + Window > clock PROVE FALSE
    BY LimiterAssumption DEF LimiterInv, StateOK
  <1>1. Len(log[k]) \in Nat /\ Limit \in Nat
    BY LimiterAssumption DEF LimiterInv, StateOK
  <1>2. i .. Len(log[k]) \subseteq CountedNow(k)
    <2> SUFFICES ASSUME NEW j \in i .. Len(log[k]) PROVE j \in CountedNow(k)
      OBVIOUS
    <2>1. j \in 1 .. Len(log[k]) /\ i <= j
      BY <1>1
    <2>2. log[k][i] <= log[k][j]
      BY <2>1 DEF LimiterInv, Ascending
    <2>3. /\ clock \in Nat /\ Window \in Nat
          /\ log[k][i] \in Nat /\ log[k][j] \in Nat
      BY <2>1, HitTimes
    <2>4. ~(log[k][j] + Window <= clock)
      BY <2>2, <2>3
    <2> QED
      BY <2>1, <2>4, NotCountedIsOld
  <1>3. IsFiniteSet(1 .. Len(log[k]))
    <2>1. 1 \in Int /\ Len(log[k]) \in Int
      BY <1>1
    <2> QED
      BY <2>1, FS_Interval
  <1>4. CountedNow(k) \subseteq 1 .. Len(log[k])
    BY CountedNowIsRecent
  <1>5. IsFiniteSet(CountedNow(k))
    BY <1>3, <1>4, FS_Subset
  <1>6. Cardinality(i .. Len(log[k])) <= Cardinality(CountedNow(k))
    BY <1>2, <1>5, FS_Subset
  <1>7. Cardinality(i .. Len(log[k])) = Len(log[k]) - i + 1
    <2>1. i \in Int /\ Len(log[k]) \in Int /\ ~(i > Len(log[k]))
      BY <1>1
    <2> QED
      BY <2>1, FS_Interval
  <1>8. Cardinality(CountedNow(k)) \in Nat
    BY <1>5, FS_CardinalityType
  <1> QED
    BY <1>1, <1>6, <1>7, <1>8

LEMMA AdmitInv ==
    ASSUME LimiterInv, NEW k \in Keys, Admit(k)
    PROVE  LimiterInv'
  <1> DEFINE n == Len(log[k]) + 1
  <1>1. /\ Cardinality(CountedNow(k)) < Limit
        /\ Save(k, CountedNow(k) \cup {n})
        /\ log' = [log EXCEPT ![k] = Append(log[k], clock)]
        /\ UNCHANGED clock
    BY DEF Admit
  <1>2. /\ log[k] \in Seq(Nat) /\ clock \in Nat /\ n \in Nat /\ Window \in Nat /\ Limit \in Nat \ {0}
        /\ log \in [Keys -> Seq(Nat)]
    BY LimiterAssumption DEF LimiterInv, StateOK
  <1>3. /\ Len(log'[k]) = n /\ log'[k][n] = clock
        /\ \A i \in 1 .. Len(log[k]) : log'[k][i] = log[k][i] /\ log[k][i] \in Nat
        /\ \A x \in Keys : x # k => log'[x] = log[x]
        /\ log' \in [Keys -> Seq(Nat)]
    BY <1>1, <1>2
  <1>4. 1 .. n = 1 .. Len(log[k]) \cup {n}
    BY <1>2
  <1>5. CountedNow(k) \subseteq 1 .. Len(log[k])
    BY CountedNowIsRecent
  <1>6. Counted(k)' = CountedNow(k) \cup {n}
    BY <1>1, Saved DEF LimiterInv
  <1>7. StateOK'
    <2>1. \A x \in DOMAIN hits' : hits'[x] \subseteq 1 .. Len(log'[x])
      BY <1>1, <1>3, <1>4, <1>5, Saved DEF LimiterInv, StateOK
    <2> QED
      BY <1>1, <1>2, <1>3, <2>1, Saved DEF LimiterInv, StateOK
  <1> HIDE DEF n
  <1>8. ASSUME NEW x \in Keys, x # k
        PROVE  Ascending(x)' /\ Complete(x)' /\ Bounded(x)'
    <2>1. Ascending(x)' /\ Bounded(x)'
      BY <1>1, <1>3, <1>8 DEF LimiterInv, Ascending, Bounded
    <2>2. Complete(x)'
      BY <1>1, <1>3, <1>8, SaveComplete
    <2> QED
      BY <2>1, <2>2
  <1>9. Ascending(k)'
    <2>1. \A i, j \in 1 .. Len(log[k]) : i <= j => log[k][i] <= log[k][j] /\ log[k][j] <= clock
      BY DEF LimiterInv, Ascending
    <2>2. \A j \in 1 .. Len(log[k]) : j < n
      BY <1>2 DEF n
    <2> QED
      BY <1>1, <1>2, <1>3, <1>4, <2>1, <2>2 DEF Ascending
  <1>10. Complete(k)'
    <2> SUFFICES ASSUME NEW i \in 1 .. n, i \notin Counted(k)'
                 PROVE  log'[k][i] + Window <= clock'
      BY <1>3 DEF Complete
    <2>1. i \in 1 .. Len(log[k]) /\ i \notin CountedNow(k)
      BY <1>4, <1>6
    <2>2. log[k][i] + Window <= clock
      BY <2>1, NotCountedIsOld
    <2>3. log'[k][i] = log[k][i] /\ clock' = clock
      BY <1>1, <1>3, <2>1
    <2> QED
      BY <2>2, <2>3
  <1>11. Bounded(k)'
    <2> SUFFICES ASSUME NEW i \in 1 .. n, i + Limit <= n
                 PROVE  log'[k][i + Limit] >= log'[k][i] + Window
      BY <1>1, <1>3 DEF Bounded
    <2>1. i \in 1 .. Len(log[k])
      BY <1>2 DEF n
    <2>2. CASE i + Limit = n
      BY <1>1, <1>2, <1>3, <2>1, <2>2, RoomMeansOld DEF n
    <2>3. CASE i + Limit # n
      <3>1. i + Limit \in 1 .. Len(log[k]) /\ i + Limit <= Len(log[k])
        BY <1>2, <2>1, <2>3 DEF n
      <3> QED
        BY <1>3, <2>1, <3>1 DEF LimiterInv, Bounded
    <2> QED
      BY <2>2, <2>3
  <1> QED
    BY <1>7, <1>8, <1>9, <1>10, <1>11 DEF LimiterInv

LEMMA TickInv ==
    ASSUME LimiterInv, Tick
    PROVE  LimiterInv'
  <1>1. clock' = clock + 1 /\ UNCHANGED <<hits, log>> /\ clock \in Nat
    BY DEF Tick, LimiterInv, StateOK
  <1>2. StateOK'
    BY <1>1 DEF LimiterInv, StateOK
  <1>3. ASSUME NEW k \in Keys PROVE Ascending(k)' /\ Complete(k)' /\ Bounded(k)'
    <2>1. Ascending(k)'
      <3>1. \A i, j \in 1 .. Len(log[k]) : i <= j => log[k][i] <= log[k][j] /\ log[k][j] <= clock
        BY DEF LimiterInv, Ascending
      <3>2. \A j \in 1 .. Len(log[k]) : log[k][j] <= clock => log[k][j] <= clock'
        BY <1>1, HitTimes
      <3> QED
        BY <1>1, <3>1, <3>2 DEF Ascending
    <2>2. Complete(k)'
      <3> SUFFICES ASSUME NEW i \in 1 .. Len(log[k]), i \notin Counted(k)
                   PROVE  log[k][i] + Window <= clock'
        BY <1>1 DEF Complete, Counted
      <3>1. log[k][i] + Window <= clock
        BY DEF LimiterInv, Complete
      <3> QED
        BY <1>1, <3>1, HitTimes
    <2>3. Bounded(k)'
      BY <1>1 DEF LimiterInv, Bounded
    <2> QED
      BY <2>1, <2>2, <2>3
  <1> QED
    BY <1>2, <1>3 DEF LimiterInv

LEMMA LimiterNext == LimiterInv /\ [Next]_vars => LimiterInv'
  <1> SUFFICES ASSUME LimiterInv, [Next]_vars PROVE LimiterInv'
    OBVIOUS
  <1>1. ASSUME NEW k \in Keys, Admit(k) PROVE LimiterInv'
    BY <1>1, AdmitInv
  <1>2. ASSUME NEW k \in Keys, Refuse(k) PROVE LimiterInv'
    BY <1>2, RefuseInv
  <1>3. CASE Tick
    BY <1>3, TickInv
  <1>4. CASE UNCHANGED vars
    BY <1>4 DEF vars, LimiterInv, StateOK, Ascending, Complete, Bounded, Counted
  <1> QED
    BY <1>1, <1>2, <1>3, <1>4 DEF Next

(***************************************************************************)
(* "At most limit hits per key in any window_ms span": any Limit + 1 hits  *)
(* that hit() let in span a window at least.                               *)
(***************************************************************************)
THEOREM WindowTheorem == Spec => []AtMostLimitPerWindow
  <1>1. LimiterInv => AtMostLimitPerWindow
    BY DEF LimiterInv, Bounded, AtMostLimitPerWindow
  <1> QED
    BY <1>1, LimiterInit, LimiterNext, PTL DEF Spec

\* A set of numbers that is not empty has a least one.
LEMMA LeastOfSome ==
    ASSUME NEW S \in SUBSET Nat, S # {}
    PROVE  \E low \in S : \A j \in S : low <= j
  <1> DEFINE Less == {ss \in Nat \X Nat : ss[1] < ss[2]}
  <1>1. IsWellFoundedOn(Less, Nat)
    BY NatLessThanWellFounded DEF OpToRel
  <1> HIDE DEF Less
  <1>2. PICK low \in S : \A j \in S : ~ (<<j, low>> \in Less)
    BY <1>1, WFMin
  <1>3. \A j \in S : ~ (j < low)
    BY <1>2 DEF Less
  <1>4. \A j \in S : j \in Nat /\ low \in Nat
    OBVIOUS
  <1> QED
    BY <1>3, <1>4

\* The hits counted for k are its last ones, from the oldest counted on, and
\* at most Limit of them.
LEMMA CountedAreLast ==
    ASSUME LimiterInv, NEW k \in Keys, Cardinality(CountedNow(k)) >= Limit
    PROVE  LET m == Oldest(CountedNow(k)) IN
           /\ m \in 1 .. Len(log[k]) /\ log[k][m] + Window > clock
           /\ Len(log[k]) - m + 1 = Limit
  <1> DEFINE C == CountedNow(k)
             n == Len(log[k])
             m == Oldest(C)
  <1>1. n \in Nat /\ clock \in Nat /\ Window \in Nat /\ Limit \in Nat \ {0}
    BY HitTimes
  <1>2. C = {i \in 1 .. n : log[k][i] + Window > clock}
    BY CountedNowIsRecent
  <1>3. IsFiniteSet(1 .. n)
    <2>1. 1 \in Int /\ n \in Int
      BY <1>1
    <2> QED
      BY <2>1, FS_Interval
  <1>4. IsFiniteSet(C)
    BY <1>2, <1>3, FS_Subset
  <1>5. C # {}
    <2>1. CountedNow(k) = {} => Cardinality(CountedNow(k)) = 0
      BY FS_EmptySet
    <2>2. ~(0 >= Limit)
      BY <1>1
    <2> QED
      BY <2>1, <2>2
  <1>6. m \in C /\ \A j \in C : m <= j
    <2>1. C \in SUBSET Nat
      BY <1>1, <1>2
    <2>2. PICK low \in C : \A j \in C : low <= j
      BY <1>5, <2>1, LeastOfSome
    <2> QED
      BY <2>2 DEF Oldest
  <1>7. m \in 1 .. n /\ log[k][m] + Window > clock
    BY <1>2, <1>6
  <1>8. C = m .. n
    <2>1. \A i \in C : i \in m .. n
      BY <1>1, <1>2, <1>6, <1>7
    <2>2. ASSUME NEW i \in m .. n PROVE i \in C
      <3>1. i \in 1 .. n /\ m <= i
        BY <1>1, <1>7
      <3>2. log[k][m] <= log[k][i] /\ log[k][m] \in Nat /\ log[k][i] \in Nat
        BY <1>7, <3>1, HitTimes DEF LimiterInv, Ascending
      <3> QED
        BY <1>1, <1>2, <1>7, <3>1, <3>2
    <2> QED
      BY <2>1, <2>2
  <1>9. Cardinality(C) = n - m + 1
    <2>1. m \in Int /\ n \in Int /\ ~(m > n)
      BY <1>1, <1>7
    <2> QED
      BY <1>8, <2>1, FS_Interval
  <1>10. n - m + 1 <= Limit
    <2> SUFFICES ASSUME ~(n - m + 1 <= Limit) PROVE FALSE
      OBVIOUS
    <2>1. m + Limit \in 1 .. n /\ m + Limit <= n
      BY <1>1, <1>7
    <2>2. log[k][m + Limit] >= log[k][m] + Window
      BY <1>7, <2>1 DEF LimiterInv, Bounded
    <2>3. log[k][m + Limit] <= clock
      BY <2>1 DEF LimiterInv, Ascending
    <2>4. log[k][m] \in Nat /\ log[k][m + Limit] \in Nat
      BY <1>7, <2>1, HitTimes
    <2> QED
      BY <1>1, <1>7, <2>2, <2>3, <2>4
  <1> HIDE DEF C, m
  <1>11. Cardinality(C) >= Limit
    BY DEF C
  <1>12. n - m + 1 = Limit
    BY <1>1, <1>7, <1>9, <1>10, <1>11
  <1> QED
    BY <1>7, <1>12 DEF C, m

\* A refusal names the moment the oldest counted hit leaves the window.
LEMMA RefuseIsExact ==
    ASSUME LimiterInv, NEW k \in Keys, Refuse(k)
    PROVE  RetryAfterExact'
  <1> DEFINE n == Len(log[k])
             m == Oldest(CountedNow(k))
             wait == log[k][m] + Window - clock
  <1>1. /\ Cardinality(CountedNow(k)) >= Limit /\ UNCHANGED <<clock, log>>
        /\ answer' = [key |-> k, at |-> clock, allowed |-> FALSE, retry_after |-> wait]
    BY DEF Refuse
  <1>2. m \in 1 .. n /\ log[k][m] + Window > clock /\ n - m + 1 = Limit
    BY <1>1, CountedAreLast
  <1>3. n \in Nat /\ clock \in Nat /\ Window \in Nat \ {0} /\ Limit \in Nat \ {0} /\ log[k][m] \in Nat
    BY <1>2, HitTimes, LimiterAssumption
  <1> DEFINE In(t) == {i \in 1 .. n : log[k][i] + Window > t}
             back == log[k][m] + Window
  <1> HIDE DEF m
  <1>4. /\ answer'.key = k /\ answer'.at + answer'.retry_after = back
        /\ \A t : InWindow(k, t)' = Cardinality(In(t))
    <2>1. answer'.key = k /\ answer'.at = clock /\ answer'.retry_after = wait
      BY <1>1
    <2>2. clock + wait = back
      BY <1>3
    <2> QED
      BY <1>1, <2>1, <2>2 DEF InWindow
  <1>5. \A i, j \in 1 .. n : i <= j => log[k][i] <= log[k][j] /\ log[k][i] \in Nat /\ log[k][j] \in Nat
    BY HitTimes DEF LimiterInv, Ascending
  <1>6. Cardinality(In(back)) < Limit
    <2>1. In(back) \subseteq (m + 1) .. n
      <3> SUFFICES ASSUME NEW i \in 1 .. n, log[k][i] + Window > back PROVE i >= m + 1
        BY <1>2, <1>3
      <3>1. ~(i <= m)
        BY <1>2, <1>3, <1>5
      <3> QED
        BY <1>2, <1>3, <3>1
    <2>2. IsFiniteSet((m + 1) .. n) /\ Cardinality((m + 1) .. n) = n - m
      <3>1. m + 1 \in Int /\ n \in Int /\ (m + 1 > n => n - m = 0) /\ n - (m + 1) + 1 = n - m
        BY <1>2, <1>3
      <3> QED
        BY <3>1, FS_Interval
    <2> HIDE DEF In, back
    <2>3. IsFiniteSet(In(back)) /\ Cardinality(In(back)) <= Cardinality((m + 1) .. n)
      BY <2>1, <2>2, FS_Subset
    <2>4. Cardinality(In(back)) \in Nat
      BY <2>3, FS_CardinalityType
    <2> QED
      BY <1>2, <1>3, <2>2, <2>3, <2>4
  <1>7. Cardinality(In(back - 1)) >= Limit
    <2>1. m .. n \subseteq In(back - 1)
      <3> SUFFICES ASSUME NEW i \in m .. n PROVE i \in 1 .. n /\ log[k][i] + Window > back - 1
        OBVIOUS
      <3>1. i \in 1 .. n /\ m <= i
        BY <1>2, <1>3
      <3>2. log[k][m] <= log[k][i] /\ log[k][i] \in Nat
        BY <1>2, <1>5, <3>1
      <3> QED
        BY <1>3, <3>1, <3>2
    <2>2. IsFiniteSet(1 .. n)
      <3>1. 1 \in Int /\ n \in Int
        BY <1>3
      <3> QED
        BY <3>1, FS_Interval
    <2>3. IsFiniteSet(In(back - 1))
      BY <2>2, FS_Subset
    <2>4. Cardinality(m .. n) <= Cardinality(In(back - 1))
      BY <2>1, <2>3, FS_Subset
    <2>5. Cardinality(m .. n) = Limit
      <3>1. m \in Int /\ n \in Int /\ ~(m > n)
        BY <1>2, <1>3
      <3> QED
        BY <1>2, <3>1, FS_Interval
    <2> QED
      BY <2>4, <2>5
  <1> HIDE DEF In, back
  <1> QED
    BY <1>4, <1>6, <1>7 DEF RetryAfterExact

LEMMA ExactNext == LimiterInv /\ RetryAfterExact /\ [Next]_vars => RetryAfterExact'
  <1> SUFFICES ASSUME LimiterInv, RetryAfterExact, [Next]_vars PROVE RetryAfterExact'
    OBVIOUS
  <1>1. ASSUME NEW k \in Keys, Admit(k) PROVE RetryAfterExact'
    BY <1>1 DEF Admit, RetryAfterExact
  <1>2. ASSUME NEW k \in Keys, Refuse(k) PROVE RetryAfterExact'
    BY <1>2, RefuseIsExact
  <1>3. CASE Tick \/ UNCHANGED vars
    <2>1. UNCHANGED <<answer, log>>
      BY <1>3 DEF Tick, vars
    <2> QED
      BY <2>1 DEF RetryAfterExact, InWindow
  <1> QED
    BY <1>1, <1>2, <1>3 DEF Next

(***************************************************************************)
(* A refused caller who waits for as long as hit() says is let in if       *)
(* nobody else came, and who comes any earlier is not.                     *)
(***************************************************************************)
THEOREM ExactTheorem == Spec => []RetryAfterExact
  <1>1. Init => RetryAfterExact
    BY DEF Init, NoAnswer, RetryAfterExact
  <1> QED
    BY <1>1, LimiterInit, LimiterNext, ExactNext, PTL DEF Spec

\* Every key held was let in less than a window before the last sweep, and the
\* last answer is less than a window after it.
SweptInv ==
    /\ last_sweep \in Nat /\ last_sweep <= clock /\ answer.at \in Nat
    /\ \A k \in DOMAIN hits :
         /\ \E i \in hits[k] : log[k][i] + Window > last_sweep
         /\ answer.at < last_sweep + Window

\* A hit saves hits that are inside the window for its key, and the sweep, when
\* one is due, leaves no key without one.
LEMMA SavedIsSwept ==
    ASSUME LimiterInv, SweptInv, NEW k \in Keys, NEW counted, Save(k, counted),
           UNCHANGED clock, answer'.at = clock,
           \E i \in counted : log'[k][i] \in Nat /\ log'[k][i] + Window > clock,
           \A x \in Keys : \A i \in 1 .. Len(log[x]) : log'[x][i] = log[x][i]
    PROVE  SweptInv'
  <1>1. clock \in Nat /\ Window \in Nat \ {0} /\ last_sweep \in Nat
    BY LimiterAssumption DEF LimiterInv, StateOK, SweptInv
  <1>2. \A x \in DOMAIN hits' : x # k => x \in Kept /\ hits'[x] = hits[x]
    BY DEF Save
  <1>3. hits'[k] = counted
    BY DEF Save
  <1>4. last_sweep' = IF SweepDue THEN clock ELSE last_sweep
    BY DEF Save
  <1>5. clock < last_sweep' + Window /\ last_sweep' \in Nat
    BY <1>1, <1>4 DEF SweepDue
  <1>6. last_sweep' <= clock
    BY <1>1, <1>4 DEF SweptInv
  <1>7. ASSUME NEW x \in DOMAIN hits' PROVE \E i \in hits'[x] : log'[x][i] + Window > last_sweep'
    <2>1. CASE x = k
      <3>1. PICK i \in counted : log'[k][i] \in Nat /\ log'[k][i] + Window > clock
        OBVIOUS
      <3>2. log'[k][i] + Window > last_sweep'
        BY <1>1, <1>5, <1>6, <3>1
      <3> QED
        BY <1>3, <2>1, <3>1, <3>2
    <2>2. CASE x # k
      <3>1. x \in Kept /\ x \in DOMAIN hits /\ hits'[x] = hits[x] /\ x \in Keys
        BY <1>2, <2>2 DEF Kept, LimiterInv, StateOK
      <3>2. hits[x] \subseteq 1 .. Len(log[x])
        BY <3>1 DEF LimiterInv, StateOK
      <3>3. CASE SweepDue
        <4>1. PICK i \in hits[x] : log[x][i] + Window > clock
          BY <3>1, <3>3 DEF Kept, Recent, Counted
        <4> QED
          BY <1>4, <3>1, <3>2, <3>3, <4>1
      <3>4. CASE ~SweepDue
        <4>1. PICK i \in hits[x] : log[x][i] + Window > last_sweep
          BY <3>1 DEF SweptInv
        <4> QED
          BY <1>4, <3>1, <3>2, <3>4, <4>1
      <3> QED
        BY <3>3, <3>4
    <2> QED
      BY <2>1, <2>2
  <1> QED
    BY <1>1, <1>5, <1>6, <1>7 DEF SweptInv

LEMMA AdmitSwept == ASSUME LimiterInv, SweptInv, NEW k \in Keys, Admit(k) PROVE SweptInv'
  <1> DEFINE n == Len(log[k]) + 1
  <1>1. /\ Save(k, CountedNow(k) \cup {n}) /\ UNCHANGED clock /\ answer'.at = clock
        /\ log' = [log EXCEPT ![k] = Append(log[k], clock)]
    BY DEF Admit
  <1>2. /\ log \in [Keys -> Seq(Nat)] /\ clock \in Nat /\ Window \in Nat \ {0}
    BY LimiterAssumption DEF LimiterInv, StateOK
  <1>3. /\ log'[k][n] = clock /\ clock + Window > clock
        /\ \A x \in Keys : \A i \in 1 .. Len(log[x]) : log'[x][i] = log[x][i]
    BY <1>1, <1>2
  <1> HIDE DEF n
  <1>4. \E i \in CountedNow(k) \cup {n} : log'[k][i] \in Nat /\ log'[k][i] + Window > clock
    BY <1>2, <1>3
  <1> QED
    BY <1>1, <1>3, <1>4, SavedIsSwept

LEMMA RefuseSwept == ASSUME LimiterInv, SweptInv, NEW k \in Keys, Refuse(k) PROVE SweptInv'
  <1>1. /\ Save(k, CountedNow(k)) /\ UNCHANGED <<clock, log>> /\ answer'.at = clock
        /\ Cardinality(CountedNow(k)) >= Limit
    BY DEF Refuse
  <1>2. \E i \in CountedNow(k) : log'[k][i] \in Nat /\ log'[k][i] + Window > clock
    <2>1. CountedNow(k) # {}
      <3>1. CountedNow(k) = {} => Cardinality(CountedNow(k)) = 0
        BY FS_EmptySet
      <3>2. ~(0 >= Limit)
        BY LimiterAssumption
      <3> QED
        BY <1>1, <3>1, <3>2
    <2> QED
      BY <1>1, <2>1, CountedNowIsRecent, HitTimes
  <1> QED
    BY <1>1, <1>2, SavedIsSwept

LEMMA SweptNext == LimiterInv /\ SweptInv /\ [Next]_vars => SweptInv'
  <1> SUFFICES ASSUME LimiterInv, SweptInv, [Next]_vars PROVE SweptInv'
    OBVIOUS
  <1>1. ASSUME NEW k \in Keys, Admit(k) PROVE SweptInv'
    BY <1>1, AdmitSwept
  <1>2. ASSUME NEW k \in Keys, Refuse(k) PROVE SweptInv'
    BY <1>2, RefuseSwept
  <1>3. CASE Tick \/ UNCHANGED vars
    <2>1. UNCHANGED <<hits, last_sweep, log, answer>> /\ clock' \in {clock, clock + 1}
      BY <1>3 DEF Tick, vars
    <2>2. last_sweep <= clock'
      BY <2>1 DEF SweptInv, LimiterInv, StateOK
    <2> QED
      BY <2>1, <2>2 DEF SweptInv
  <1> QED
    BY <1>1, <1>2, <1>3 DEF Next

LEMMA SweptIsRecent == LimiterInv /\ SweptInv => HeldKeysAreRecent
  <1> SUFFICES ASSUME LimiterInv, SweptInv, NEW k \in DOMAIN hits
               PROVE  \E i \in hits[k] : log[k][i] + 2 * Window > answer.at
    BY DEF HeldKeysAreRecent
  <1>1. PICK i \in hits[k] : log[k][i] + Window > last_sweep
    BY DEF SweptInv
  <1>2. k \in Keys /\ i \in 1 .. Len(log[k])
    BY DEF LimiterInv, StateOK
  <1>3. /\ log[k][i] \in Nat /\ Window \in Nat /\ last_sweep \in Nat /\ answer.at \in Nat
        /\ answer.at < last_sweep + Window
    BY <1>2, HitTimes DEF SweptInv
  <1>4. log[k][i] + 2 * Window > answer.at
    BY <1>1, <1>3
  <1> QED
    BY <1>4

(***************************************************************************)
(* "Memory follows the number of recently active keys": after every call   *)
(* of hit() the map holds only keys let in within the last two windows.    *)
(***************************************************************************)
THEOREM RecentTheorem == Spec => []HeldKeysAreRecent
  <1>1. Init => SweptInv
    BY LimiterAssumption DEF Init, NoAnswer, SweptInv
  <1> QED
    BY <1>1, LimiterInit, LimiterNext, SweptNext, SweptIsRecent, PTL DEF Spec
=============================================================================
