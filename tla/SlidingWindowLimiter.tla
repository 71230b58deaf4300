------------------------ MODULE SlidingWindowLimiter ------------------------
(***************************************************************************)
(* The limiter of lib/sliding_window_limiter.ts: at most Limit hits per    *)
(* key in any Window, counted from the hits' own times.                    *)
(*                                                                         *)
(* The limiter keeps, for each key of its map, the list of the times of    *)
(* the hits it still counts.  Here the n-th hit it let in for a key is the *)
(* number n, log says when it was, and a list is a set of such numbers.    *)
(***************************************************************************)
EXTENDS Naturals, Sequences, FiniteSets

CONSTANTS
    Keys,
    Limit,
    Window, \* window_ms
    Start,  \* the clock when the process starts
    MaxTime \* bound on the clock

ASSUME LimiterAssumption ==
    /\ Limit \in Nat \ {0}
    /\ Window \in Nat \ {0}
    /\ Start \in Nat /\ Start >= Window
    /\ MaxTime \in Nat

VARIABLES
    clock,
    hits,       \* _hits: a function on the keys held
    last_sweep, \* _last_sweep
    log,        \* history: the times of all hits let in, per key
    answer      \* the last LimitResult, with its key and time

vars == <<clock, hits, last_sweep, log, answer>>

Answer == [key : Keys, at : Nat, allowed : BOOLEAN, retry_after : 0 .. Window]

NoAnswer == [allowed |-> TRUE, at |-> Start]

Init ==
    /\ clock = Start
    /\ hits = [k \in {} |-> {}]
    /\ last_sweep = 0
    /\ log = [k \in Keys |-> <<>>]
    /\ answer = NoAnswer

Counted(k) == IF k \in DOMAIN hits THEN hits[k] ELSE {}

\* Mutant: t >= since.
RecentInclusive(k) == {i \in Counted(k) : log[k][i] + Window >= clock}

\* The hits of k inside the window that ends now.
Recent(k) == {i \in Counted(k) : log[k][i] + Window > clock}

SweepDue == clock >= last_sweep + Window

\* Mutant: keeps a key only when each of its hits is inside the window.
KeptWhole ==
    IF SweepDue THEN {k \in DOMAIN hits : Recent(k) = hits[k]} ELSE DOMAIN hits

\* Mutant: drops only the keys whose list is empty.
KeptUnlessEmpty ==
    IF SweepDue THEN {k \in DOMAIN hits : hits[k] # {}} ELSE DOMAIN hits

\* The keys that stay in the map through _sweep.
Kept == IF SweepDue THEN {k \in DOMAIN hits : Recent(k) # {}} ELSE DOMAIN hits

\* hit(k) sweeps and then saves these hits for k.
Save(k, counted) ==
    /\ hits' = [x \in Kept \cup {k} |-> IF x = k THEN counted ELSE hits[x]]
    /\ last_sweep' = IF SweepDue THEN clock ELSE last_sweep

\* The hits of k that hit counts: none when the sweep has just dropped k.
CountedNow(k) == IF k \in Kept THEN Recent(k) ELSE {}

Admit(k) ==
    /\ Cardinality(CountedNow(k)) < Limit
    /\ Save(k, CountedNow(k) \cup {Len(log[k]) + 1})
    /\ log' = [log EXCEPT ![k] = Append(log[k], clock)]
    /\ answer' = [key |-> k, at |-> clock, allowed |-> TRUE, retry_after |-> 0]
    /\ UNCHANGED clock

\* hits[0].
Oldest(counted) == CHOOSE i \in counted : \A j \in counted : i <= j

\* Mutant: the wait is that of the newest hit.
RefuseUntilNewest(k) ==
    /\ Cardinality(CountedNow(k)) >= Limit
    /\ Save(k, CountedNow(k))
    /\ answer' = [key |-> k, at |-> clock, allowed |-> FALSE,
                  retry_after |-> log[k][Len(log[k])] + Window - clock]
    /\ UNCHANGED <<clock, log>>

Refuse(k) ==
    /\ Cardinality(CountedNow(k)) >= Limit
    /\ Save(k, CountedNow(k))
    /\ answer' = [key |-> k, at |-> clock, allowed |-> FALSE,
                  retry_after |-> log[k][Oldest(CountedNow(k))] + Window - clock]
    /\ UNCHANGED <<clock, log>>

Tick ==
    /\ clock < MaxTime
    /\ clock' = clock + 1
    /\ UNCHANGED <<hits, last_sweep, log, answer>>

Next ==
    \/ \E k \in Keys : Admit(k) \/ Refuse(k)
    \/ Tick

Spec == Init /\ [][Next]_vars

(***************************************************************************)
(* Properties.                                                             *)
(***************************************************************************)
TypeOK ==
    /\ clock \in Nat
    /\ DOMAIN hits \subseteq Keys
    /\ \A k \in DOMAIN hits : hits[k] \subseteq 1 .. Len(log[k])
    /\ last_sweep \in Nat
    /\ log \in [Keys -> Seq(Nat)]
    /\ answer \in Answer \cup {NoAnswer}
    /\ ~answer.allowed => answer.retry_after > 0

(***************************************************************************)
(* "At most limit hits per key in any window_ms span, counted from the     *)
(* hits' own times" (lines 2-3): Limit + 1 hits let in span a window at    *)
(* least, also when the key was dropped from the map in between.           *)
(***************************************************************************)
AtMostLimitPerWindow ==
    \A k \in Keys : \A i \in 1 .. Len(log[k]) :
        i + Limit <= Len(log[k]) => log[k][i + Limit] >= log[k][i] + Window

\* How many of all the hits let in for k are in the window that ends at t.
InWindow(k, t) == Cardinality({i \in 1 .. Len(log[k]) : log[k][i] + Window > t})

(***************************************************************************)
(* retry_after_ms is exact (lines 13 and 34-35): a refused caller who      *)
(* waits that long is let in if nobody else came, and who comes any        *)
(* earlier is not.                                                         *)
(***************************************************************************)
RetryAfterExact ==
    ~answer.allowed =>
        LET back == answer.at + answer.retry_after IN
        /\ InWindow(answer.key, back) < Limit
        /\ InWindow(answer.key, back - 1) >= Limit

(***************************************************************************)
(* "Memory follows the number of recently active keys" (lines 6-7): when   *)
(* hit has answered, every key held was let in within the last two         *)
(* windows.                                                                *)
(***************************************************************************)
HeldKeysAreRecent ==
    \A k \in DOMAIN hits : \E i \in hits[k] : log[k][i] + 2 * Window > answer.at
=============================================================================
