------------------------------ MODULE RateLimit ------------------------------
(***************************************************************************)
(* The limiter of the builder route, middleware/rate_limit.ts: one counter *)
(* per caller and window, windows that begin with the first request after  *)
(* the last one ended, and a timer that drops counters of past windows.    *)
(***************************************************************************)
EXTENDS Naturals, Sequences

CONSTANTS
    Callers,    \* keys: address, user and path
    LimitOf,    \* rate_limit_builder_auth or rate_limit_builder_anon of each, at least 1
    Window,     \* rate_limit_window_ms
    Second,     \* a second, in units of the clock
    Start,
    MaxTime,    \* bound on the clock
    MaxCount    \* bound on the requests counted in one window

VARIABLES
    clock,
    buckets, \* a function on the callers held
    passed,  \* history: the times of the requests let through
    refused  \* the last 429: its caller, time and Retry-After

vars == <<clock, buckets, passed, refused>>

WindowEntry == [count : Nat, reset_at : Nat]

NoRefusal == [at |-> Start]

Init ==
    /\ clock = Start
    /\ buckets = [c \in {} |-> {}]
    /\ passed = [c \in Callers |-> <<>>]
    /\ refused = NoRefusal

\* The window the request of c falls in.
Entry(c) ==
    IF c \in DOMAIN buckets /\ buckets[c].reset_at > clock
       THEN buckets[c]
       ELSE [count |-> 0, reset_at |-> clock + Window]

\* Counts the request, let through or not.
Count(c) ==
    /\ Entry(c).count < MaxCount
    /\ buckets' = [x \in DOMAIN buckets \cup {c} |->
                      IF x = c THEN [Entry(c) EXCEPT !.count = Entry(c).count + 1] ELSE buckets[x]]

Pass(c) ==
    /\ Entry(c).count + 1 <= LimitOf[c]
    /\ Count(c)
    /\ passed' = [passed EXCEPT ![c] = Append(passed[c], clock)]
    /\ UNCHANGED <<clock, refused>>

\* Math.ceil, in seconds.
Ceil(duration) == (duration + Second - 1) \div Second

\* Mutant: Math.floor.
RefuseFloor(c) ==
    /\ Entry(c).count + 1 > LimitOf[c]
    /\ Count(c)
    /\ refused' = [caller |-> c, at |-> clock,
                   retry_after |-> (Entry(c).reset_at - clock) \div Second]
    /\ UNCHANGED <<clock, passed>>

Refuse(c) ==
    /\ Entry(c).count + 1 > LimitOf[c]
    /\ Count(c)
    /\ refused' = [caller |-> c, at |-> clock, retry_after |-> Ceil(Entry(c).reset_at - clock)]
    /\ UNCHANGED <<clock, passed>>

\* Mutant: drops the counters of windows that have not ended.
PurgeEarly ==
    /\ buckets' = [c \in {x \in DOMAIN buckets : buckets[x].reset_at <= clock + 1} |-> buckets[c]]
    /\ UNCHANGED <<clock, passed, refused>>

\* The timer.
Purge ==
    /\ buckets' = [c \in {x \in DOMAIN buckets : buckets[x].reset_at > clock} |-> buckets[c]]
    /\ UNCHANGED <<clock, passed, refused>>

Tick ==
    /\ clock < MaxTime
    /\ clock' = clock + 1
    /\ UNCHANGED <<buckets, passed, refused>>

Next ==
    \/ \E c \in Callers : Pass(c) \/ Refuse(c)
    \/ Purge
    \/ Tick

Spec == Init /\ [][Next]_vars

(***************************************************************************)
(* Properties.                                                             *)
(***************************************************************************)
TypeOK ==
    /\ clock \in Nat
    /\ DOMAIN buckets \subseteq Callers
    /\ \A c \in DOMAIN buckets : buckets[c] \in WindowEntry
    /\ passed \in [Callers -> Seq(Nat)]
    /\ refused \in [caller : Callers, at : Nat, retry_after : Nat \ {0}] \cup {NoRefusal}

(***************************************************************************)
(* Windows are fixed, so a caller may pass its limit twice around the end  *)
(* of one, but never a third time within a window's length, whenever the   *)
(* timer drops counters.                                                   *)
(***************************************************************************)
AtMostTwiceTheLimit ==
    \A c \in Callers : \A i \in 1 .. Len(passed[c]) :
        i + 2 * LimitOf[c] <= Len(passed[c]) =>
            passed[c][i + 2 * LimitOf[c]] > passed[c][i] + Window

(***************************************************************************)
(* Of two refusals of a caller with no other refusal between them, the     *)
(* second comes before the time the first told the caller to wait for, or  *)
(* the caller was let through since: rounded up to seconds, the            *)
(* Retry-After never ends before the window that refused.                  *)
(***************************************************************************)
RetryAfterIsEnough ==
    [][\A c \in Callers :
        /\ refused # NoRefusal /\ refused.caller = c
        /\ refused' # refused /\ refused'.caller = c
        /\ clock >= refused.at + refused.retry_after * Second
        => \E i \in 1 .. Len(passed[c]) : passed[c][i] > refused.at]_vars
=============================================================================
