-------------------------------- MODULE RunTime --------------------------------
(***************************************************************************)
(* Where the time of a run went: the spans of its agents, which overlap,   *)
(* counted once each millisecond, and what none of them covers             *)
(* (services/run_telemetry_service.ts).                                    *)
(***************************************************************************)
EXTENDS Integers, SequencesExt, FiniteSetsExt

CONSTANTS
    Begun,      \* when the run started, or NotKnown
    Ended,      \* when it completed, or NotKnown
    Spans,      \* the agents' spans: sequences of records kind, start, end
    Now,        \* the time of the request
    NotKnown

VARIABLES
    run,        \* when the run started and completed, and whether it is live
    bars,       \* the spans in the order Core gave them
    time        \* the answer, or none

vars == <<run, bars, time>>

TypeOK == time = <<>> \/ \A part \in {"working", "people", "gates", "other", "queued", "covered"} : time[part] \in Nat

Init ==
    /\ run \in [started_at : Begun, completed_at : Ended, live : BOOLEAN]
    /\ bars \in Spans /\ time = <<>>

\* A span that has not ended, or ended before it began, lasts until now.
EndOf(bar) == IF bar.end # NotKnown /\ bar.end >= bar.start THEN bar.end ELSE Now

Extended(cur, span) == [cur EXCEPT !.to = IF span[2] > cur.to THEN span[2] ELSE cur.to]

\* The spans by their start; a span that begins after the last one ended starts
\* a new stretch.
union_ms(spans) ==
    LET Sweep(cur, span) ==
            IF span[1] > cur.to THEN [sum |-> cur.sum + cur.to - cur.from, from |-> span[1], to |-> span[2]]
            ELSE Extended(cur, span)
        swept == FoldLeft(Sweep, [sum |-> 0, from |-> -1, to |-> -1],
                          SortSeq(SelectSeq(spans, LAMBDA span : span[2] > span[1]), LAMBDA a, b : a[1] < b[1]))
    IN  swept.sum + swept.to - swept.from

iv(kinds) ==
    LET some == SelectSeq(bars, LAMBDA bar : bar.kind \in kinds)
    IN  [i \in DOMAIN some |-> <<some[i].start, EndOf(some[i])>>]

Kinds == {"llm", "builder", "custom", "human", "gate", "shell", "connector"}

\* The run's window, from its row or else from its spans.
t0 ==
    CASE run.started_at # NotKnown -> run.started_at
      [] run.started_at = NotKnown /\ bars # <<>> -> Min({bars[i].start : i \in DOMAIN bars})
      [] OTHER -> NotKnown
t1 ==
    CASE run.completed_at # NotKnown -> run.completed_at
      [] run.completed_at = NotKnown /\ run.live -> Now
      [] run.completed_at = NotKnown /\ ~run.live /\ bars # <<>> -> Max({EndOf(bars[i]) : i \in DOMAIN bars})
      [] OTHER -> NotKnown

duration == IF t0 = NotKnown \/ t1 = NotKnown THEN NotKnown ELSE Max({0, t1 - t0})

get ==
    /\ time = <<>>
    /\ time' = [working |-> union_ms(iv({"llm", "builder", "custom"})), people |-> union_ms(iv({"human"})),
                gates |-> union_ms(iv({"gate"})), other |-> union_ms(iv({"shell", "connector"})),
                covered |-> union_ms(iv(Kinds)),
                queued |-> IF duration = NotKnown \/ bars = <<>> THEN 0 ELSE Max({0, duration - union_ms(iv(Kinds))})]
    /\ UNCHANGED <<run, bars>>

Next == get

Spec == Init /\ [][Next]_vars

-----------------------------------------------------------------------------
\* The milliseconds in which some agent of these kinds ran.
Ran(kinds) == UNION {bars[i].start..EndOf(bars[i]) - 1 : i \in {j \in DOMAIN bars : bars[j].kind \in kinds}}

\* Each kind's time is every millisecond one of its agents ran, once, however
\* they overlap; and where the spans lie in the run's window, what is queued is
\* what remains of it (get, union_ms).
TimeAddsUp ==
    time # <<>> =>
        /\ time.working = Cardinality(Ran({"llm", "builder", "custom"}))
        /\ time.people = Cardinality(Ran({"human"}))
        /\ time.gates = Cardinality(Ran({"gate"}))
        /\ time.other = Cardinality(Ran({"shell", "connector"}))
        /\ bars # <<>> /\ duration # NotKnown /\ Ran(Kinds) \subseteq t0..t1 - 1 =>
             time.queued = Cardinality((t0..t1 - 1) \ Ran(Kinds))
=============================================================================
