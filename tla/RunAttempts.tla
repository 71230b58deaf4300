----------------------------- MODULE RunAttempts -----------------------------
(***************************************************************************)
(* The attempts of a run as its page tells them from the run's history     *)
(* (mappers/run_detail_mapper.ts).  A resume keeps the run's id: Core and  *)
(* the daemon each report the run's turns, and a report may come twice,    *)
(* late or never.  A tick is the time two reports of one turn may lie      *)
(* apart (SAME_TRANSITION_MS).                                             *)
(***************************************************************************)
EXTENDS Naturals, FiniteSetsExt, SequencesExt

CONSTANTS
    MaxAttempts,    \* bound: the attempts of the run
    MaxAsks,        \* bound: the requests to resume it
    MaxTime         \* bound: the clock

VARIABLES
    now,
    truth,      \* how each attempt of the run stands; the last one is the row's
    pending,    \* the reports of the last turn that have not landed
    since,      \* when the run last turned
    seen,       \* what the reports that landed tell: the attempts, and what opened
                \* the last one
    requests,   \* the requests to resume: which attempt each led to, and when
    lost        \* the reports that never come

vars == <<now, truth, pending, since, seen, requests, lost>>

Same == 1
Ends == {"completed", "failed"}
None == 0

TypeOK ==
    /\ now \in 0..MaxTime /\ since \in 0..now
    /\ truth \in Seq(Ends \cup {"running"}) /\ Len(truth) \in 1..MaxAttempts
    /\ \A e \in pending \cup lost : e.event \in Ends \cup {"started", "resumed"} /\ e.n \in 1..MaxAttempts
    /\ Len(seen.list) <= MaxAttempts

Report(event, n) == [event |-> event, n |-> n]

Init ==
    /\ now = 0 /\ truth = <<"running">> /\ since = 0
    /\ pending = {Report("started", 1)} /\ seen = [list |-> <<>>, by |-> "started"] /\ requests = {}
    /\ lost = {}

-----------------------------------------------------------------------------
\* The history is folded into attempts, the oldest report first; here each as it
\* lands.

NotYet == MaxTime + 1

Opened(known, ev, by) ==
    [list |-> Append(known.list, [state |-> "running", started |-> ev.at, ended |-> NotYet, from |-> ev.from]), by |-> by]

Open(known) == known.list # <<>> /\ Last(known.list).ended = NotYet

\* The report's attempt with what it tells of it.
Amended(known, changed, by) == [list |-> [known.list EXCEPT ![Len(known.list)] = changed], by |-> by]

OnStarted(known, ev) == IF Open(known) THEN known ELSE Opened(known, ev, "started")

\* Mutant: the start of the same resume is not recognised.
OnResumed_Twice(known, ev) ==
    LET cur == Last(known.list) IN
    CASE ~Open(known) -> Opened(known, ev, "resumed")
      [] OTHER -> Opened(Amended(known, [cur EXCEPT !.state = "unknown", !.ended = ev.at], known.by), ev, "resumed")

\* The start of this resume came first; the report came before; or the end of
\* the attempt before was lost.
OnResumed(known, ev) ==
    LET cur == Last(known.list) IN
    CASE ~Open(known) -> Opened(known, ev, "resumed")
      [] Open(known) /\ known.by = "started" /\ Len(known.list) > 1 /\ cur.from = None ->
           Amended(known, [cur EXCEPT !.from = ev.from], "resumed")
      [] Open(known) /\ known.by = "resumed" /\ ev.at <= cur.started + Same -> known
      [] OTHER -> Opened(Amended(known, [cur EXCEPT !.state = "unknown", !.ended = ev.at], known.by), ev, "resumed")

\* The first report of an end counts; one of a run never seen to start opens it.
OnEnd(known, ev) ==
    LET begun == IF known.list = <<>> THEN Opened(known, [ev EXCEPT !.from = None], "started") ELSE known
    IN  IF Open(begun) THEN Amended(begun, [Last(begun.list) EXCEPT !.state = ev.event, !.ended = ev.at], begun.by)
        ELSE begun

Told(known, ev) ==
    CASE ev.event = "started" -> OnStarted(known, ev)
      [] ev.event = "resumed" -> OnResumed(known, ev)
      [] OTHER -> OnEnd(known, ev)

-----------------------------------------------------------------------------
\* The run and its reports.

Tick ==
    /\ now < MaxTime /\ (pending = {} \/ now < since + Same)
    /\ now' = now + 1
    /\ UNCHANGED <<truth, pending, since, seen, requests, lost>>

\* The reports of one turn land before the next: the code takes it for granted.
Turn(reports) ==
    /\ pending = {}
    /\ pending' = reports /\ since' = now
    /\ UNCHANGED <<now, seen, lost>>

End(state) ==
    /\ Last(truth) = "running"
    /\ truth' = [truth EXCEPT ![Len(truth)] = state]
    /\ Turn({Report(state, Len(truth))})
    /\ UNCHANGED requests

\* A user asks for a resume, and may ask again before it starts.
Ask ==
    /\ Last(truth) = "failed" /\ Len(truth) < MaxAttempts /\ Cardinality(requests) < MaxAsks
    /\ requests' = requests \cup {[n |-> Len(truth) + 1, at |-> now]}
    /\ UNCHANGED <<now, truth, pending, since, seen, lost>>

\* Core re-emits the start and the daemon reports the resume.
Resume ==
    /\ Last(truth) = "failed" /\ \E r \in requests : r.n = Len(truth) + 1
    /\ truth' = Append(truth, "running")
    /\ now > since + Same
    /\ Turn({Report("started", Len(truth) + 1), Report("resumed", Len(truth) + 1)})
    /\ UNCHANGED requests

\* A report lands; it may come again.
Land ==
    /\ \E e \in pending :
         /\ seen' = Told(seen, [event |-> e.event, from |-> IF e.event = "resumed" THEN e.n ELSE None, at |-> now])
         /\ pending' \in {pending, pending \ {e}}
    /\ UNCHANGED <<now, truth, since, requests, lost>>

Lose ==
    /\ \E e \in pending : pending' = pending \ {e} /\ lost' = lost \cup {e}
    /\ UNCHANGED <<now, truth, since, seen, requests>>

\* A daemon that registers again starts its run again.
Reregister ==
    /\ Last(truth) = "running" /\ pending = {}
    /\ seen' = OnStarted(seen, [event |-> "started", from |-> None, at |-> now])
    /\ UNCHANGED <<now, truth, pending, since, requests, lost>>

Next == Tick \/ (\E state \in Ends : End(state)) \/ Ask \/ Resume \/ Land \/ Lose \/ Reregister

Spec == Init /\ [][Next]_vars

-----------------------------------------------------------------------------
\* The attempts the page shows.

\* A row that is not known to be live ends the last attempt.
settle_last(list, row) ==
    IF Last(list).ended = NotYet /\ row # "running"
    THEN [list EXCEPT ![Len(list)] = [Last(list) EXCEPT !.state = row, !.ended = now]]
    ELSE list

\* A live row after the last end: a resume that was not reported.
to_run_attempts_data ==
    LET live == ~Open(seen) /\ Last(truth) = "running"
    IN  IF seen.list = <<>> THEN <<>>
        ELSE settle_last(IF live THEN Opened(seen, [at |-> NotYet, from |-> None], "started").list ELSE seen.list, Last(truth))

\* The last request made between the end before an attempt and its start.
Requester(list, n) ==
    LET fit == {r.n : r \in {q \in requests : list[n - 1].ended <= q.at /\ q.at <= list[n].started + Same}}
    IN  IF n = 1 \/ fit = {} THEN None ELSE Max(fit)

to_run_attempts_from_history ==
    LET list == to_run_attempts_data
    IN  [n \in DOMAIN list |->
            [state |-> list[n].state, resumed_by |-> Requester(list, n),
             from |-> IF list[n].from = None THEN Requester(list, n) ELSE list[n].from]]

-----------------------------------------------------------------------------
Missed(event, n) == Report(event, n) \in lost

\* Each start was reported by someone.
StartsReported == ~Missed("started", 1) /\ \A n \in 2..Len(truth) : ~Missed("started", n) \/ ~Missed("resumed", n)

\* And either every end was or every start was by all.
Reported ==
    /\ StartsReported
    /\ \/ \A n \in DOMAIN truth, state \in Ends : ~Missed(state, n)
       \/ \A n \in DOMAIN truth : ~Missed("started", n) /\ ~Missed("resumed", n)

\* An attempt was only asked for before its predecessor was reported to have ended.
AskedBeforeEnd(n) ==
    \A r \in requests : r.n = n => r.at < to_run_attempts_data[n - 1].ended

\* However often, in whatever order and with which losses the reports of each
\* turn came, as long as they came before the next one: the page shows no
\* attempt that was not; if every start was reported the last is as the run's
\* row is; and if of each turn enough was reported, it shows every attempt with
\* its end (one that was never reported as unknown), where it resumed from and
\* who asked for it, unless that was before the end was reported or a later one was
\* asked for within the slack allowed to clocks (to_run_attempts_from_history).
AttemptsAreTheRuns ==
    LET list == to_run_attempts_from_history IN
    pending = {} /\ list # <<>> =>
        /\ Len(list) <= Len(truth)
        /\ StartsReported => Last(list).state = Last(truth)
        /\ Reported =>
             /\ Len(list) = Len(truth)
             /\ \A n \in DOMAIN list :
                  /\ list[n].state \in {truth[n]} \cup (IF Missed(truth[n], n) THEN {"unknown"} ELSE {})
                  /\ n > 1 /\ ~Missed("resumed", n) => list[n].from = n
                  /\ n > 1 => \/ list[n].resumed_by = n
                              \/ list[n].resumed_by = None /\ AskedBeforeEnd(n)
                              \/ list[n].resumed_by > n /\ \E r \in requests : list[n].resumed_by = r.n
=============================================================================
