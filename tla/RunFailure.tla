------------------------------ MODULE RunFailure ------------------------------
(***************************************************************************)
(* Why a run failed: from the run down to the sub-run that broke it, the   *)
(* error found there, the review behind it, and where to resume            *)
(* (services/run_failure.ts).                                              *)
(***************************************************************************)
EXTENDS Integers, SequencesExt

CONSTANTS
    Depths,         \* 0..n: the run and the sub-runs that broke, one in the other
    MAX_DEPTH,
    Facts           \* what is known of each run: a set of functions of Depths

VARIABLES
    runs,           \* of each run: its state, whether a phase of it broke, whether
                    \* a sub-run of that phase did, and which errors are recorded
    cur,            \* the run the walk is at
    rows,           \* whether its phases are known
    chain,          \* the answer: the runs, each with its phase or without
    pc,
    read_hug,       \* what the review said, when its Hug was read
    failure         \* the answer, or none

vars == <<runs, cur, rows, chain, pc, read_hug, failure>>

None == -1
Stopped == {"failed", "crashed", "cancelled"}
Broke == {"failed", "crashed"}

\* What an error reads like, in the order the texts are tried; "review" names
\* the Hug of a review.
Wordings == {"daemon", "review timed out", "rejected", "escalating", "exhausted", "401", "missing", "timed out", "exit", "other"}
Reviews == {"expired", "rejected", "pending"}
ReviewReasons == {"review_timed_out", "review_rejected", "review_escalated"}

TypeOK ==
    /\ cur \in Depths /\ rows \in BOOLEAN /\ pc \in {"walking", "review", "done"}
    /\ \A i \in DOMAIN chain : chain[i].run \in Depths
    /\ read_hug \in Reviews \cup {"none"}

Init ==
    /\ runs \in Facts
    /\ cur = 0 /\ rows = TRUE /\ chain = <<>> /\ pc = "walking" /\ read_hug = "none" /\ failure = <<>>

\* A run that has not stopped has no failure.
NotStopped ==
    /\ pc = "walking" /\ chain = <<>> /\ runs[0].state \notin Stopped
    /\ pc' = "done"
    /\ UNCHANGED <<runs, cur, rows, chain, read_hug, failure>>

Hop(r, phase) == [run |-> r, phase |-> phase]
Child(r) == runs[r].broke /\ r + 1 \in Depths /\ runs[r].child /\ runs[r + 1].state \in Broke

\* The run whose failed phase is the last one found.
BrokeAt(r, known) == IF known /\ runs[r].broke THEN r ELSE None

\* One hop down, to a sub-run that is read or not.
Hops ==
    /\ pc = "walking" /\ runs[0].state \in Stopped /\ rows
    /\ Child(cur) /\ cur < MAX_DEPTH
    /\ cur' = cur + 1
    /\ \/ rows' = TRUE /\ chain' = Append(chain, Hop(cur, runs[cur].broke)) /\ pc' = pc
       \/ rows' = FALSE /\ chain' = chain \o <<Hop(cur, runs[cur].broke), Hop(cur + 1, FALSE)>> /\ pc' = "review"
    /\ UNCHANGED <<runs, read_hug, failure>>

Bottom ==
    /\ pc = "walking" /\ runs[0].state \in Stopped /\ rows
    /\ ~Child(cur) \/ cur = MAX_DEPTH
    /\ chain' = Append(chain, Hop(cur, runs[cur].broke)) /\ pc' = "review"
    /\ UNCHANGED <<runs, cur, rows, read_hug, failure>>

\* Mutant: the run asked for comes before the one that broke.
ErrorOf_Top ==
    LET broke == BrokeAt(cur, rows) IN
    CASE broke # None /\ runs[broke].phase_error # "none" -> runs[broke].phase_error
      [] (broke = None \/ runs[broke].phase_error = "none") /\ runs[0].error # "none" -> runs[0].error
      [] OTHER -> runs[cur].error

\* Whose error is shown: the failed phase's, its run's, or the run's asked for.
ErrorOf ==
    LET broke == BrokeAt(cur, rows) IN
    CASE broke # None /\ runs[broke].phase_error # "none" -> runs[broke].phase_error
      [] (broke = None \/ runs[broke].phase_error = "none") /\ runs[cur].error # "none" -> runs[cur].error
      [] OTHER -> runs[0].error

\* The Hug the error names is read, or cannot be.
ReadHug ==
    /\ pc = "review" /\ read_hug = "none" /\ ErrorOf \in {"review timed out", "rejected", "escalating"} /\ failure = <<>>
    /\ read_hug' \in Reviews
    /\ UNCHANGED <<runs, cur, rows, chain, pc, failure>>

\* The first rule that fits.
classify_failure(state, error, review) ==
    CASE state = "cancelled" -> "cancelled"
      [] state = "crashed" /\ error = "daemon" -> "daemon_crashed"
      [] state # "cancelled" /\ (error = "review timed out" \/ review = "expired") -> "review_timed_out"
      [] review # "expired" /\ (error = "rejected" \/ (review = "rejected" /\ error = "escalating")) -> "review_rejected"
      [] review \in {"none", "pending"} /\ error = "escalating" -> "review_escalated"
      [] error = "exhausted" -> "gate_exhausted"
      [] error = "401" -> "permission"
      [] error = "missing" -> "missing_setup"
      [] error = "timed out" -> "timed_out"
      [] error = "exit" -> "agent_crashed"
      [] error = "other" \/ (error = "daemon" /\ state # "crashed") -> "agent_error"
      [] OTHER -> "unknown"

\* A review that was read may name phases to go back to.
read_failure ==
    /\ pc = "review" /\ pc' = "done"
    /\ \E targets \in IF read_hug = "none" THEN {FALSE} ELSE BOOLEAN :
         LET reason == classify_failure(runs[cur].state, ErrorOf, read_hug)
         IN  failure' = [reason |-> reason, detail |-> ErrorOf,
                         resume_from |-> IF reason \in ReviewReasons /\ targets THEN "route target" ELSE
                                         IF BrokeAt(cur, rows) = None THEN "none" ELSE "phase",
                         phase_of |-> BrokeAt(cur, rows)]
    /\ UNCHANGED <<runs, cur, rows, chain, read_hug>>

Next == NotStopped \/ Hops \/ Bottom \/ ReadHug \/ read_failure

Spec == Init /\ [][Next]_vars

-----------------------------------------------------------------------------
\* The chain goes from the run to the last sub-run it names, without a gap, and
\* ends early only at a run that could not be read or at the depth allowed; the
\* error is of the last one when anything is recorded of it; the phase to resume
\* from is a phase of the last one or what its review names; and a review that
\* was read is told as a review unless the run was cancelled or its daemon gone
\* (read_failure, classify_failure).
WhyIsTheDeepest ==
    failure # <<>> =>
        LET last == chain[Len(chain)] IN
        /\ \A i \in DOMAIN chain : chain[i].run = i - 1
        /\ Len(chain) <= MAX_DEPTH + 1
        /\ rows /\ last.run < MAX_DEPTH => ~Child(last.run)
        /\ runs[last.run].error # "none" => failure.detail \in {runs[last.run].error, runs[last.run].phase_error}
        /\ failure.phase_of \in {None, last.run} /\ (failure.phase_of # None => rows)
        /\ failure.resume_from = "phase" => last.phase
        /\ read_hug # "none" => failure.reason \in ReviewReasons \cup {"cancelled"}
=============================================================================
