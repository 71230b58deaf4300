---------------------------- MODULE TelemetryTotals ----------------------------
(***************************************************************************)
(* The totals of a run's telemetry: its own usage and that of the sub-runs *)
(* it started, nested to a depth (services/run_telemetry_service.ts).  A   *)
(* sum is kept as the bag of runs it adds up; an empty bag is a null.      *)
(***************************************************************************)
EXTENDS Integers, Sequences, SequencesExt, BagsExt

CONSTANTS
    Runs,           \* 1..n; the first is the run asked for
    MAX_SUB_DEPTH,
    MaxUnread       \* bound: the reads that fail

VARIABLES
    parent,     \* the run that started each sub-run
    usage,      \* what is known of each run's own usage
    unlisted,   \* the runs whose sub-runs cannot be listed
    unread,     \* the sub-runs that cannot be read
    totals      \* the answer, or none

vars == <<parent, usage, unlisted, unread, totals>>

SubRuns == Runs \ {1}

\* Models with their cost, models without one, a total cost alone, nothing.
Usages == {"priced", "unpriced", "total", "nothing"}

TypeOK ==
    /\ \A r \in SubRuns : parent[r] \in Runs /\ parent[r] < r
    /\ usage \in [Runs -> Usages] /\ unlisted \subseteq Runs /\ unread \subseteq SubRuns
    /\ totals = <<>> \/ DOMAIN totals = {"usage", "by_model"}

Init ==
    /\ parent \in {f \in [SubRuns -> Runs] : \A r \in SubRuns : f[r] < r}
    /\ usage \in [Runs -> Usages]
    /\ unlisted = {} /\ unread = {} /\ totals = <<>>

depth[r \in Runs] == IF r = 1 THEN 0 ELSE depth[parent[r]] + 1

\* The sub-runs of a run that could be read: a failure leaves out what is below.
_sub_runs(r) ==
    IF depth[r] >= MAX_SUB_DEPTH \/ r \in unlisted THEN {}
    ELSE {child \in SubRuns \ unread : parent[child] = r}

own_models(r) == IF usage[r] \in {"priced", "unpriced"} THEN SetToBag({r}) ELSE EmptyBag

SumOver(f, S) == FoldSet(LAMBDA r, bag : bag (+) f[r], EmptyBag, S)

\* A sub-run's models are its own and those below.
models[r \in Runs] == own_models(r) (+) SumOver(models, _sub_runs(r))

Priced(some) == SetToBag({r \in BagToSet(some) : usage[r] = "priced"})

\* What the models cost; if none has a price, the run's own total.
model_usage(some, r) ==
    [tokens |-> some,
     cost |-> IF Priced(some) # EmptyBag THEN Priced(some)
              ELSE IF usage[r] \in {"unpriced", "total"} THEN SetToBag({r}) ELSE EmptyBag]

add_usage(a, b) == [tokens |-> a.tokens (+) b.tokens, cost |-> a.cost (+) b.cost]

\* Mutant: the run's own models hold those of its sub-runs already.
usage_total_Twice == FoldSet(LAMBDA r, acc : add_usage(acc, model_usage(models[r], r)), model_usage(models[1], 1), _sub_runs(1))

\* The run's own usage and that of each of its sub-runs.
usage_total == FoldSet(LAMBDA r, acc : add_usage(acc, model_usage(models[r], r)), model_usage(own_models(1), 1), _sub_runs(1))

\* A read below the run that fails leaves out what it would have brought, and
\* is not told.
ChildrenUnlisted ==
    /\ totals = <<>> /\ Cardinality(unlisted \cup unread) < MaxUnread
    /\ \E r \in Runs : unlisted' = unlisted \cup {r}
    /\ UNCHANGED <<parent, usage, unread, totals>>

SubRunUnread ==
    /\ totals = <<>> /\ Cardinality(unlisted \cup unread) < MaxUnread
    /\ \E r \in SubRuns : unread' = unread \cup {r}
    /\ UNCHANGED <<parent, usage, unlisted, totals>>

get ==
    /\ totals = <<>>
    /\ totals' = [usage |-> usage_total, by_model |-> own_models(1) (+) SumOver(models, _sub_runs(1))]
    /\ UNCHANGED <<parent, usage, unlisted, unread>>

Next == ChildrenUnlisted \/ SubRunUnread \/ get

Spec == Init /\ [][Next]_vars

-----------------------------------------------------------------------------
\* A run counts if it is not too deep and it and all above it were read.
counts[r \in Runs] ==
    r = 1 \/ (depth[r] <= MAX_SUB_DEPTH /\ r \notin unread /\ parent[r] \notin unlisted /\ counts[parent[r]])

\* Every run that was read counts once in the tokens and once in the table of
\* models, however deep it lies; in the cost none counts twice, every priced one
\* counts, and one that only tells a total counts if nothing priced is mixed in
\* and it is the run or started by it (get, _sub_runs).
TotalsAddUp ==
    LET read == {r \in Runs : counts[r]}
        with(kinds) == {r \in read : usage[r] \in kinds}
    IN totals # <<>> =>
        /\ totals.usage.tokens = SetToBag(with({"priced", "unpriced"}))
        /\ totals.by_model = totals.usage.tokens
        /\ totals.usage.cost \sqsubseteq SetToBag(with({"priced", "unpriced", "total"}))
        /\ with({"priced"}) \subseteq BagToSet(totals.usage.cost)
        /\ with({"priced"}) = {} => \A r \in with({"unpriced", "total"}) : depth[r] <= 1 => r \in BagToSet(totals.usage.cost)
=============================================================================
