-------------------------------- MODULE Views --------------------------------
(***************************************************************************)
(* What the pages show: the views of the notification rules, and what the  *)
(* composed pages make of reads that fail, of lists read in pages, of a    *)
(* team's sub-teams and of a run's history, failure and telemetry.  The    *)
(* parts share nothing, so a behaviour exercises one of them.              *)
(***************************************************************************)
EXTENDS NotificationRules

CONSTANTS
    Items, Step, ListCap, Changes,                  \* PagedLists
    Orgs, Notes, Stamps, Sizes, PageCap, Window,    \* MergedInbox
    MaxAttempts, MaxAsks, MaxTime,                  \* RunAttempts
    Runs, MAX_SUB_DEPTH, MaxUnread,                 \* TelemetryTotals
    Begun, Ended, Spans, Now, NotKnown,             \* RunTime
    Depths, MAX_DEPTH, Facts,                       \* RunFailure
    Refs, Named, SUB_TEAM_CAP,                      \* SubTeams
    Root, Workflows, Agents, AgentUses              \* RunPreflight

VARIABLES part, reads, reading, got, broken, partial, unknown

VARIABLES loop, rows, out, offset, total, ended, kept, shifted, changes

VARIABLES at, has, limit, until, shown, silent, cut, summary

VARIABLES now, truth, pending, since, seen, requests, lost

VARIABLES parent, usage, unlisted, unread, totals, run, bars, time

VARIABLES runs, cur, phases, chain, pc, read_hug, failure

VARIABLES calls, map, failed, read_count, level

VARIABLES agents, missing, check, skipped, refused

pages == <<reads, reading, got, broken, partial, unknown>>
lists == <<loop, rows, out, offset, total, ended, kept, shifted, changes>>
inbox == <<at, has, limit, until, shown, silent, cut, summary>>
attempts == <<now, truth, pending, since, seen, requests, lost>>
telemetry == <<parent, usage, unlisted, unread, totals>>
times == <<run, bars, time>>
failures == <<runs, cur, phases, chain, pc, read_hug, failure>>
walk == <<calls, map, failed, read_count, level>>
preflight == <<walk, agents, missing, check, skipped, refused>>

Pages == INSTANCE PageReads WITH pc <- reading, failed <- broken

Lists == INSTANCE PagedLists

Inbox == INSTANCE MergedInbox

Attempts == INSTANCE RunAttempts

Telemetry == INSTANCE TelemetryTotals

Time == INSTANCE RunTime

Failure == INSTANCE RunFailure WITH rows <- phases

Check == INSTANCE RunPreflight

\* The realms are cut at the end of a page: CORE_REALM_PAGE divides ALL_REALMS_CAP.
ASSUME ListsAssumption ==
    /\ IsFiniteSet(Items) /\ Step \in Nat \ {0} /\ ListCap \in Nat \ {0}
    /\ \E pagesRead \in 1..ListCap : ListCap = pagesRead * Step

\* Times are milliseconds after the epoch, and a page is no longer than Core's.
ASSUME InboxAssumption ==
    /\ IsFiniteSet(Notes) /\ Notes \subseteq Int
    /\ Stamps \subseteq [Notes -> Nat \ {0}]
    /\ \E newest \in Inbox!Times : \A ms \in Inbox!Times : newest >= ms
    /\ \E oldest \in Inbox!Times : \A ms \in Inbox!Times : oldest <= ms
    /\ PageCap \in Nat \ {0} /\ Sizes \subseteq 1..PageCap /\ Window \in Nat

ASSUME AttemptsAssumption == MaxTime \in Nat /\ MaxAttempts \in Nat \ {0}

ASSUME FailureAssumption ==
    /\ MAX_DEPTH \in Nat
    /\ Depths \subseteq Nat /\ 0 \in Depths
    /\ Facts \subseteq [Depths -> [state : STRING, broke : BOOLEAN, child : BOOLEAN, error : STRING, phase_error : STRING]]

ASSUME PreflightAssumption ==
    /\ IsFiniteSet(Refs) /\ Named \subseteq Refs /\ SUB_TEAM_CAP \in Nat
    /\ Workflows \subseteq [Named \cup {Root} -> SUBSET Refs]
    /\ AgentUses \subseteq [Named \cup {Root} -> [phases : SUBSET Agents, support : SUBSET Agents]]

AnyCalls == CHOOSE some \in Workflows : TRUE
AnyUses == CHOOSE uses \in AgentUses : TRUE

\* The parts that are not exercised stay in one state.  "trees", which walks
\* over sub-teams too, is exercised elsewhere.
PartsInit ==
    /\ part \in {"rules", "pages", "trees", "lists", "inbox", "attempts", "telemetry", "times", "failures", "preflight"}
    /\ Init
    /\ IF part = "pages" THEN Pages!Init
       ELSE /\ reads = <<>> /\ reading = "reading" /\ got = {}
            /\ broken = {} /\ partial = FALSE /\ unknown = {}
    /\ IF part = "lists" THEN Lists!Init
       ELSE /\ loop = "mine" /\ rows = <<>> /\ out = <<>> /\ offset = 0 /\ total = -1 /\ ended = "no"
            /\ kept = {} /\ shifted = {} /\ changes = 0
    /\ IF part = "inbox" THEN TRUE
       ELSE at = (CHOOSE stamp \in Stamps : TRUE) /\ has = [org \in Orgs |-> {}] /\ limit = 0
    /\ Inbox!Init
    /\ Attempts!Init
    /\ IF part = "telemetry" THEN TRUE
       ELSE parent = [r \in Runs \ {1} |-> 1] /\ usage = [r \in Runs |-> "nothing"]
    /\ Telemetry!Init
    /\ IF part = "times" THEN TRUE
       ELSE run = [started_at |-> NotKnown, completed_at |-> NotKnown, live |-> FALSE] /\ bars = <<>>
    /\ Time!Init
    /\ IF part = "failures" THEN Failure!Init
       ELSE /\ runs = <<>> /\ cur = 0 /\ phases = TRUE /\ chain = <<>>
            /\ pc = "walking" /\ read_hug = "none" /\ failure = <<>>
    /\ IF part = "preflight" THEN Check!Init
       ELSE /\ IF part = "trees" THEN TRUE
               ELSE calls = AnyCalls /\ Check!NotBegun /\ level = {}
            /\ agents = AnyUses /\ missing = {}
            /\ check = "begun" /\ skipped = FALSE /\ refused = {}

PartsNext ==
    /\ UNCHANGED part
    /\ \/ part = "rules" /\ Next /\ UNCHANGED <<pages, lists, inbox, attempts, telemetry, times, failures, preflight>>
       \/ part = "pages" /\ Pages!Next /\ UNCHANGED <<vars, lists, inbox, attempts, telemetry, times, failures, preflight>>
       \/ part = "lists" /\ Lists!Next /\ UNCHANGED <<vars, pages, inbox, attempts, telemetry, times, failures, preflight>>
       \/ part = "inbox" /\ Inbox!Next /\ UNCHANGED <<vars, pages, lists, attempts, telemetry, times, failures, preflight>>
       \/ part = "attempts" /\ Attempts!Next /\ UNCHANGED <<vars, pages, lists, inbox, telemetry, times, failures, preflight>>
       \/ part = "telemetry" /\ Telemetry!Next /\ UNCHANGED <<vars, pages, lists, inbox, attempts, times, failures, preflight>>
       \/ part = "times" /\ Time!Next /\ UNCHANGED <<vars, pages, lists, inbox, attempts, telemetry, failures, preflight>>
       \/ part = "failures" /\ Failure!Next /\ UNCHANGED <<vars, pages, lists, inbox, attempts, telemetry, times, preflight>>
       \/ part = "preflight" /\ Check!Next /\ UNCHANGED <<vars, pages, lists, inbox, attempts, telemetry, times, failures>>

PartsSpec == PartsInit /\ [][PartsNext]_<<part, vars, pages, lists, inbox, attempts, telemetry, times, failures, preflight>>

\* No page passes a failed read off as emptiness, decorations and what is said
\* of telemetry and Hugs aside (the page services).
FailedReadIsTold == Pages!FailedReadIsTold

\* A list read in pages misses only what changed meanwhile (_mine, all_realms),
\* an inbox only what shares its millisecond with the end of a page or is of an
\* org that failed (services/inbox_service.ts).
NothingIsMissed == Lists!MissedOnlyIfChanged /\ Inbox!MissedOnlyIfTied

\* What is shown of a run is so: its attempts are those it made, in spite of reports
\* that come late, twice or never (mappers/run_detail_mapper.ts), and the reason of
\* its failure is that of the deepest sub-run read (services/run_failure.ts).
RunIsTold == Attempts!AttemptsAreTheRuns /\ Failure!WhyIsTheDeepest

\* A run is refused only for agents that lack settings, and passes with one only
\* for a reason that is known (services/run_preflight_service.ts).
RefusesOnlyMissing == Check!RefusesOnlyMissing

\* "does every agent the team uses (its own steps, support steps and every
\* sub-team's, at any depth) have its required settings in that realm?"
\* (services/run_preflight_service.ts).
EveryAgentIsChecked == Check!EveryAgentIsChecked

\* The totals of a run count each of its sub-runs once and each millisecond of an
\* agent once (services/run_telemetry_service.ts).
TotalsAddUp == Telemetry!TotalsAddUp /\ Time!TimeAddsUp
==============================================================================
