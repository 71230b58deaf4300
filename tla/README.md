# Verification of the CliqHub BFF

The BFF is the backend-for-frontend of CliqHub: an Express server between the
browser (and the CLI) and Core, the service that owns all data. It keeps three
kinds of state of its own: session rows in Postgres, a few in-memory tables per
process (two rate limiters, the last verdict on Core), and whatever a handler
holds between two awaits. Everything else is a call to Core.

This directory holds TLA+ modules of the parts where something can go wrong
that a test hardly reaches, the TLC configurations that check them, and TLAPS
proofs of the properties that matter most. Paths are relative to the
repository root.

## The system

| component | state | operations | talks to |
|---|---|---|---|
| Sessions (`src/services/session_service.ts`, `src/repositories/session_store.ts`) | `bff.sessions`: one row per cookie, with two PATs and a cached identity | sign in (password, sign-up, invite, link reset), act as a user, stop, sign out; find, touch, prune | Postgres, Core (`identity_repository.ts`) |
| Users, invitations (`users_service.ts`, `invitations_service.ts`) | none | suspend, delete, set a password from a link, accept an invite: each also ends or creates sessions; change one's password: Core revokes the PATs of the user's other sessions, whose rows stay | Core, Sessions |
| Credentials and route gate (`middleware/session_auth.ts`, `lib/request_auth.ts`, `middleware/enforce_route_auth.ts`, `csrf_guard.ts`, `routes/route_auth.ts`) | `req.session_data`, one copy of the row per request | find the credential, apply the route's rule, choose the bearer for Core | Sessions, Core (bearer tokens) |
| Request limits (`lib/sliding_window_limiter.ts`, `middleware/rate_limit.ts`) | hits per address, counts per window | admit or refuse a request, forget idle keys | - |
| Core compatibility (`core_compat_service.ts`) | last verdict, the probe in flight | probe, current verdict | Core |
| Notification center (`notification_center_service.ts`, `notification_rules.ts`) | none; reads documents of Core and writes them back whole | page, check, save rules, change destinations | Core |
| Team installation (`team_install_service.ts`) | none; several writes to Core per request | preflight, install | Core |
| Team tree, run preflight, failure and telemetry (`team_page_service.ts`, `lib/team_tree.ts`, `run_preflight_service.ts`, `run_failure.ts`, `run_telemetry_service.ts`) | none | walk sub-teams, classify a failure, add up spans | Core |
| Composed pages (the `*_page_service.ts`, `realm_*`, `inbox_service.ts`, `overview_service.ts`, ...) | none | one response from many reads, some of which may fail | Core |
| Thin services, pass-through, streams | none | forward one call | Core |

How they interact: a request passes `session_auth` (reads the row, touches it
in the background), the route gate and a controller into a service. The service
works with the copy of the row `session_auth` read; a handler runs without
interruption only between two awaits, so any other request of the same session
may change or delete the row, or revoke its tokens, while this one waits.

What is hard:

* *Interleaving.* Act-as, stop and sign-out are each three to five calls to
  Core and the table, over a row read at the start (Sessions).
* *Partial failure.* Every one of those calls may fail after others have taken
  effect; some failures are ignored on purpose (`best_effort`), others end the
  request (Sessions).
* *Ordering and stale times.* The touch of a request is not awaited, the pool
  has five connections, and every statement carries a time read before it was
  sent (SessionLifetime).
* *Liveness.* Stopping must work without Core; expired rows must go although
  nobody asks for them.
* *Read, change, write back* without a version (ChannelDestinations), and
  requests of many calls of which any may fail (RuleSaves, TeamInstall).
* *The same question answered in several places*: three views of the
  notification center work out separately which rules reach an event
  (NotificationRules); the route table and the controllers say separately which
  credential a route needs (RouteTable, RequestGate).
* *Reads that fail*: some forty pages are made of up to a dozen reads each, and
  each decides what every failure does to it (PageReads).
* *Reports that come late, twice or never*: the attempts of a run are worked out
  from a history written by two sources (RunAttempts).
* *A version read some time ago*: what the BFF knows of Core may be out of date
  when it is used (CoreCompat).
* *Graphs and trees of any shape*: teams that call each other in circles
  (SubTeams, TeamTree, RunPreflight), sub-runs below sub-runs (RunFailure, TelemetryTotals).
* *Boundaries*: window edges of the limiters (SlidingWindowLimiter, RateLimit),
  the expiry comparisons (SessionLifetime), lists that change between pages
  (PagedLists), ties at the end of a page (MergedInbox), spans that touch
  (RunTime).

What makes each correct: a session's bearer is the token of the user it acts
as, tokens are not lost or shared, sessions end only for a reason, the timeouts
hold for every request served; a limiter never lets more than its limit through
in any window and always lets a patient caller in; the views of the
notification rules agree with each other and with delivery, or it is known on what
they do not; a run is refused only for an agent it uses; the credential a
route was judged by is the one its call carries; a page that lacks something
says so; the answer to a request of many calls says of each what Core did.

## The modules

| module | models | role |
|---|---|---|
| `SessionIdentity` | the header of `session_service.ts` | abstract specification: a session has an actor and speaks as one user |
| `Sessions` | `SessionService`, `SessionStore`'s statements, the operations of users and tokens that end sessions or their PATs | detailed specification; refines `SessionIdentity` |
| `MCSessions` | - | instances for TLC |
| `SessionsProofs` | - | proofs about `Sessions` |
| `SessionLifetime` | `find`, `touch`, the writes of switches, `prune_expired` and its timer, over time | specification |
| `MCSessionLifetime` | - | instance for TLC |
| `SessionLifetimeProofs` | - | proofs about `SessionLifetime` |
| `SlidingWindowLimiter` | `sliding_window_limiter.ts` | specification |
| `RateLimit` | `rate_limit.ts`, the fixed window of the builder routes | specification |
| `SlidingWindowLimiterProofs` | - | proofs about `SlidingWindowLimiter` |
| `RouteTable` | `route_auth.ts`, `passthrough_paths.ts`, which credential each controller takes | tables |
| `CoreClient` | `core_client.ts`, `upstream_error.ts`, `error_handler.ts` | operators |
| `RequestGate` | `csrf_guard`, `session_auth`, `enforce_route_auth`, `request_auth`, in the order of `app.ts` | specification |
| `ChannelDestinations` | `change_destinations` of the notification center | specification |
| `RuleSaves`, `RuleSavesProofs` | `set_rules`, `map_limited` of the notification center | specification, proofs |
| `TeamInstall`, `TeamInstallProofs` | `team_install_service.ts` | specification, proofs |
| `CoreCompat`, `CoreCompatProofs` | `core_compat_service.ts`, `health_service.ts` | specification, proofs |
| `Requests` | what a request meets before and in its service: the limiters, the gate and the four above | composition |
| `MCRequests` | - | instance of `Requests` for TLC |
| `RequestsProofs` | - | proofs about `Requests`: the builder's limiter, the two tables, the gate, Core's failures, channel destinations |
| `NotificationRules` | `notification_rules.ts` over rules and channels that change | specification |
| `PageReads` | the reads of every composed page | specification |
| `SubTeams` | `sub_teams` of `team_page_service.ts`: the walk over the teams that phases run | shared by the next two |
| `TeamTree` | `lib/team_tree.ts` and the own tree of a team's page, over `SubTeams` | specification |
| `RunPreflight` | `run_preflight_service.ts`, over `SubTeams` | specification |
| `PagedLists` | `_mine` of `team_page_service.ts`, `all_realms` of the notification center | specification |
| `MergedInbox` | `inbox_service.ts`, `inbox_mapper.ts` | specification |
| `RunAttempts` | `run_detail_mapper.ts`: attempts from the history | specification |
| `RunFailure` | `run_failure.ts` | specification |
| `TelemetryTotals`, `RunTime` | `run_telemetry_service.ts`: totals over sub-runs, time of spans | specification |
| `Views` | what the pages tell: the rules, the lists, the inbox, attempts, failure, totals and time, and the check before a run | composition |
| `MCViews` | - | instance of `Views`, the pages' reads and the trees for TLC |
| `ViewsProofs` | - | proofs about `Views`: the rules, the lists, the inbox, a run's attempts and failure, the check before a run |

### Sessions

State: Core's PATs (`owner` says whose, `live` which are not revoked), the
table (`rows`), the ids ever handed out (`ids`), and one record per request
(`req`). `req[r].pc` is the await the handler is at, `req[r].snap` the row it
works with, `req[r].token` the PAT it got from Core, `req[r].seen` the identity
it put together. One action is the code from one await to the next:

| code | actions |
|---|---|
| `session_auth`, cookie | `Begin` in every `Begin...` action; `BeginSignedOut` without a row |
| `create` | `Authenticate`, `Persist`, `PersistFails` |
| `create_from_signup`, `accept` with `create_from_backend_token` | `Join`, `Identify`, `IdentifyFails`, `Persist`, `PersistFails` |
| `_enter_act_as` | `BeginEnter` (guards), `Issue`/`IssueFails`, `RevokePrevious`, `ReadTarget`/`ReadTargetFails`, `WriteActAs`/`UpdateFails` |
| `_exit_act_as` | `BeginExit`, `RevokeActAs`, `ReadActor`/`ReadActorFails` (the fallback), `RestoreActor`/`UpdateFails` |
| `delete` | `BeginSignOut`, `RevokeUser`, `RevokeTarget`, `Destroy`/`DestroyFails` |
| `suspend`, `delete`, `reset_with_token` of users | `EndAtCore`, `DestroyUser`/`DestroyUserFails`, then for a reset `Authenticate`/`SignInFails` |
| `change_password` of a signed-in user | `BeginChangePassword`, `ChangePassword`/`ChangePasswordFails` |
| `revoke` of tokens, by the user a PAT belongs to | `RevokeToken` |
| `find` and `prune_expired` deleting a row | `Lapse` |
| any route that only forwards the bearer | `BeginRead` |

A changed password is a call with the session's bearer. Core keeps that PAT and
revokes the others of its user ("signs out their other sessions",
`users_service.ts` 177): those of the user's other sessions, and those with which
admins act as that user. The BFF deletes no row, so such a row keeps a dead token and
its next call is answered with Core's 401. The same goes for a PAT its user revokes.
What a request did to whose tokens is in `req` (`op`, `snap`, `revoked`), and
`RevokedByUser` is what `SignedInUntilSignedOut` and `DeadBearerExplained` make of it:
a change of password explains the death of *other* PATs of the user whose bearer it
used, never of that bearer, and never of another user's PAT.

Abstracted: the profile of a user is the user; a PAT is a number; all of a
user's PATs are revoked when Core suspends, deletes or resets them; the two
reads of `ReadTarget` are one step, since nothing observes the state between
them. A user's role does not change. A call to Core that fails is taken to have
had no effect there.

### SessionLifetime

State: `clock` in seconds, `rows` with `last_active` and `expires_at`, one
record per request with the statement it has under way and the time that
statement carries (`at`), and the pruning statements under way (`prunes`).
A statement is sent by one action and lands by a later one, in any order, or
fails. `find` is `Find` (the SELECT is answered), then `Serve` or `Reject` (the
comparison, with the time by then), then `Delete`. `Switch` is the UPDATE of an
act-as or a stop, which sets `last_active` too.

### SlidingWindowLimiter and RateLimit

`hit` and the middleware run without an await, so a call is one action:
`Admit` or `Refuse`, `Pass` or `Refuse`. `hits` holds the numbers of a key's
hits in place of their times, which are in the history `log`; with it the bound
can be said of every hit ever let through, whatever the map has forgotten. The
sweep is part of every hit; the timer that drops the counters of ended windows
(`Purge`) comes at any time. `Tick` is `Date.now()`, assumed not to go back.
`RateLimit` counts in ticks and rounds waits up to whole seconds as the
`Retry-After` header does.

### NotificationRules

State: the rules of one org, of one of its realms and of that realm's teams, and
which channels are off; Core's writes change one rule or channel at a time
(external). Core's list for a realm (`realm_rules`) has the rules of the realm and
of its teams in it, in one numbering. The two pages keep of it the realm's own; the
check takes it whole and calls every rule of it the realm's (`InPlay`). An event is
a pair of family and name. What the code computes is operators over that state:
`status` (the realm's page), `sent` with `override_of` and `overrides` (the
Events page), `winners` (the check). `Delivers` is the reference: what reaches
the realm through one channel, said channel by channel. Labels, locks, built-in
marks and layout are left out; a rule to a person is a rule to a channel that
is never off.

### RouteTable, CoreClient and RequestGate

`RouteTable` holds two tables that the code keeps in files of their own: the
rule of each route, and the credential its controller takes with the way it
calls Core. A route whose rule or credential depends on a field of the body is
listed for both bodies (`told`, `plain`). `CoreClient` is what becomes of a
reply: of its HTTP status, whether it is JSON, its code and the two wordings the
code looks for. `RequestGate` runs one request through both:

| code | actions |
|---|---|
| `csrf_guard` | `csrf_guard` |
| `session_auth`: the row, the store failing, the bearer | `Find`, `FindFails`, `Hydrate` |
| the row deleted by another request meanwhile | `RowGoes` |
| `enforce_route_auth` | `route_auth` |
| the controller's own credential, its parser and limiter | `HandlerRefuses`, `HandlerRejects` |
| the call to Core and its answer | `HandlerAsks`, `HandlerAnswers`, `CoreAnswers` |

Of the many calls a handler may make one stands for all: the one whose failure
ends the request. A daemon's token is a bearer that is nobody's.

### ChannelDestinations and RuleSaves

`ChannelDestinations` is one channel and the browsers that change it: `Show` is
the page being opened, `ChangeDestinations` the read with the checks on the copy,
`SetChannelDestinations` the write, and the channel may be deleted in between.
`writes` is a history: with it a change knows whether another was written since
its own read. `RuleSaves` is one request: `RemoveRule` one removal after
another, then the worker pool of `map_limited` in which `Take` is the shared
index (no await between reading and advancing it), and each call succeeds, is
refused, or loses its reply after Core took it.

### TeamInstall

The reads of the org are one step with the set of those that failed; each realm
is judged by `Preflight` with its own reads failing or not; `AddTeam` is one
call of Core, whose answer may differ from the judgement since Core's own view
may have changed. `denied` is what the same rules make of a realm when every
read succeeds: the measure for what a failed read may do.

### CoreCompat

`Current`, `ApiVersion` and `Check` are the three ways to ask; they share the
probe under way. `Restart` is Core coming back with another version at any
time. A probe ends with Core's version then, or without one, within its timeout.

### PageReads

A page is a table: for each of its reads, which reads it needs first and what
its failure does: ends the page, is told by a flag or a section's status, shows
as not known, or is passed over. `Read` asks for all that can be asked and
any of them fail; `Answer` composes. Reads that run side by side settle in one
step because no page looks at their order. A read made once for each org, realm
or row stands for all of its kind. The reads that may be passed over are named apart
from the tables (`Decorations`), by what they bring; `FailedReadIsTold` says of the
tables that no other is, and of the pages' order of reads that nothing drops out
behind one. It is a check of tables against the code's promise, and no more than
that. The check before a run is no page: what its failed reads do is in
`RunPreflight`.

### SubTeams and TeamTree

The walk starts from the references in the *phases* of one team and goes on with
those in the phases of the teams just read (`ReadLevel`); of a sub-team nothing but
its phases is kept. A reference that does not read as scope/name takes room under
the cap and is passed over without `failed`; a team that cannot be read sets it.
`LedTo` is the reference: the least set closed under calls.

A place in a tree is the path of references from its root. `org_team_tree` and
`realm_team_tree` choose the roots (first the rows nobody calls, then those not
yet reached). The own tree of a team is made from its phases *and* support steps
(`Called`), while the walk knew of its phases only: a team that only a support step
runs stays closed although no read failed, and `EveryTeamShown` names this case
beside the circle and the reference that names no team. The order of the teams
that one calls is left open.

### RunPreflight

One check before a run, over the same walk: `Begin` is the reads of realm, orgs and
team, `agents_of` puts together whose settings matter (`used`), and
`missing_settings` refuses or passes. `Skip` is every way in which the check could
not be made: it passes, and Core decides. Whether a sub-team could not be read
(`failed`) is not looked at by the code: the check passes over what it did not see,
and `RefusesOnlyMissing` says so. `Used` is the reference: the team's steps and
support steps, and the phases of all its phases lead to. Teams and settings do not
change during one check.

### PagedLists and MergedInbox

Both loops of `PagedLists` read a list of Core that other users change between
two pages (`Leaves`, `Joins`). In `MergedInbox` each page of the client asks
each org for one more row than it shows; Core decides which of two rows of the
same millisecond comes first, orgs fail, and `Summarise` is the badge.

### RunAttempts

`truth` is the run as it went; each turn is reported by Core and the daemon in
`pending` reports that land in any order, twice or never (`Land`, `Lose`), and a
daemon that registers again starts the run again. The mapper's fold over the
history is taken report by report as it lands (`seen`), and the page is
`to_run_attempts_from_history`. A tick is `SAME_TRANSITION_MS`. The reports of
one turn land before the next turn, which the fold takes for granted.

### RunFailure, TelemetryTotals and RunTime

`RunFailure` walks down the chain of sub-runs that broke (`Hops`, `Bottom`),
where any sub-run may be unreadable, reads the Hug named by the error and
classifies by the wordings in the order the code tries them. `TelemetryTotals`
keeps for each sum the bag of the runs that went into it, so that a run counted
twice shows; `RunTime` is arithmetic over the spans.

## The runs

| run | bounds | shows |
|---|---|---|
| `races` | 2 sessions, 3 users (1 admin), 4 PATs; Core and the table may fail, rows may lapse; 4 requests, 3 in flight, of password sign-in, all cookie operations and a changed password, or 3 of every operation (`Bounded`) | `BearerIsActingUser`, `OneSessionPerToken`, `DeadBearerExplained`, `SignedInUntilSignedOut`, `SessionsEndForAReason`, `RoleFollowsIdentity`, and that `Sessions` implements `SessionIdentity` |
| `sequential` | 2 sessions, 3 users, 5 PATs, 5 requests, one at a time, no fault | `NoOrphanToken`, `OwnProfileAfterStop` |
| `stop` | 1 session, 2 users, 3 requests of every operation, 2 in flight, Core may fail; fair handlers | `StopAlwaysWorks` |
| `lifetime` | 1 session, ttl 2, idle 1, 4 requests, clock to 3, 1 prune under way; fair timer | both timeouts, why a session in use may still be ended, and that expired rows go |
| `requests`: limiters | sliding: 2 keys, limit 2, window 3 ticks; fixed: limits 1 and 2, a second is 2 ticks; 6 ticks | `AtMostLimitPerWindow`, `RetryAfterExact`, `HeldKeysAreRecent`, `AtMostTwiceTheLimit`, `RetryAfterIsEnough` |
| `requests`: gate | every route, with and without cookie, header and bearer (user's or daemon's), both roles, 15 replies of Core | `CredentialFits`, `SignedInNeverTold401`, `CoreFailuresAreTold` |
| `requests`: writes | channel: 2 requests, lists of up to 3 destinations; save: 2 removals, 3 writes, 2 rules, 2 workers; install: 2 realms, 7 roles, 5 ranks; probe: 2 askers, interval and timeout 2, 9 ticks | `LostOnlyToOverlap`, `AnswerSaysWhatCoreHas`, `ReportIsCore`, `VerdictIsRenewed` |
| `views`: rules | 2 rules of the org, 2 of the realm and its teams together, 3 selectors, 2 channels, 2 events of 2 families; four rules are not changed any more (`FewRules`) | `SentIsDelivered`, `StatusExplained`, `CheckAgrees`, `SilencedOnlyByTurningOff` |
| `views`: pages | every page with every set of failing reads | `FailedReadIsTold` |
| `views`: trees | 3 listed teams with any calls among them and to a fourth; 4 versions and a reference that names no team; support steps that run none, one or two; cap 3 | `EveryTeamShown` |
| `views`: check before a run | a team and 2 sub-teams that call each other or what is no team; 3 agents, any of them lacking settings; cap 3 | `RefusesOnlyMissing` |
| `views`: lists | 6 rows, pages of 2, cap 4, 2 changes; inbox: 2 orgs, 4 notifications, 3 times, pages of 1 and 2 | `NothingIsMissed` |
| `views`: runs | 3 attempts, 2 requests to resume, 4 ticks; chains of 5 runs; sums over 4 runs with 2 failed reads; 2 spans | `RunIsTold`, `TotalsAddUp` |
| `off_but_sent` | the rules with 1 channel | violates `OffSendsNothing` |
| `preflight` | the check before a run alone | violates `EveryAgentIsChecked` |
| `install` | the install alone | violates `UnreadNeverBlocks` |
| `orphan` | 1 session, 2 requests in flight, no fault | violates `NoOrphanToken` |
| `mixed_identity` | 1 session, one request at a time, Core may fail | violates `OwnProfileAfterStop` |
| `leftover` | 1 session, one request at a time, the table may fail | violates `LeftoverRowCannotAct` |

Why the bounds are enough. A hazard of `Sessions` needs the sign-in that makes
the row, the one or two requests that race, and one that observes the result:
four requests. Three users are an admin and two others to act as, so that a
second act-as replaces a first. Two sessions show whether one can touch the
other's tokens. With all the ways in and out `races` has three requests: two sessions
and what ends one of them. `lifetime` needs the sign-in, two uses whose touches can overtake each
other, and a use or switch that sees the result; with idle 1 and ttl 2 the
clock passes both boundaries by one. Requests are bounded, so a run ends when
they have all answered: deadlock is not checked.

The parts of `requests`, and those of `views`, share no state but the clock of
the two limiters, so each run is the union of its parts: `part` picks the one a
behaviour exercises and the others stay in one state.

The limiters' part spans two windows and more, so that hits leave a window one by one,
keys are swept with hits in and out of it, and bursts meet at an edge. Requests
share nothing in the gate, so one is enough. A lost update needs two changes of
one channel, and a removal that names the wrong place two destinations of a type
and one of another. Two workers and three writes leave a worker with a second
item, and a rule written twice. The probe's clock passes three intervals, so that a
verdict is renewed, kept too long and renewed again.

The rules have two per list of Core because hiding, overriding and
undoing need a rule and one it collides with, and a team's rule one of the realm beside it; the three selectors are an event,
its family and everything, so every way two selectors overlap occurs, and the two
events are one that all three cover and one that only everything does. Every state
with four rules is checked; the steps are those from states with up to three. Three
teams make circles of one, two and three, inside and outside of another tree,
and the cap of three is reached among four versions. Two sub-teams that call each
other close a circle under the team that is checked, and with a reference that names
no team they make up the cap. Six rows are three pages,
one beyond the cap. Four notifications over three times put a tie on the end of a
page and beside it. Three attempts have one with both an end and a start beside
it. Chains of five runs are one longer than the depth the walk (here 3) allows.

Symmetry: session ids and requests are interchangeable in `Sessions` (users are
not: one is the admin; PATs are numbered in the order of minting; so `races` lets
any one of the waiting requests arrive next), and channels in `views`. `stop` and
`lifetime` check liveness and use none.

Fairness. `Sessions!FairSpec` is weak fairness of a handler's next step: Node
resumes a handler when its await settles, and every call has a timeout or an
answer. It never assumes that a call succeeds. `SessionLifetime!FairSpec` is
weak fairness of the `setInterval` timer and strong fairness of a pruning
statement landing: the database is not down for ever. No request is assumed to
come.

## What the code does against what it says

* `orphan`: an act-as under way while the same session signs out (two tabs), or
  two act-as requests at once, leave a live PAT of the acted-as user that is in
  no row and that no request will revoke, although the header of
  `session_service.ts` has every replaced or ended token revoked.
* `mixed_identity`: when Core cannot be asked, stopping restores the actor's
  username and role but keeps the acted-as user's email, scopes and org slugs,
  where the comment promises "their own identity".
* `leftover`: the comment of `_end_sessions` says a leftover row cannot act
  because Core rejects the suspended user's token. A suspended admin who is
  acting as somebody has a row whose bearer is the other user's token.

* `install`: when the list of the viewer's orgs cannot be read,
  `_preflight` judges an org admin as a stranger to the org and refuses realms
  Core would take, where the comment says "Unknown org standing (a read failed):
  Core decides". `ReportIsCore` shows that this is the only read whose failure
  refuses anything.
* `off_but_sent`: with a realm's own rule for an event off and a broader one on,
  the realm's page says `off`, which its type explains as "nothing sends here";
  the Events page says that the event is sent. `StatusExplained` shows that this,
  and what the page leaves out on purpose (channels that are off, org rules
  overridden), is all the two views can disagree about.
  The check of a realm is documented otherwise than it works, too: "the rules at the
  winning tier (realm, else org) and the broader rules they replace"
  (`notification_center_service.ts` 324), while `resolve_event` returns every rule
  that covers the event, of both tiers, and replaces none, as its own comment says.
  No run is spent on that; `CheckAgrees` says how far what the check names is what
  sends: it misses nothing that sends, and what it names too much are rules of teams,
  and rules of the org that a rule of the realm, also named, switches off.
* `preflight`: the header of the check before a run asks of "every agent the team
  uses (its own steps, support steps and every sub-team's, at any depth)". Of a
  sub-team only the phases are kept, and the walk starts from the phases: an agent
  that a sub-team uses in a support step passes without its settings, though every
  read succeeded.

## What is proved

`SessionsProofs`: for all users, sessions, PATs and requests, from
`SessionsAssumption` alone,

* `TypeCorrect`, `BearerTheorem`, `OneSessionTheorem`: the invariants `TypeOK`,
  `BearerIsActingUser` and `OneSessionPerToken`;
* `SignedInTheorem`, `DeadBearerTheorem`, `RoleTheorem`: the invariants
  `SignedInUntilSignedOut`, `DeadBearerExplained` and `RoleFollowsIdentity`;
* `EndsTheorem`: the action property `SessionsEndForAReason`;
* `Refinement`: `Sessions` implements `SessionIdentity`.

`BearerIsActingUser` is not inductive: a row is also written from what a
request holds. The invariant `IInv` therefore says the same of every *version*
of a row, in the table or in a request, and of the token and identity a request
is about to write: it has been minted for the user the request asks for, no
other request or row holds it, and a version's row is consistent. Its lemmas
follow the kinds of steps (a step that only advances a request, one that mints,
one that inserts, one that updates), and one lemma per action applies them. The
refinement maps a session to the owners of its two tokens; each action is shown
to be a step of `SessionIdentity` or to leave it unchanged.

What keeps a session alive needs more than who owns its tokens. `OpInv` says
what a request at each await has done already (a revocation of the bearer comes
only after its replacement was minted), and `AliveInv` that every token in a row
or held by a request is live unless its user was ended, its session is being
signed out, or it is being replaced. The lemma `Deaths` names the only ways a
PAT dies; since no two sessions share one (`OneSessionPerToken`), a death
concerns the session of the request that caused it, or it is one of the deaths of
PATs of other sessions: an ended user, a password changed with another PAT of the
same user, a PAT its user revoked (`RevokedByUser`). Requests and their reasons
never go away, so what explains a dead token goes on explaining it. `RoleInv`
says that the identity a request puts together, and the one in every row, has the
role of the user it will be stored for.

Two invariants of `Sessions` hold only if requests come one at a time (the runs
`orphan` and `mixed_identity` violate them otherwise), and are proved with that as a
hypothesis on the constants, as the run `sequential` has it:

* `OwnProfileTheorem` (`OwnProfileAfterStop`) if `MaxConcurrent = 1`, the only
  fault is that rows lapse, and no password is changed and no PAT revoked by its user: when one request is in flight and Core answers, the
  profile of every row is that of its bearer's user (`ProfileInv`).
* `NoOrphanTheorem` (`NoOrphanToken`) if `MaxConcurrent = 1`, nothing fails, no
  user is ended, no password changed and no PAT revoked by its user: an admin who is ended while acting as somebody leaves the other
  user's PAT alive and in no row. `OrphanInv` says at each await of the one handler
  which live PATs are in no row: the one it has just got, or the one it is about
  to revoke.

`SessionLifetimeProofs`: for every ttl, idle period, set of requests and bound
of the clock, from `LifetimeAssumption` alone,

* `LifetimeTyped`: `TypeOK`;
* `LifetimeTheorem`: `AbsoluteLifetime`;
* `IdleTheorem`: `IdleTimeoutEnforced`;
* `IdleReapTheorem`: `IdleReapExplained`.

The invariant `LInv` says that the `last_active` of every row, of every row a
request has read and of every statement under way is the time of a use of that
session, and every `expires_at` the time of its sign-in plus the ttl.

`IdleReapExplained` is about what a row fails to show, so `ShowInv` bounds it from
below: a row is last active no earlier than any use whose statement has landed,
unless an older use's statement landed at the same time or later (`Overtaken`),
and the copy that `find` has read shows all that had landed when it was read. A
landing can only overtake or be shown (`RowLanding`), and what is overtaken
stays so (`OvertakenStays`).

`SlidingWindowLimiterProofs`, from `LimiterAssumption`, for every limit, window
and set of keys: `WindowTheorem` (`AtMostLimitPerWindow`), `ExactTheorem`
(`RetryAfterExact`) and `RecentTheorem` (`HeldKeysAreRecent`). The bound is not
inductive, since the limiter looks only at what it has kept: `LimiterInv` adds
that times ascend and that a hit it no longer counts is a window old, whether
it was filtered or its key swept. When fewer than the limit are counted, the
limit-th last hit is therefore not among them (`RoomMeansOld`). A refusal finds
exactly the last `Limit` hits counted (`CountedAreLast`), so the oldest of them
leaves the window at the moment named. For the memory of the map `SweptInv` says
that a held key has a hit less than a window before the last sweep.

`ViewsProofs`, about every behaviour of the composition `Views`:

* From `RulesAssumption` (rules have numbers): `SentTheorem`, `CheckTheorem`,
  `SilencedTheorem` and `StatusTheorem` for any catalog, selectors, channels and
  number of rules of the org, the realm and its teams. The key is that a rule taken out of the realm's list is one that
  is off (`OverridesAreOff`), so that the list decides nothing about sending
  (`LiveRules`).
* `MissedTheorem` (`NothingIsMissed`), from `ListsAssumption` and
  `InboxAssumption`, for any rows, cap, orgs, notifications and page sizes. The
  assumptions are the code's constants: pages of 100 divide the cap of 500, the
  inbox asks for no more rows than Core's cap allows, and times are positive.
  `ListsInv` says of the rows before the place where the next page starts that none
  was passed over unless a row before it left, and of a loop that ended that it was at
  the end or says it was cut. `InboxInv` says that what was shown is in order and newer
  than the cursor, and that what is as new and was not shown shares its millisecond
  with the end of a page or is of an org that failed. Its step rests on a count: an
  org's page that Core cut is longer than any part of the merge before it, so what
  the cut left out is no newer than the page's end.
* `RunTheorem` (`RunIsTold`), from `AttemptsAssumption` and `FailureAssumption`.
  For the attempts, of any number and at any times, `AttemptsInv` follows the fold
  through a turn of the run. Whatever was lost, no attempt is invented, only the last
  is open, and an attempt opened for an earlier turn was opened more than the slack
  before this one (`OpenedWhen`), so that the resume of this turn is never taken for
  a repetition of that one's. If of each turn enough was reported, the entries are the
  attempts up to the turn before (`WellTold`) and the last turn is either not told yet
  and still awaited (`NotYetTold`) or told (`TurnTold`). The requester of an attempt
  follows from the order of the requests (`RequestsKept`): any request that is
  preferred to the attempt's own is a later one. One lemma per way a report changes
  the entries, and one per action.
  For the failure, with chains of any length and any depth of the walk, `FailureInv`
  says that the chain is the runs from the top down to the one the walk is at, one
  entry each, and that a walk that stopped by itself stopped where no sub-run broke.

* `PreflightTheorem` (`RefusesOnlyMissing`), from `PreflightAssumption`, for any
  teams, calls, agents and cap. `CheckInv` says that what was read is within what the
  team's phases lead to and, as long as nothing was left out (`Complete`), that all
  its members hold is read or is next: when the walk ends, what was read is closed
  under calls, and so is all of `LedTo`.

The three modules that are instantiated for TLC take their assumption as a
hypothesis of the theorem:

* `RuleSavesProofs`: `SaveTheorem` (`AnswerSaysWhatCoreHas`) for any number of
  workers and writes. `SaveInv` adds that every write before the index is with
  exactly one worker or has its result, and that a write still out has not been
  counted as taken.
* `TeamInstallProofs`: `InstallTheorem` (`ReportIsCore`) for any list of realms.
  The part on failed reads rests on `UnreadIsLenient`: a read that fails only
  ever takes obstacles away.
* `CoreCompatProofs`: `RenewalTheorem` (`VerdictIsRenewed`) for any interval,
  timeout and set of askers, from the fact that a probe is never older than its
  timeout.

`RequestsProofs`, from `LimiterAssumption` and `RequestsAssumption`, about every
behaviour of `Requests`. Each part is shown to be a behaviour of its own
specification (`FixedRuns`, `GateRuns`, `SavesRun`, `InstallRuns`, `CompatRuns`),
so the three theorems above become theorems about the composition
(`AnswerTheorem`, `ReportTheorem`, `VerdictTheorem`). The rest is proved here:

* `TwiceTheorem` (`AtMostTwiceTheLimit`) and `RetryTheorem`
  (`RetryAfterIsEnough`), for any limits, window, length of a second and times of
  purging. The bound relates passes of two windows that the limiter forgets, so
  `FixedInv` says of the whole history of a caller how it lies against its
  window: the passes the window counts are the last ones, those before came
  before it began, and all but the last limit of those a window earlier
  (`Closes`); a caller without a window has its passes behind it in the same way
  (`Behind`), so purging an ended window loses nothing. Retries rest on
  `RefusalOK`: the window that refused a caller last ends by the Retry-After, or
  the caller was let through since.
* `TablesAgree`: the rule of each of the served routes fits the credential its
  handler takes, for both bodies, and no served route lacks a rule. The tables
  are taken together controller by controller (`FitsTogether`), each line found by
  its class (`Lines`); `AllServed` is the converse.
* `OverlapTheorem` (`LostOnlyToOverlap`) for any requests and lists of
  destinations: `ChannelInv` relates the copy a request works on to the history of
  writes. If nothing was written since it was read, the copy is the channel, so that a
  change loses somebody else's only when the two overlap.
* `CredentialTheorem` (`CredentialFits`) and `Never401Theorem` (`SignedInNeverTold401`), from
  `TablesAgree` and `GateInv`: past the table a request keeps what the table saw,
  what is sent is what the handler takes, and a browser whose row stays has a
  session from `find` on. `RefusalsMeant` and `DenialsMeant` carry the weight:
  a 401 or 500 of the BFF is one somebody without a session was meant to get.
* `FailuresTheorem` (`CoreFailuresAreTold`), for every reply that Core can give.
  It needs one assumption on replies (`ReplyOfCore`), which
  `errors/upstream_error.ts` states of Core: who says "Unknown API route" says so
  under the code `route_not_found` or `not_found`. With these words under
  another code, a 404 would be told as a missing record.

`RouteTable` puts tables together with `Together`, a choice among tables that
have no route in common, rather than one override after another: the lemmas
above are about any set of tables.

Only model-checked:

* `StopAlwaysWorks` and `ExpiredRowsGo`: liveness under fairness, which this prover
  does not do.
* `EveryTeamShown`: the tree is built by a `RECURSIVE` operator, and what it
  computes for every input is an induction over data, both out of this prover's
  reach.
* `TotalsAddUp`: totals are folds over bags and the time of spans is a fold over a
  sorted sequence, which the provers treat as unknown operators.
* `FailedReadIsTold`: it has no constants. The tables are those of the code, and the
  run tries every set of failing reads of every page: it is complete as it stands.
* The type invariants of the compositions (`Requests!PartsTypeOK`,
  `MCViews!PartsTypeOK`): those of the parts that matter to a proof are among its
  lemmas.

## Not modelled

* Streams, uploads and downloads beyond their routes, credentials and failures:
  bytes forwarded, with back-pressure left to Node.
* Schemas, types, logging, labels, masking, sorting and layout: one-to-one
  conversions and wording. `phase_output_view.ts` only formats.
* `core_list.ts`: two pure functions that rename a field and drop a sort.
* Thin services (orgs, teams, tokens, reports, builder, dispatch keys): one call
  to Core each; their routes, credentials and failures are in `RouteTable` and
  `CoreClient`, their mappings are not.
* The letter case of paths, which Express ignores and the route table does not.
* `hydrate_bearer` builds a session that is never stored; what it yields is an
  action of `RequestGate`.
* Attempts of a run from its phases, used when a run has no history; the rows of
  spans, the waste and agents' tables of telemetry.
* Core itself, beyond what the BFF relies on: PATs, who they belong to, that
  suspending, deleting or resetting a user revokes them, and that a changed password
  revokes all of a user's but the one it was changed with. What Core did although its
  reply was lost is in `RuleSaves`, not in `Sessions`.
* Teams and settings that change while one check before a run is made, or one tree is
  read.
* The own page of a team opened in a realm that has it installed, which shows the
  realm's tree of that one row (`realm_team_tree` is modelled for whole realms).
* Role changes while signed in: rows keep the role of the last sign-in.

Three things the modules show without a property, because the code promises
nothing about them: a sub-run whose telemetry cannot be read is missing from the
totals and nothing on the page says so (`TelemetryTotals`); the total a
grandchild reports alone, without models, is left out of the cost
(`TelemetryTotals`); and if a resume is not reported, the end of the attempt
after it is dropped, so that the page keeps the earlier end (`RunAttempts`).

## Plan

What the project still lacks, most valuable first:

1. `ChannelDestinations`: an abstract specification of atomic changes that it
   implements as long as no two changes overlap.
2. `PageReads`: `FailedReadIsTold` for any table of reads that has no silent read
   but decorations.
3. `NoOrphanTheorem` with faults of Core: which of them leave a token that no row
   holds, and that no other does.
