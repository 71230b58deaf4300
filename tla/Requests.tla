------------------------------ MODULE Requests ------------------------------
(***************************************************************************)
(* What a request meets before its service, the middleware and its two     *)
(* limiters, and the requests that take several calls to Core: a save of   *)
(* rules, changes of a channel, an install, and the probe of Core.  The    *)
(* parts share nothing but the clock of the limiters, so a behaviour       *)
(* exercises one of them.                                                  *)
(***************************************************************************)
EXTENDS SlidingWindowLimiter, RouteTable

CONSTANTS
    Second, MaxCount, LimitOf,          \* RateLimit: LimitOf is a function on its callers
    Replies, CookieUser, BearerUser,    \* RequestGate
    Browsers, Destination,              \* ChannelDestinations
    Workers, Rules, ToRemove, Writes,   \* RuleSaves
    Realms,                             \* TeamInstall
    Askers, Ttl, Timeout, End           \* CoreCompat

VARIABLES part, buckets, passed, refused, row, kept, req, pc, session, sent, told

VARIABLES personal, exists, list, writes, caller

VARIABLES remove, items, saving, gone, next, doing, out, accepted, held

VARIABLES site_admin, role, carried, rank, unread, stage, blocked, denied, asked, report, added

VARIABLES now, core, last, probe, asker

sliding == <<hits, last_sweep, log, answer>>
fixed == <<buckets, passed, refused>>
gate == <<row, kept, req, pc, session, sent, told>>
channel == <<personal, exists, list, writes, caller>>
save == <<remove, items, saving, gone, next, doing, out, accepted, held>>
install == <<site_admin, role, carried, rank, unread, stage, blocked, denied, asked, report, added>>
compat == <<now, core, last, probe, asker>>

Fixed == INSTANCE RateLimit WITH Callers <- DOMAIN LimitOf

Gate == INSTANCE RequestGate WITH answer <- told, Handlers <- register_routes

Channel == INSTANCE ChannelDestinations WITH Callers <- Browsers

Saves == INSTANCE RuleSaves WITH pc <- saving, Removals <- ToRemove

Install == INSTANCE TeamInstall WITH pc <- stage, refused <- blocked, told <- report

Compat == INSTANCE CoreCompat

\* Core says that it lacks a route in the code or, in older versions, with the
\* code of a missing record and these words (errors/upstream_error.ts).
ReplyOfCore(reply) ==
    reply.json /\ reply.says = "unknown api route" => Gate!CodeOf(reply) \in {"route_not_found", "not_found"}

ASSUME RequestsAssumption ==
    /\ Second \in Nat \ {0} /\ MaxCount \in Nat
    /\ \A c \in DOMAIN LimitOf : LimitOf[c] \in Nat \ {0}
    /\ \A reply \in Replies \ {Gate!Unreachable} : reply \in Gate!Reply /\ ReplyOfCore(reply)
    /\ Writes \subseteq Seq(Rules) /\ <<>> \in ToRemove \cap Writes
    /\ Len(Realms) \in Nat /\ DOMAIN Realms = 1 .. Len(Realms)
    /\ Ttl \in Nat /\ Timeout \in Nat /\ End \in Nat

Blank == [route |-> "unknown", cookie |-> FALSE, header |-> FALSE, bearer |-> "none", role |-> "user"]

\* A process whose table lacks a route does not start (app.ts).  The parts that
\* are not exercised start anywhere.
PartsInit ==
    /\ check_route_auth = {}
    /\ part \in {"sliding", "fixed", "gate", "channel", "save", "install", "compat"}
    /\ Init
    /\ Fixed!Init
    /\ Gate!Init
    /\ part # "gate" => \A f \in DOMAIN Blank : req[f] = Blank[f]
    /\ Channel!Init
    /\ part # "channel" => list = (CHOOSE s \in Channel!Lists(1) : TRUE) /\ personal
    /\ Saves!Init
    /\ part # "save" => remove = <<>> /\ items = <<>> /\ held = {}
    /\ Install!Init
    /\ part # "install" => site_admin /\ role = "guest" /\ carried /\ rank = [p \in DOMAIN Realms |-> "none"]
    /\ Compat!Init
    /\ part # "compat" => core = 2

PartsNext ==
    /\ UNCHANGED part
    /\ \/ part = "sliding" /\ Next /\ UNCHANGED <<fixed, gate, channel, save, install, compat>>
       \/ part = "fixed" /\ Fixed!Next /\ UNCHANGED <<sliding, gate, channel, save, install, compat>>
       \/ part = "gate" /\ Gate!Next /\ UNCHANGED <<clock, sliding, fixed, channel, save, install, compat>>
       \/ part = "channel" /\ Channel!Next /\ UNCHANGED <<clock, sliding, fixed, gate, save, install, compat>>
       \/ part = "save" /\ Saves!Next /\ UNCHANGED <<clock, sliding, fixed, gate, channel, install, compat>>
       \/ part = "install" /\ Install!Next /\ UNCHANGED <<clock, sliding, fixed, gate, channel, save, compat>>
       \/ part = "compat" /\ Compat!Next /\ UNCHANGED <<clock, sliding, fixed, gate, channel, save, install>>

PartsSpec == PartsInit /\ [][PartsNext]_<<part, clock, sliding, fixed, gate, channel, save, install, compat>>

\* The states of the middleware and of both limiters are well typed, and a
\* refusal of either limiter never names a wait of zero.
PartsTypeOK ==
    TypeOK /\ Fixed!TypeOK /\ Gate!TypeOK /\ Channel!TypeOK /\ Saves!TypeOK /\ Install!TypeOK /\ Compat!TypeOK

\* A caller of the builder passes at most twice its limit within a window's
\* length (middleware/rate_limit.ts).
AtMostTwiceTheLimit == Fixed!AtMostTwiceTheLimit

\* A caller of the builder that waits for the Retry-After of its latest refusal
\* gets through (middleware/rate_limit.ts).
RetryAfterIsEnough == Fixed!RetryAfterIsEnough

\* A request the route table lets through has the credential its controller
\* takes, and the check the table makes of it and the call that check guards are
\* about one user (routes/route_auth.ts, middleware/enforce_route_auth.ts,
\* lib/request_auth.ts, the controllers).
CredentialFits == Gate!AdmittedHasCredential /\ Gate!JudgedIsSent

\* A browser that is signed in is never told by the BFF that it is not
\* (middleware/session_auth.ts).
SignedInNeverTold401 == Gate!SignedInNeverTold401

\* What a client is told of a failed call is what Core said
\* (errors/upstream_error.ts).
CoreFailuresAreTold == Gate!CoreFailuresAreTold

\* A change of a channel takes away nothing its user did not point at, unless
\* it overlapped another (services/notification_center_service.ts).
LostOnlyToOverlap == Channel!LostOnlyToOverlap

\* The answer to a save of rules says of each write what Core took
\* (services/notification_center_service.ts).
AnswerSaysWhatCoreHas == Saves!AnswerSaysWhatCoreHas

\* The answer to an install says of each realm what Core did, and a realm Core
\* would take is not refused (services/team_install_service.ts).
ReportIsCore == Install!ReportIsCore

\* A verdict on Core's version used after its interval is being renewed
\* (services/core_compat_service.ts).
VerdictIsRenewed == Compat!VerdictIsRenewed

\* An org that could not be read leaves the decision to Core
\* (services/team_install_service.ts).
UnreadNeverBlocks == Install!UnreadNeverBlocks

\* The install on its own.
InstallSpec == PartsInit /\ part = "install" /\ [][PartsNext]_<<part, clock, sliding, fixed, gate, channel, save, install, compat>>
=============================================================================
