------------------------------ MODULE CoreCompat ------------------------------
(***************************************************************************)
(* What the BFF knows of the version of the Core it runs against: one      *)
(* verdict, kept for an interval, and one probe that all callers share     *)
(* (services/core_compat_service.ts).  Core is restarted and upgraded at   *)
(* any time.                                                               *)
(***************************************************************************)
EXTENDS Naturals

CONSTANTS
    Askers,         \* the requests, and the start of the server
    Ttl,            \* how long a verdict is used without a probe
    Timeout,        \* how long a probe may take
    End             \* bound: the clock stops here

VARIABLES
    now,
    core,           \* the version Core runs
    last,           \* the verdict kept
    probe,          \* the probe under way
    asker           \* what each asker waits for or was given

vars == <<now, core, last, probe, asker>>

\* The API version Core reports; 0 when it reports none.
Versions == 0..3
NoVersion == 0

MIN_CORE_API_VERSION == 2

judge(version) == version >= MIN_CORE_API_VERSION

NoVerdict == [at |-> 0, api_version |-> NoVersion, compatible |-> FALSE]
NoProbe == [from |-> 0]

Probing == probe # NoProbe
Known == last # NoVerdict

Waits == [pc |-> "waits"]
Given(verdict) == [pc |-> "given", verdict |-> verdict]

TypeOK ==
    /\ now \in 1..End /\ core \in Versions
    /\ last.at \in 0..now /\ last.api_version \in Versions /\ last.compatible \in BOOLEAN
    /\ probe.from \in 0..now
    /\ \A a \in Askers : asker[a].pc \in {"away", "waits", "given"}

Init ==
    /\ now = 1 /\ core \in Versions
    /\ last = NoVerdict /\ probe = NoProbe
    /\ asker = [a \in Askers |-> [pc |-> "away"]]

\* A probe is given up when its time is over.
Tick ==
    /\ now < End /\ now' = now + 1
    /\ Probing => now - probe.from < Timeout
    /\ UNCHANGED <<core, last, probe, asker>>

Restart ==
    /\ core' \in Versions \ {core}
    /\ UNCHANGED <<now, last, probe, asker>>

\* check: a probe under way is shared.
Begun == IF Probing THEN probe ELSE [from |-> now]

\* Mutant: a verdict once there is kept for good.
StaleNever == ~Known

Stale == ~Known \/ now - last.at > Ttl

\* current: the verdict as it is, and a probe behind it when it is stale.
Current(a) ==
    /\ asker[a].pc # "waits"
    /\ asker' = [asker EXCEPT ![a] = Given(last)]
    /\ probe' = IF Stale THEN Begun ELSE probe
    /\ UNCHANGED <<now, core, last>>

\* api_version: waits only when there is no verdict at all.
ApiVersion(a) ==
    /\ asker[a].pc # "waits"
    /\ asker' = [asker EXCEPT ![a] = IF Known THEN Given(last) ELSE Waits]
    /\ probe' = IF Stale THEN Begun ELSE probe
    /\ UNCHANGED <<now, core, last>>

\* check, when the server starts.
Check(a) ==
    /\ ~Known /\ asker[a].pc = "away"
    /\ asker' = [asker EXCEPT ![a] = Waits] /\ probe' = Begun
    /\ UNCHANGED <<now, core, last>>

Lands(version) ==
    /\ Probing /\ probe' = NoProbe
    /\ last' = [at |-> now, api_version |-> version, compatible |-> judge(version)]
    /\ asker' = [a \in Askers |-> IF asker[a] = Waits THEN Given(last') ELSE asker[a]]
    /\ UNCHANGED <<now, core>>

\* The probe ends with what Core says now, or without an answer, which is a
\* verdict like any other.
ProbeLands == Lands(core)
ProbeFails == Lands(NoVersion)

Next ==
    \/ Tick \/ Restart \/ ProbeLands \/ ProbeFails
    \/ \E a \in Askers : Current(a) \/ ApiVersion(a) \/ Check(a)

Spec == Init /\ [][Next]_vars

-----------------------------------------------------------------------------
\* A verdict used after its interval has a probe behind it that ends in time,
\* and probes are no closer than the interval; nobody who needs the version is
\* answered before there is a verdict, and a Core that is too old, silent or
\* gone is never taken for a good one (current, api_version, check).
VerdictIsRenewed ==
    [][/\ \A a \in Askers : asker'[a].pc = "given" /\ asker'[a] # asker[a] =>
            LET verdict == asker'[a].verdict IN
            /\ now - verdict.at > Ttl => probe'.from \in (IF now > Timeout THEN now - Timeout ELSE 1)..now
            /\ asker[a].pc = "waits" => verdict.at = now
            /\ verdict.compatible => verdict.api_version >= 2
       /\ probe' # probe /\ probe' # NoProbe => probe = NoProbe /\ (Known => now - last.at > Ttl)]_vars
=============================================================================
