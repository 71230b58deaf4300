--------------------------- MODULE CoreCompatProofs ---------------------------
(***************************************************************************)
(* A verdict on Core is renewed once it is older than its interval, for    *)
(* any interval, timeout and set of askers.                                *)
(***************************************************************************)
EXTENDS CoreCompat, TLAPS

CompatAssumption == Ttl \in Nat /\ Timeout \in Nat /\ End \in Nat

CompatTypes ==
    /\ now \in Nat \ {0} /\ core \in Versions
    /\ asker = [a \in Askers |-> asker[a]]
    /\ last.at \in Nat /\ last.at <= now
    /\ probe = NoProbe \/ \E t \in 1 .. now : probe = [from |-> t]

\* A probe is never older than its timeout.
ProbeInTime == probe # NoProbe => now - probe.from <= Timeout

\* A verdict is compatible only with a version that is new enough.
LastIsJudged == last.compatible => last.api_version >= MIN_CORE_API_VERSION

CompatInv == CompatTypes /\ ProbeInTime /\ LastIsJudged

LEMMA ProbeRange ==
    ASSUME CompatAssumption, CompatTypes, ProbeInTime, probe # NoProbe
    PROVE  /\ probe.from \in Nat /\ probe.from >= 1 /\ probe.from <= now
           /\ probe.from + Timeout >= now
  <1>1. PICK t \in 1 .. now : probe = [from |-> t]
    BY DEF CompatTypes
  <1> QED
    BY <1>1 DEF CompatAssumption, CompatTypes, ProbeInTime

LEMMA CompatInit == CompatAssumption /\ Init => CompatInv
  <1> SUFFICES ASSUME Init PROVE CompatInv
    OBVIOUS
  <1>1. CompatTypes
    BY DEF Init, CompatTypes, NoVerdict, NoProbe
  <1>2. ProbeInTime /\ LastIsJudged
    BY DEF Init, ProbeInTime, LastIsJudged, NoVerdict
  <1> QED
    BY <1>1, <1>2 DEF CompatInv

LEMMA TickInv == ASSUME CompatAssumption, CompatInv, Tick PROVE CompatInv'
  <1>1. /\ now' = now + 1 /\ UNCHANGED <<core, last, probe, asker>>
        /\ probe # NoProbe => now - probe.from < Timeout
    BY DEF Tick, Probing
  <1>2. CompatTypes'
    <2>1. \A t \in 1 .. now : t \in 1 .. now'
      BY <1>1 DEF CompatInv, CompatTypes
    <2> QED
      BY <1>1, <2>1 DEF CompatInv, CompatTypes, NoProbe
  <1>3. ProbeInTime'
    <2> SUFFICES ASSUME probe' # NoProbe PROVE now' - probe'.from <= Timeout
      BY DEF ProbeInTime, NoProbe
    <2>1. now' = now + 1 /\ probe' = probe /\ probe'.from = probe.from
      BY <1>1
    <2>2. probe.from \in Nat /\ now \in Nat /\ Timeout \in Nat
      BY <2>1, ProbeRange DEF CompatInv, CompatTypes, CompatAssumption
    <2>3. now - probe.from < Timeout
      BY <1>1, <2>1
    <2> QED
      BY <2>1, <2>2, <2>3
  <1>4. LastIsJudged'
    BY <1>1 DEF CompatInv, LastIsJudged
  <1> QED
    BY <1>2, <1>3, <1>4 DEF CompatInv

\* The probe that serves a caller is in its time.
LEMMA BegunInv ==
    ASSUME CompatAssumption, CompatInv, UNCHANGED <<now, core, last>>,
           probe' \in {probe, Begun}, NEW a \in Askers, NEW given,
           asker' = [asker EXCEPT ![a] = given]
    PROVE  CompatInv'
  <1>1. now \in 1 .. now /\ now - now = 0 /\ 0 <= Timeout
    BY DEF CompatAssumption, CompatInv, CompatTypes
  <1>2. probe' = probe \/ probe' = [from |-> now]
    BY DEF Begun
  <1>3. CompatTypes' /\ ProbeInTime'
    BY <1>1, <1>2 DEF CompatInv, CompatTypes, ProbeInTime, NoProbe
  <1>4. LastIsJudged'
    BY DEF CompatInv, LastIsJudged
  <1> QED
    BY <1>3, <1>4 DEF CompatInv

LEMMA LandsInv ==
    ASSUME CompatInv, NEW version \in Versions, Lands(version)
    PROVE  CompatInv'
  <1>1. /\ probe' = NoProbe /\ now' = now /\ core' = core
        /\ asker' = [a \in Askers |-> IF asker[a] = Waits THEN Given(last') ELSE asker[a]]
        /\ last' = [at |-> now, api_version |-> version, compatible |-> judge(version)]
    BY DEF Lands
  <1>2. CompatTypes' /\ ProbeInTime'
    BY <1>1 DEF CompatInv, CompatTypes, ProbeInTime, NoProbe
  <1>3. LastIsJudged'
    BY <1>1 DEF CompatInv, CompatTypes, LastIsJudged, judge, MIN_CORE_API_VERSION, Versions
  <1> QED
    BY <1>2, <1>3 DEF CompatInv

LEMMA CompatNext == CompatAssumption /\ CompatInv /\ [Next]_vars => CompatInv'
  <1> SUFFICES ASSUME CompatAssumption, CompatInv, [Next]_vars PROVE CompatInv'
    OBVIOUS
  <1>1. CASE Tick
    BY <1>1, TickInv
  <1>2. CASE Restart
    BY <1>2 DEF Restart, CompatInv, CompatTypes, ProbeInTime, LastIsJudged
  <1>3. CASE ProbeLands \/ ProbeFails
    <2>1. core \in Versions /\ NoVersion \in Versions
      BY DEF CompatInv, CompatTypes, NoVersion, Versions
    <2> QED
      BY <1>3, <2>1, LandsInv DEF ProbeLands, ProbeFails
  <1>4. ASSUME NEW a \in Askers, Current(a) \/ ApiVersion(a) \/ Check(a) PROVE CompatInv'
    <2>1. UNCHANGED <<now, core, last>> /\ probe' \in {probe, Begun}
      BY <1>4 DEF Current, ApiVersion, Check
    <2>2. PICK given : asker' = [asker EXCEPT ![a] = given]
      BY <1>4 DEF Current, ApiVersion, Check
    <2> QED
      BY <2>1, <2>2, BegunInv
  <1>5. CASE UNCHANGED vars
    BY <1>5 DEF vars, CompatInv, CompatTypes, ProbeInTime, LastIsJudged
  <1> QED
    BY <1>1, <1>2, <1>3, <1>4, <1>5 DEF Next

\* VerdictIsRenewed, for one step: of the one asker who is answered, and of the
\* probe that begins.
AnswerIsRenewed(a) ==
    LET verdict == asker'[a].verdict IN
    asker'[a].pc = "given" /\ asker'[a] # asker[a] =>
        /\ now - verdict.at > Ttl => probe'.from \in (IF now > Timeout THEN now - Timeout ELSE 1)..now
        /\ asker[a].pc = "waits" => verdict.at = now
        /\ verdict.compatible => verdict.api_version >= 2

ProbeIsDue == probe' # probe /\ probe' # NoProbe => probe = NoProbe /\ (Known => now - last.at > Ttl)

\* A caller served from a verdict that is too old has a probe behind it.
LEMMA StaleIsProbed ==
    ASSUME CompatAssumption, CompatInv, probe' = IF Stale THEN Begun ELSE probe,
           now - last.at > Ttl
    PROVE  probe'.from \in (IF now > Timeout THEN now - Timeout ELSE 1)..now
  <1>1. now \in Nat /\ now >= 1 /\ Timeout \in Nat
    BY DEF CompatAssumption, CompatInv, CompatTypes
  <1>2. probe' = Begun
    BY DEF Stale
  <1>3. CASE Probing
    <2>1. /\ probe.from \in Nat /\ probe.from >= 1 /\ probe.from <= now
          /\ probe.from + Timeout >= now
      BY <1>3, ProbeRange DEF Probing, CompatInv
    <2> QED
      BY <1>1, <1>2, <1>3, <2>1 DEF Begun
  <1>4. CASE ~Probing
    BY <1>1, <1>2, <1>4 DEF Begun
  <1> QED
    BY <1>3, <1>4

LEMMA LastIsSound == CompatInv => (last.compatible => last.api_version >= 2)
  BY DEF CompatInv, LastIsJudged, MIN_CORE_API_VERSION

\* Current and ApiVersion, when they answer at once, give the verdict kept.
LEMMA GivenLast ==
    ASSUME CompatAssumption, CompatInv, NEW a \in Askers, asker[a].pc # "waits",
           asker' = [asker EXCEPT ![a] = Given(last)],
           probe' = IF Stale THEN Begun ELSE probe, NEW b \in Askers
    PROVE  AnswerIsRenewed(b)
  <1>1. asker'[a] = Given(last) /\ (b # a => asker'[b] = asker[b])
    BY DEF CompatInv, CompatTypes
  <1>2. CASE b = a
    <2>1. asker'[b].verdict = last
      BY <1>1, <1>2 DEF Given
    <2> QED
      BY <1>2, <2>1, StaleIsProbed, LastIsSound DEF AnswerIsRenewed
  <1>3. CASE b # a
    BY <1>1, <1>3 DEF AnswerIsRenewed
  <1> QED
    BY <1>2, <1>3

\* Beginning to wait answers nobody.
LEMMA WaitsGivesNothing ==
    ASSUME CompatInv, NEW a \in Askers, asker' = [asker EXCEPT ![a] = Waits], NEW b \in Askers
    PROVE  AnswerIsRenewed(b)
  <1>1. asker'[a] = Waits /\ (b # a => asker'[b] = asker[b])
    BY DEF CompatInv, CompatTypes
  <1>2. Waits.pc # "given"
    BY DEF Waits
  <1> QED
    BY <1>1, <1>2 DEF AnswerIsRenewed

LEMMA StaleProbeIsDue ==
    ASSUME probe' = IF Stale THEN Begun ELSE probe
    PROVE  ProbeIsDue
  BY DEF ProbeIsDue, Stale, Begun, Probing

LEMMA LandsRenews ==
    ASSUME CompatAssumption, CompatInv, NEW version \in Versions, Lands(version)
    PROVE  ProbeIsDue /\ \A b \in Askers : AnswerIsRenewed(b)
  <1>1. /\ probe' = NoProbe
        /\ last' = [at |-> now, api_version |-> version, compatible |-> judge(version)]
        /\ asker' = [a \in Askers |-> IF asker[a] = Waits THEN Given(last') ELSE asker[a]]
    BY DEF Lands
  <1>2. now - now = 0 /\ ~(0 > Ttl)
    BY DEF CompatAssumption, CompatInv, CompatTypes
  <1>3. last'.at = now /\ (last'.compatible => last'.api_version >= 2)
    BY <1>1 DEF judge, MIN_CORE_API_VERSION, Versions
  <1>4. ASSUME NEW b \in Askers PROVE AnswerIsRenewed(b)
    <2>1. CASE asker[b] = Waits
      <3>1. asker'[b].verdict = last'
        BY <1>1, <2>1 DEF Given
      <3> QED
        BY <1>2, <1>3, <3>1 DEF AnswerIsRenewed
    <2>2. CASE asker[b] # Waits
      BY <1>1, <2>2 DEF AnswerIsRenewed
    <2> QED
      BY <2>1, <2>2
  <1> QED
    BY <1>1, <1>4 DEF ProbeIsDue

LEMMA StepRenews ==
    CompatAssumption /\ CompatInv /\ [Next]_vars =>
        ProbeIsDue /\ \A b \in Askers : AnswerIsRenewed(b)
  <1> SUFFICES ASSUME CompatAssumption, CompatInv, [Next]_vars
               PROVE  ProbeIsDue /\ \A b \in Askers : AnswerIsRenewed(b)
    OBVIOUS
  <1>1. CASE Tick \/ Restart \/ UNCHANGED vars
    BY <1>1 DEF Tick, Restart, vars, ProbeIsDue, AnswerIsRenewed
  <1>2. CASE ProbeLands \/ ProbeFails
    <2>1. core \in Versions /\ NoVersion \in Versions
      BY DEF CompatInv, CompatTypes, NoVersion, Versions
    <2> QED
      BY <1>2, <2>1, LandsRenews DEF ProbeLands, ProbeFails
  <1>3. ASSUME NEW a \in Askers, Current(a)
        PROVE  ProbeIsDue /\ \A b \in Askers : AnswerIsRenewed(b)
    BY <1>3, GivenLast, StaleProbeIsDue DEF Current
  <1>4. ASSUME NEW a \in Askers, ApiVersion(a)
        PROVE  ProbeIsDue /\ \A b \in Askers : AnswerIsRenewed(b)
    BY <1>4, GivenLast, WaitsGivesNothing, StaleProbeIsDue DEF ApiVersion
  <1>5. ASSUME NEW a \in Askers, Check(a)
        PROVE  ProbeIsDue /\ \A b \in Askers : AnswerIsRenewed(b)
    <2>1. ProbeIsDue
      BY <1>5 DEF Check, ProbeIsDue, Begun, Probing
    <2> QED
      BY <1>5, <2>1, WaitsGivesNothing DEF Check
  <1> QED
    BY <1>1, <1>2, <1>3, <1>4, <1>5 DEF Next

(***************************************************************************)
(* A verdict used after its interval has a probe behind it that ends in    *)
(* time, and probes are no closer than the interval (current, api_version, *)
(* check).                                                                 *)
(***************************************************************************)
THEOREM RenewalTheorem == ASSUME CompatAssumption PROVE Spec => VerdictIsRenewed
  <1>1. Spec => []CompatInv
    BY CompatInit, CompatNext, PTL DEF Spec
  <1>2. CompatInv /\ [Next]_vars =>
          [/\ \A a \in Askers : asker'[a].pc = "given" /\ asker'[a] # asker[a] =>
                LET verdict == asker'[a].verdict IN
                /\ now - verdict.at > Ttl => probe'.from \in (IF now > Timeout THEN now - Timeout ELSE 1)..now
                /\ asker[a].pc = "waits" => verdict.at = now
                /\ verdict.compatible => verdict.api_version >= 2
           /\ probe' # probe /\ probe' # NoProbe => probe = NoProbe /\ (Known => now - last.at > Ttl)]_vars
    BY StepRenews DEF ProbeIsDue, AnswerIsRenewed
  <1> QED
    BY <1>1, <1>2, PTL DEF Spec, VerdictIsRenewed
=============================================================================
