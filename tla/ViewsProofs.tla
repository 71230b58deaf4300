------------------------------ MODULE ViewsProofs ------------------------------
(***************************************************************************)
(* What the views show, for every catalog of events and set of channels,   *)
(* every list and number of pages, every inbox and every chain of          *)
(* sub-runs: the rules of an event, the lists read in pages, the merged    *)
(* inbox and the failure of a run, each with its inductive invariant, and  *)
(* at the end the same of the parts put together.                          *)
(***************************************************************************)
EXTENDS Views, SequenceTheorems, FiniteSetTheorems, WellFoundedInduction, TLAPS

-----------------------------------------------------------------------------
\* The rules of an event.

RulesOK == rules \in [Levels -> SUBSET Rule]

LEMMA RulesStep ==
    ASSUME RulesOK, [Next]_vars
    PROVE  RulesOK'
  <1>1. ASSUME NEW l \in Levels, NEW event \in Selectors, NEW channel \in Channels,
               NEW enabled \in BOOLEAN, SetRule(l, event, channel, enabled)
        PROVE  RulesOK'
    <2>1. PICK id \in IF Same(l, event, channel) = {} THEN NewIds(l)
                      ELSE {r.id : r \in Same(l, event, channel)} :
             rules' = [rules EXCEPT ![l] =
                          (rules[l] \ Same(l, event, channel)) \cup
                          {[id |-> id, event |-> event, channel |-> channel, enabled |-> enabled]}]
      BY <1>1 DEF SetRule
    <2>2. rules[l] \subseteq Rule
      BY DEF RulesOK
    <2>3. id \in RuleIds
      BY <2>1, <2>2 DEF Same, Rule, NewIds
    <2>4. [id |-> id, event |-> event, channel |-> channel, enabled |-> enabled] \in Rule
      BY <2>3 DEF Rule
    <2> QED
      BY <2>1, <2>2, <2>4 DEF RulesOK
  <1>2. ASSUME NEW l \in Levels, NEW rule \in rules[l], RemoveRule(l, rule)
        PROVE  RulesOK'
    BY <1>2 DEF RemoveRule, RulesOK
  <1>3. CASE \E c \in Channels : SwitchChannel(c)
    BY <1>3 DEF SwitchChannel, RulesOK
  <1>4. CASE UNCHANGED vars
    BY <1>4 DEF vars, RulesOK
  <1> QED
    BY <1>1, <1>2, <1>3, <1>4 DEF Next

LEMMA RulesCorrect == Spec => []RulesOK
  <1>1. Init => RulesOK
    BY DEF Init, RulesOK
  <1> QED
    BY <1>1, RulesStep, PTL DEF Spec

\* Rules have numbers, so a list that is not empty has a first.
LEMMA FirstIsListed ==
    ASSUME NEW some \in SUBSET Rule, some # {}
    PROVE  First(some) \in some
  <1> DEFINE ids == {r.id : r \in some}
  <1>1. ids \subseteq Nat /\ ids # {}
    BY RulesAssumption DEF Rule
  <1> HIDE DEF ids
  <1> DEFINE less == {ss \in Nat \X Nat : ss[1] < ss[2]}
  <1>2. IsWellFoundedOn(less, Nat)
    BY NatLessThanWellFounded DEF OpToRel
  <1> HIDE DEF less
  <1>3. PICK least \in ids : \A i \in ids : ~(<<i, least>> \in less)
    BY <1>1, <1>2, WFMin
  <1>4. ASSUME NEW i \in ids PROVE least <= i
    <2>1. i \in Nat /\ least \in Nat
      BY <1>1
    <2>2. i < least => <<i, least>> \in less
      BY <2>1 DEF less
    <2> QED
      BY <1>3, <2>1, <2>2
  <1>5. \E r \in some : \A s \in some : r.id <= s.id
    BY <1>3, <1>4 DEF ids
  <1> QED
    BY <1>5 DEF First

\* A rule taken out of the realm's list is one that is off.
LEMMA OverridesAreOff ==
    ASSUME RulesOK, NEW e, NEW r \in overrides(e)
    PROVE  r \in covering(rules["realm"], e) /\ ~r.enabled
  <1>1. PICK o \in covering(rules["org"], e) :
            Overriding(o, e) # {} /\ r = First(Overriding(o, e))
    BY DEF overrides, off_here, override_of
  <1>2. Overriding(o, e) \in SUBSET Rule
    BY DEF RulesOK, Levels, Overriding, covering
  <1>3. r \in Overriding(o, e)
    BY <1>1, <1>2, FirstIsListed
  <1> QED
    BY <1>3 DEF Overriding

\* The rules that count for an event in the realm.
LEMMA LiveRules ==
    ASSUME RulesOK, NEW e
    PROVE  sent(e, "realm") <=>
               \/ \E r \in covering(rules["realm"], e) : Sends(r)
               \/ \E o \in covering(rules["org"], e) : Sends(o) /\ Overriding(o, e) = {}
  <1>1. \A r \in overrides(e) : ~Sends(r)
    BY OverridesAreOff DEF Sends
  <1> QED
    BY <1>1 DEF sent, live, ListedOrg, ListedRealm, off_here

LEMMA SentLemma ==
    ASSUME RulesOK, NEW e
    PROVE  sent(e, "realm") <=> \E c \in Channels : Delivers(e, c)
  <1>1. \A l \in Levels : \A r \in covering(rules[l], e) :
            r.channel \in Channels /\ r.enabled \in BOOLEAN
    BY DEF RulesOK, covering, Rule
  <1>2. \A r \in covering(rules["realm"], e) : Sends(r) => Delivers(e, r.channel)
    BY DEF Sends, Delivers
  <1>3. \A o \in covering(rules["org"], e) :
            Sends(o) /\ Overriding(o, e) = {} => Delivers(e, o.channel)
    BY DEF Sends, Delivers, Overriding
  <1>4. ASSUME NEW c \in Channels, Delivers(e, c)
        PROVE  \/ \E r \in covering(rules["realm"], e) : Sends(r)
               \/ \E o \in covering(rules["org"], e) : Sends(o) /\ Overriding(o, e) = {}
    BY <1>4 DEF Sends, Delivers, Overriding
  <1> QED
    BY <1>1, <1>2, <1>3, <1>4, LiveRules DEF Levels

(***************************************************************************)
(* The Events page of a realm says sent just when some channel delivers    *)
(* the event, whatever rules there are (event_groups).                     *)
(***************************************************************************)
THEOREM SentTheorem == Spec => []SentIsDelivered
  <1>1. RulesOK => SentIsDelivered
    BY SentLemma DEF SentIsDelivered
  <1> QED
    BY <1>1, RulesCorrect, PTL

(***************************************************************************)
(* The check of a realm names what sends whenever its Events page says     *)
(* sent, and differs from that page only by the rules of teams and by org  *)
(* rules that the realm has off, whatever rules there are (resolve_event   *)
(* and event_groups).                                                      *)
(***************************************************************************)
THEOREM CheckTheorem == Spec => []CheckAgrees
  <1>0. \A e : \A r : r.event \in matching_selectors(e) =>
            /\ r \in rules["org"] => <<"org", r>> \in winners(e)
            /\ r \in rules["realm"] => <<"realm", r>> \in winners(e)
    BY DEF winners, InPlay, realm_rules
  <1>1. ASSUME RulesOK, NEW e \in Catalog, sent(e, "realm")
        PROVE  \E w \in winners(e) : Sends(w[2])
    <2>1. CASE \E r \in covering(rules["realm"], e) : Sends(r)
      <3>1. PICK r \in covering(rules["realm"], e) : Sends(r)
        BY <2>1
      <3>2. <<"realm", r>> \in winners(e)
        BY <1>0 DEF covering
      <3> QED
        BY <3>1, <3>2
    <2>2. CASE \E o \in covering(rules["org"], e) : Sends(o)
      <3>1. PICK o \in covering(rules["org"], e) : Sends(o)
        BY <2>2
      <3>2. <<"org", o>> \in winners(e)
        BY <1>0 DEF covering
      <3> QED
        BY <3>1, <3>2
    <2> QED
      BY <1>1, <2>1, <2>2, LiveRules
  <1>2. ASSUME RulesOK, NEW e \in Catalog, ~sent(e, "realm"),
               NEW w \in winners(e), Sends(w[2])
        PROVE  \/ w[1] = "realm" /\ w[2] \in rules["team"] \ rules["realm"]
               \/ /\ w[1] = "org"
                  /\ \E r \in rules["realm"] :
                         /\ <<"realm", r>> \in winners(e)
                         /\ r.channel = w[2].channel /\ ~r.enabled
    <2>1. CASE \E r \in rules["org"] : w = <<"org", r>>
      <3>1. PICK o \in rules["org"] : w = <<"org", o>>
        BY <2>1
      <3>2. o \in covering(rules["org"], e)
        BY <3>1 DEF winners, covering
      <3>3. Overriding(o, e) # {}
        BY <1>2, <3>1, <3>2, LiveRules
      <3>4. PICK r \in covering(rules["realm"], e) : ~r.enabled /\ r.channel = o.channel
        BY <3>3 DEF Overriding
      <3>5. r \in rules["realm"] /\ <<"realm", r>> \in winners(e)
        BY <1>0 DEF covering
      <3> QED
        BY <3>1, <3>4, <3>5
    <2>2. CASE \E r \in realm_rules : w = <<"realm", r>>
      <3>1. PICK r \in realm_rules : w = <<"realm", r>>
        BY <2>2
      <3>2. r \notin covering(rules["realm"], e)
        BY <1>2, <3>1, LiveRules
      <3>3. r \in rules["team"] \ rules["realm"]
        BY <3>1, <3>2 DEF winners, covering, realm_rules
      <3> QED
        BY <3>1, <3>3
    <2> QED
      BY <2>1, <2>2 DEF winners, InPlay
  <1>3. RulesOK => CheckAgrees
    BY <1>1, <1>2 DEF CheckAgrees
  <1> QED
    BY <1>3, RulesCorrect, PTL

(***************************************************************************)
(* Turning something on never silences an event in the realm, although a   *)
(* realm's rules can override the org's, nor does a change of the rules of *)
(* a team.                                                                 *)
(***************************************************************************)
THEOREM SilencedTheorem == Spec => SilencedOnlyByTurningOff
  <1>1. RulesOK => SentIsDelivered
    BY SentLemma DEF SentIsDelivered
  <1>2. RulesOK' => SentIsDelivered'
    BY <1>1, PTL
  <1>3. ASSUME RulesOK, RulesOK', NEW e \in Catalog, sent(e, "realm"), ~TurnsOff
        PROVE  sent(e, "realm")'
    <2>1. PICK c \in Channels : Delivers(e, c)
      BY <1>3, SentLemma
    <2>2. \A l \in {"org", "realm"} : \A r \in covering(rules[l], e) :
              r.enabled => r \in covering(rules[l], e)'
      BY <1>3 DEF TurnsOff, covering
    <2>3. \A r \in covering(rules["realm"], e)' : r.enabled \/ r \in covering(rules["realm"], e)
      BY <1>3 DEF TurnsOff, covering
    <2>4. c \notin switched_off'
      BY <1>3, <2>1 DEF TurnsOff, Delivers
    <2>5. Delivers(e, c)'
      BY <2>1, <2>2, <2>3, <2>4 DEF Delivers, Levels
    <2> QED
      BY <1>3, <1>2, <2>5 DEF SentIsDelivered
  <1>4. RulesOK /\ RulesOK' /\ [Next]_vars =>
            [TurnsOff \/ \A e \in Catalog : sent(e, "realm") => sent(e, "realm")']_vars
    BY <1>3
  <1> QED
    BY <1>4, RulesCorrect, PTL DEF Spec, SilencedOnlyByTurningOff

\* A row that is not on has no org rule on, and no rule on among those it shows
\* of the realm.
LEMMA NotOn ==
    ASSUME NEW e, status(e) \notin {"default", "both", "realm_only"}
    PROVE  /\ ~SwitchedOn(covering(rules["org"], e))
           /\ ~SwitchedOn(RealmRow(e))
  <1>1. CASE RealmRow(e) # {} /\ SwitchedOn(RealmRow(e))
    BY <1>1 DEF status
  <1>2. CASE RealmRow(e) # {} /\ ~SwitchedOn(RealmRow(e))
    BY <1>2 DEF status
  <1>3. CASE RealmRow(e) = {}
    BY <1>3 DEF status, SwitchedOn
  <1> QED
    BY <1>1, <1>2, <1>3

(***************************************************************************)
(* The realm's page and its Events page disagree about an event only where *)
(* the realm's page hides a broader rule of the realm, or leaves out       *)
(* channels and overrides (realm_events and event_groups).                 *)
(***************************************************************************)
THEOREM StatusTheorem == Spec => []StatusExplained
  <1>1. ASSUME RulesOK, NEW e \in Catalog \cap RealmRows, sent(e, "realm"),
               status(e) \notin {"default", "both", "realm_only"}
        PROVE  /\ own(e) # {} /\ ~SwitchedOn(own(e))
               /\ \E r \in covering(rules["realm"], e) \ own(e) : Sends(r)
    <2>1. ~SwitchedOn(covering(rules["org"], e)) /\ ~SwitchedOn(RealmRow(e))
      BY <1>1, NotOn
    <2>2. PICK r \in covering(rules["realm"], e) : Sends(r)
      <3>1. \A o \in covering(rules["org"], e) : ~Sends(o)
        BY <2>1 DEF SwitchedOn, Sends
      <3> QED
        BY <1>1, <3>1, LiveRules
    <2>3. r.enabled
      BY <2>2 DEF Sends
    <2>4. own(e) # {}
      BY <2>1, <2>3 DEF RealmRow, broader, SwitchedOn
    <2>5. ~SwitchedOn(own(e))
      BY <2>1 DEF RealmRow, SwitchedOn
    <2>6. r \notin own(e)
      BY <2>3, <2>5 DEF SwitchedOn
    <2> QED
      BY <2>2, <2>4, <2>5, <2>6
  <1>2. ASSUME RulesOK, NEW e \in Catalog \cap RealmRows, ~sent(e, "realm")
        PROVE  /\ \A r \in covering(rules["realm"], e) : ~Sends(r)
               /\ \A o \in covering(rules["org"], e) : Sends(o) => off_here(o, e, "realm")
    BY <1>2, LiveRules DEF off_here
  <1>3. RulesOK => StatusExplained
    BY <1>1, <1>2 DEF StatusExplained
  <1> QED
    BY <1>3, RulesCorrect, PTL

-----------------------------------------------------------------------------
\* The lists read in pages.

\* What was collected is how the list begins.
Begins == Len(out) <= Len(rows) /\ \A i \in DOMAIN out : out[i] = rows[i]

\* Teams end with as many rows as the first page told, unless rows left.
Told == ended \in {"no", "complete"} /\ (ended = "complete" /\ changes = 0 => Len(out) = Len(rows))

\* Realms: of the rows up to where the next page starts none was passed over that
\* has not moved, and none is beyond it once there are no more pages.
Covered ==
    /\ Len(out) <= offset
    /\ \A j \in DOMAIN rows : j <= offset /\ rows[j] \in kept \ shifted => rows[j] \in Lists!ToSet(out)
    /\ \E k \in Nat : offset = k * Step
    /\ changes = 0 => (offset < Len(rows) => Len(out) = offset) /\ (offset >= Len(rows) => Len(out) = Len(rows))
    /\ ended = "no" => offset < ListCap
    /\ ended = "complete" => Len(rows) <= offset
    /\ ended = "cut" => offset <= ListCap /\ (changes = 0 => offset < Len(rows))

\* The types, apart.
ListsTyped ==
    /\ loop \in {"mine", "realms"} /\ ended \in {"no", "complete", "cut"}
    /\ rows \in Seq(Items) /\ out \in Seq(Items)
    /\ offset \in Nat /\ changes \in Nat /\ total \in Nat \cup {-1}

\* The inductive invariant.
ListsInv ==
    /\ ListsTyped
    /\ kept \subseteq Lists!ToSet(rows)
    /\ changes = 0 => Begins /\ total \in {-1, Len(rows)}
    /\ loop = "mine" => Told
    /\ loop = "realms" => Covered

\* Pages that do not reach the cap leave room for one more.
LEMMA NextMultiple ==
    ASSUME NEW s \in Nat \ {0}, NEW k \in Nat, NEW m \in Nat, k * s < m * s
    PROVE  k * s + s <= m * s /\ k * s + s = (k + 1) * s
  <1>1. k * s + s = (k + 1) * s
    OBVIOUS
  <1>2. k < m
    <2> SUFFICES ASSUME m <= k PROVE FALSE
      OBVIOUS
    <2>1. m * s <= k * s
      OBVIOUS
    <2> QED BY <2>1
  <1>3. k + 1 <= m
    BY <1>2
  <1>4. (k + 1) * s <= m * s
    BY <1>3
  <1> QED BY <1>1, <1>4

\* A finite set as a sequence.
LEMMA Listed ==
    ASSUME NEW held, IsFiniteSet(held)
    PROVE  /\ Lists!SetToSeq(held) \in Seq(held)
           /\ held \subseteq Lists!ToSet(Lists!SetToSeq(held))
  <1> DEFINE n == Cardinality(held)
             all == {g \in [1..n -> held] : Lists!IsInjective(g)}
  <1>1. n \in Nat /\ Bijection(1..n, held) # {}
    BY FS_CardinalityType DEF ExistsBijection
  <1>2. PICK f \in Bijection(1..n, held) : TRUE
    BY <1>1
  <1>3. f \in all
    BY <1>2 DEF Bijection, Injection, IsInjective, Lists!IsInjective
  <1>a. Lists!Cardinality(held) = n
    BY DEF Lists!Cardinality, Cardinality
  <1>4. Lists!SetToSeq(held) \in all
    <2> HIDE DEF n
    <2>1. Lists!SetToSeq(held) = CHOOSE g \in [1..n -> held] : Lists!IsInjective(g)
      BY <1>a DEF Lists!SetToSeq
    <2> QED BY <1>3, <2>1
  <1> DEFINE s == Lists!SetToSeq(held)
  <1>5. s \in Injection(1..n, held)
    BY <1>4 DEF Injection, IsInjective, Lists!IsInjective
  <1>6. IsFiniteSet(1..n) /\ Cardinality(1..n) = n
    BY <1>1, FS_Interval
  <1>7. s \in Surjection(1..n, held)
    <2> HIDE DEF s
    <2> QED BY <1>5, <1>6, FS_Injection DEF n
  <1> HIDE DEF s, n
  <1>8. s \in [1..n -> held] /\ \A x \in held : \E i \in 1..n : s[i] = x
    BY <1>7 DEF Surjection
  <1>9. s \in Seq(held) /\ DOMAIN s = 1..n
    BY <1>1, <1>8
  <1>10. held \subseteq Lists!ToSet(s)
    BY <1>8, <1>9 DEF Lists!ToSet
  <1> QED BY <1>9, <1>10 DEF s

LEMMA ListsStart == ASSUME Lists!Init PROVE ListsInv
  <1>1. PICK held \in SUBSET Items : rows = Lists!SetToSeq(held) /\ kept = held
    BY DEF Lists!Init
  <1>2. IsFiniteSet(held)
    BY ListsAssumption, FS_Subset
  <1>3. rows \in Seq(held) /\ kept \subseteq Lists!ToSet(rows)
    BY <1>1, <1>2, Listed
  <1>4. rows \in Seq(Items)
    BY <1>1, <1>3
  <1>5. out = <<>> /\ offset = 0 /\ total = -1 /\ ended = "no" /\ changes = 0 /\ loop \in {"mine", "realms"}
    BY DEF Lists!Init
  <1>6. out \in Seq(Items) /\ Len(out) = 0 /\ DOMAIN out = {}
    BY <1>5
  <1>7. Len(rows) \in Nat /\ DOMAIN rows = 1..Len(rows)
    BY <1>4
  <1>8. Covered
    <2>1. \E k \in Nat : offset = k * Step
      BY <1>5, ListsAssumption
    <2> QED BY <1>5, <1>6, <1>7, <2>1, ListsAssumption DEF Covered
  <1> QED BY <1>3, <1>4, <1>5, <1>6, <1>7, <1>8 DEF ListsInv, ListsTyped, Begins, Told

\* How many rows a page has.
Holds(length, from) ==
    /\ length \in Nat
    /\ from + Step < Len(rows) => length = Step
    /\ from < Len(rows) /\ from + Step >= Len(rows) => from + length = Len(rows)
    /\ from >= Len(rows) => length = 0

\* So much, whichever case it is.
LEMMA Amount ==
    ASSUME NEW length, NEW from \in Nat, Len(rows) \in Nat, Holds(length, from)
    PROVE  /\ length \in Nat /\ length <= Step
           /\ from <= Len(rows) => from + length <= Len(rows)
           /\ length = 0 => from >= Len(rows)
           /\ from + Step < Len(rows) => length = Step
           /\ from <= Len(rows) /\ from + Step >= Len(rows) => from + length = Len(rows)
           /\ from >= Len(rows) => length = 0
           /\ \A j \in Nat : from < j /\ j <= Len(rows) /\ j <= from + Step => j - from \in 1..length
  <1>1. Step \in Nat \ {0}
    BY ListsAssumption
  <1> DEFINE r == Len(rows)
  <1>2. /\ length \in Nat /\ r \in Nat
        /\ from + Step < r => length = Step
        /\ from < r /\ from + Step >= r => from + length = r
        /\ from >= r => length = 0
    BY DEF Holds
  <1> HIDE DEF r
  <1>3. CASE from + Step < r
    BY <1>1, <1>2, <1>3 DEF r
  <1>4. CASE from < r /\ from + Step >= r
    BY <1>1, <1>2, <1>4 DEF r
  <1>5. CASE from >= r
    BY <1>1, <1>2, <1>5 DEF r
  <1> QED BY <1>1, <1>2, <1>3, <1>4, <1>5

\* A place behind another in what follows that one.
LEMMA Beyond ==
    ASSUME NEW o \in Nat, NEW p \in Nat, NEW i \in 1..o + p, ~(i <= o)
    PROVE  i - o \in 1..p
  OBVIOUS

LEMMA Back == ASSUME NEW o \in Int, NEW i \in Int PROVE o + (i - o) = i
  OBVIOUS

\* What a page holds.
LEMMA PageHolds ==
    ASSUME rows \in Seq(Items), NEW from \in Nat
    PROVE  LET page == Lists!PageAt(from) IN
           /\ page \in Seq(Items)
           /\ Holds(Len(page), from)
           /\ \A i \in 1..Len(page) : page[i] = rows[from + i]
  <1> DEFINE upto == IF from + Step < Len(rows) THEN from + Step ELSE Len(rows)
             start == from + 1
             page == SubSeq(rows, start, upto)
  <1>1. Len(rows) \in Nat /\ Step \in Nat \ {0} /\ \A i \in 1..Len(rows) : rows[i] \in Items
    BY ListsAssumption
  <1>2. upto \in Int /\ start \in Int /\ \A i \in start..upto : rows[i] \in Items
    BY <1>1
  <1>4. Lists!PageAt(from) = page
    BY DEF Lists!PageAt
  <1> HIDE DEF upto, start
  <1>3. /\ page \in Seq(Items)
        /\ Len(page) = IF start <= upto THEN upto - start + 1 ELSE 0
        /\ \A i \in 1..upto - start + 1 : page[i] = rows[start + i - 1]
    BY <1>2, SubSeqProperties
  <1> HIDE DEF page
  <1>5. Holds(Len(page), from)
    <2>1. Len(page) \in Nat
      BY <1>3
    <2>2. start \in Int /\ upto \in Int /\ start = from + 1
      BY <1>2 DEF start
    <2>3. CASE from + Step < Len(rows)
      <3>1. upto = from + Step
        BY <2>3 DEF upto
      <3> QED BY <1>1, <1>3, <2>1, <2>2, <2>3, <3>1 DEF Holds
    <2>4. CASE ~(from + Step < Len(rows))
      <3>1. upto = Len(rows)
        BY <2>4 DEF upto
      <3> QED BY <1>1, <1>3, <2>1, <2>2, <2>4, <3>1 DEF Holds
    <2> QED BY <2>3, <2>4
  <1>6. \A i \in 1..Len(page) : page[i] = rows[from + i]
    BY <1>1, <1>2, <1>3 DEF start
  <1> QED BY <1>3, <1>4, <1>5, <1>6

\* What is collected once a page came.
LEMMA Collected ==
    ASSUME rows \in Seq(Items), out \in Seq(Items), NEW from \in Nat
    PROVE  LET page == Lists!PageAt(from)
               more == out \o page IN
           /\ more \in Seq(Items) /\ Len(more) = Len(out) + Len(page)
           /\ \A i \in DOMAIN out : more[i] = out[i]
           /\ \A i \in 1..Len(page) : more[Len(out) + i] = rows[from + i]
           /\ Lists!ToSet(out) \subseteq Lists!ToSet(more)
           /\ \A i \in 1..Len(page) : rows[from + i] \in Lists!ToSet(more)
  <1> DEFINE page == Lists!PageAt(from)
             more == out \o page
  <1>1. page \in Seq(Items) /\ \A i \in 1..Len(page) : page[i] = rows[from + i]
    BY PageHolds
  <1> HIDE DEF page
  <1>2. /\ more \in Seq(Items) /\ Len(more) = Len(out) + Len(page)
        /\ \A i \in 1 .. Len(out) + Len(page) : more[i] = IF i <= Len(out) THEN out[i] ELSE page[i - Len(out)]
    BY <1>1, ConcatProperties
  <1> HIDE DEF more
  <1>3. Len(out) \in Nat /\ Len(page) \in Nat /\ DOMAIN more = 1..Len(out) + Len(page) /\ DOMAIN out = 1..Len(out)
    BY <1>1, <1>2
  <1>4. \A i \in DOMAIN out : i \in DOMAIN more /\ more[i] = out[i]
    BY <1>2, <1>3
  <1>5. \A i \in 1..Len(page) : Len(out) + i \in DOMAIN more /\ more[Len(out) + i] = rows[from + i]
    <2> SUFFICES ASSUME NEW i \in 1..Len(page)
                 PROVE  Len(out) + i \in DOMAIN more /\ more[Len(out) + i] = rows[from + i]
      OBVIOUS
    <2>1. Len(out) + i \in 1..Len(out) + Len(page) /\ ~(Len(out) + i <= Len(out)) /\ (Len(out) + i) - Len(out) = i
      BY <1>3
    <2> QED BY <1>1, <1>2, <1>3, <2>1
  <1>6. Lists!ToSet(out) \subseteq Lists!ToSet(more)
    BY <1>4 DEF Lists!ToSet
  <1>7. \A i \in 1..Len(page) : rows[from + i] \in Lists!ToSet(more)
    BY <1>5 DEF Lists!ToSet
  <1> QED BY <1>2, <1>4, <1>5, <1>6, <1>7 DEF page, more

\* The places after a gap.
LEMMA Shift ==
    ASSUME NEW n \in Nat, NEW i \in 1..n, NEW j \in 1..n - 1, ~(j < i)
    PROVE  /\ j - (i - 1) \in 1..n - (i + 1) + 1 /\ (i + 1) + (j - (i - 1)) - 1 = j + 1
           /\ ~(j <= i - 1)
  OBVIOUS

\* A sequence without one of its elements.
LEMMA Without ==
    ASSUME NEW S, NEW s \in Seq(S), NEW i \in DOMAIN s
    PROVE  LET t == Lists!RemoveAt(s, i) IN
           /\ t \in Seq(S) /\ Len(t) = Len(s) - 1
           /\ \A j \in 1..Len(t) : t[j] = IF j < i THEN s[j] ELSE s[j + 1]
  <1> DEFINE n == Len(s)
             h == i - 1
             k == i + 1
             a == SubSeq(s, 1, h)
             b == SubSeq(s, k, n)
             t == a \o b
  <1>1. n \in Nat /\ i \in 1..n /\ h \in Int /\ k \in Int /\ 1 \in Int
    OBVIOUS
  <1>2. (\A j \in 1..h : s[j] \in S) /\ (\A j \in k..n : s[j] \in S)
    BY <1>1
  <1>3. Lists!RemoveAt(s, i) = t
    BY DEF Lists!RemoveAt
  <1> HIDE DEF n, h, k
  <1>4. a \in Seq(S) /\ Len(a) = (IF 1 <= h THEN h - 1 + 1 ELSE 0) /\ \A j \in 1..h - 1 + 1 : a[j] = s[1 + j - 1]
    BY <1>1, <1>2, SubSeqProperties
  <1>5. b \in Seq(S) /\ Len(b) = (IF k <= n THEN n - k + 1 ELSE 0) /\ \A j \in 1..n - k + 1 : b[j] = s[k + j - 1]
    BY <1>1, <1>2, SubSeqProperties
  <1> HIDE DEF a, b
  <1>6. /\ t \in Seq(S) /\ Len(t) = Len(a) + Len(b)
        /\ \A j \in 1 .. Len(a) + Len(b) : t[j] = IF j <= Len(a) THEN a[j] ELSE b[j - Len(a)]
    BY <1>4, <1>5, ConcatProperties
  <1> HIDE DEF t
  <1>7. Len(a) = i - 1 /\ Len(b) = n - i
    BY <1>1, <1>4, <1>5 DEF h, k
  <1>8. \A j \in 1..Len(t) : t[j] = IF j < i THEN s[j] ELSE s[j + 1]
    <2> SUFFICES ASSUME NEW j \in 1..Len(t) PROVE t[j] = IF j < i THEN s[j] ELSE s[j + 1]
      OBVIOUS
    <2>1. CASE j < i
      BY <1>1, <1>4, <1>6, <1>7, <2>1 DEF h
    <2>2. CASE ~(j < i)
      <3>0. Len(t) = n - 1
        BY <1>1, <1>6, <1>7
      <3>1. j - Len(a) \in 1..n - k + 1 /\ k + (j - Len(a)) - 1 = j + 1 /\ ~(j <= Len(a))
        BY <1>1, <1>7, <2>2, <3>0, Shift DEF k
      <3> QED BY <1>5, <1>6, <1>7, <2>2, <3>1
    <2> QED BY <2>1, <2>2
  <1>9. Len(t) = Len(s) - 1
    BY <1>1, <1>6, <1>7 DEF n
  <1> QED BY <1>3, <1>6, <1>8, <1>9

\* With one more, at a place.
LEMMA With ==
    ASSUME NEW S, NEW s \in Seq(S), NEW i \in 1..Len(s) + 1, NEW e \in S
    PROVE  LET t == Lists!InsertAt(s, i, e) IN
           /\ t \in Seq(S) /\ Len(t) = Len(s) + 1
           /\ \A j \in 1..Len(t) : t[j] = IF j < i THEN s[j] ELSE IF j = i THEN e ELSE s[j - 1]
  <1> DEFINE n == Len(s)
             h == i - 1
             a == SubSeq(s, 1, h)
             b == SubSeq(s, i, n)
             c == <<e>>
             d == a \o c
             t == d \o b
  <1>1. n \in Nat /\ i \in 1..n + 1 /\ h \in Int /\ i \in Int /\ 1 \in Int
    OBVIOUS
  <1>2. (\A j \in 1..h : s[j] \in S) /\ (\A j \in i..n : s[j] \in S)
    BY <1>1
  <1>3. Lists!InsertAt(s, i, e) = t
    BY DEF Lists!InsertAt
  <1>c. c \in Seq(S) /\ Len(c) = 1 /\ c[1] = e
    OBVIOUS
  <1> HIDE DEF n, h, c
  <1>4. a \in Seq(S) /\ Len(a) = (IF 1 <= h THEN h - 1 + 1 ELSE 0) /\ \A j \in 1..h - 1 + 1 : a[j] = s[1 + j - 1]
    BY <1>1, <1>2, SubSeqProperties
  <1>5. b \in Seq(S) /\ Len(b) = (IF i <= n THEN n - i + 1 ELSE 0) /\ \A j \in 1..n - i + 1 : b[j] = s[i + j - 1]
    BY <1>1, <1>2, SubSeqProperties
  <1> HIDE DEF a, b
  <1>d. /\ d \in Seq(S) /\ Len(d) = Len(a) + Len(c)
        /\ \A j \in 1 .. Len(a) + Len(c) : d[j] = IF j <= Len(a) THEN a[j] ELSE c[j - Len(a)]
    BY <1>4, <1>c, ConcatProperties
  <1> HIDE DEF d
  <1>6. /\ t \in Seq(S) /\ Len(t) = Len(d) + Len(b)
        /\ \A j \in 1 .. Len(d) + Len(b) : t[j] = IF j <= Len(d) THEN d[j] ELSE b[j - Len(d)]
    <2>1. d \in Seq(S) /\ b \in Seq(S)
      BY <1>d, <1>5
    <2> QED BY <2>1, ConcatProperties
  <1> HIDE DEF t
  <1>7. Len(a) = i - 1 /\ Len(d) = i /\ Len(b) = n - i + 1
    BY <1>1, <1>4, <1>5, <1>c, <1>d DEF h
  <1>8. \A j \in 1..Len(t) : t[j] = IF j < i THEN s[j] ELSE IF j = i THEN e ELSE s[j - 1]
    <2> SUFFICES ASSUME NEW j \in 1..Len(t) PROVE t[j] = IF j < i THEN s[j] ELSE IF j = i THEN e ELSE s[j - 1]
      OBVIOUS
    <2>1. CASE j < i
      <3>1. t[j] = d[j] /\ d[j] = a[j]
        BY <1>1, <1>6, <1>7, <1>c, <1>d, <2>1
      <3> QED BY <1>1, <1>4, <1>7, <2>1, <3>1 DEF h
    <2>2. CASE j = i
      <3>1. t[j] = d[j] /\ d[j] = c[j - Len(a)] /\ j - Len(a) = 1
        BY <1>1, <1>6, <1>7, <1>c, <1>d, <2>2
      <3> QED BY <1>1, <1>c, <2>2, <3>1
    <2>3. CASE j > i
      <3>1. j - Len(d) \in 1..n - i + 1 /\ i + (j - Len(d)) - 1 = j - 1 /\ ~(j <= Len(d))
        BY <1>1, <1>6, <1>7, <2>3
      <3> QED BY <1>1, <1>5, <1>6, <1>7, <2>3, <3>1
    <2> QED BY <1>1, <2>1, <2>2, <2>3
  <1>9. Len(t) = Len(s) + 1
    BY <1>1, <1>6, <1>7 DEF n
  <1> QED BY <1>3, <1>6, <1>8, <1>9

LEMMA MineKeeps == ASSUME ListsInv, Lists!_mine PROVE ListsInv'
  <1> DEFINE page == Lists!PageAt(Len(out))
             all == IF total = -1 THEN Len(rows) ELSE total
  <1>1. /\ loop = "mine" /\ ended = "no" /\ UNCHANGED <<loop, rows, offset, kept, shifted, changes>>
        /\ out' = out \o page /\ total' = all
        /\ ended' = IF Lists!LastPage(Len(out'), all) \/ (total # -1 /\ page = <<>>) THEN "complete" ELSE "no"
    BY DEF Lists!_mine
  <1>2. /\ rows \in Seq(Items) /\ out \in Seq(Items) /\ Len(out) \in Nat /\ Len(rows) \in Nat
        /\ total \in Nat \cup {-1} /\ Step \in Nat \ {0}
        /\ DOMAIN rows = 1..Len(rows) /\ DOMAIN out = 1..Len(out)
    BY ListsAssumption DEF ListsInv, ListsTyped
  <1>3. /\ page \in Seq(Items)
        /\ Holds(Len(page), Len(out))
    BY <1>2, PageHolds
  <1>4. /\ out' \in Seq(Items) /\ Len(out') = Len(out) + Len(page)
        /\ \A i \in DOMAIN out : out'[i] = out[i]
        /\ \A i \in 1..Len(page) : out'[Len(out) + i] = rows[Len(out) + i]
    BY <1>1, <1>2, Collected
  <1> HIDE DEF page
  <1>5. ASSUME changes = 0 PROVE Len(out') <= Len(rows) /\ \A i \in DOMAIN out' : out'[i] = rows[i]
    <2>1. Begins
      BY <1>5 DEF ListsInv
    <2>2. Len(out') <= Len(rows)
      <3>1. Len(out) <= Len(rows)
        BY <2>1 DEF Begins
      <3> QED BY <1>2, <1>3, <1>4, <3>1, Amount
    <2>3. ASSUME NEW i \in 1..Len(out') PROVE out'[i] = rows[i]
      <3>1. CASE i <= Len(out)
        BY <1>2, <1>4, <2>1, <3>1 DEF Begins
      <3>2. CASE ~(i <= Len(out))
        <4>0. Len(page) \in Nat /\ i \in 1..Len(out) + Len(page) /\ i \in Int
          BY <1>2, <1>3, <1>4, Amount
        <4>1. i - Len(out) \in 1..Len(page) /\ Len(out) + (i - Len(out)) = i
          BY <1>2, <3>2, <4>0, Beyond, Back
        <4> QED BY <1>4, <4>1
      <3> QED BY <3>1, <3>2
    <2> QED BY <1>4, <2>2, <2>3
  <1>6. ASSUME changes = 0 PROVE total' \in {-1, Len(rows)} /\ all = Len(rows)
    BY <1>1, <1>6 DEF ListsInv
  <1>7. ASSUME changes = 0, ended' = "complete" PROVE Len(out') = Len(rows)
    <2>1. Len(out') >= Len(rows) \/ page = <<>>
      BY <1>1, <1>6, <1>7 DEF Lists!LastPage
    <2>2. CASE page = <<>>
      <3>1. Len(page) = 0
        BY <2>2
      <3>2. Len(out) >= Len(rows) /\ Len(out') = Len(out)
        BY <1>2, <1>3, <1>4, <3>1, Amount
      <3>3. Len(out') <= Len(rows)
        BY <1>5, <1>7
      <3>4. Len(rows) \in Nat /\ Len(out) \in Nat
        BY <1>2
      <3> QED BY <3>2, <3>3, <3>4
    <2>3. Len(out') \in Nat /\ Len(out') <= Len(rows)
      BY <1>4, <1>5, <1>7
    <2> QED BY <1>2, <2>1, <2>2, <2>3
  <1>8. Told'
    BY <1>1, <1>7 DEF Told
  <1>9. ListsTyped'
    BY <1>1, <1>2, <1>4 DEF ListsInv, ListsTyped
  <1>10. (changes = 0 => Begins /\ total \in {-1, Len(rows)})'
    BY <1>1, <1>5, <1>6 DEF Begins
  <1> QED BY <1>1, <1>8, <1>9, <1>10 DEF ListsInv, Lists!ToSet

LEMMA RealmsKeeps == ASSUME ListsInv, Lists!all_realms PROVE ListsInv'
  <1> DEFINE page == Lists!PageAt(offset)
  <1>1. /\ loop = "realms" /\ ended = "no" /\ UNCHANGED <<loop, rows, total, kept, shifted, changes>>
        /\ out' = out \o page /\ offset' = offset + Step
        /\ ended' = IF offset + Step >= Len(rows) THEN "complete" ELSE IF offset + Step >= ListCap THEN "cut" ELSE "no"
    BY DEF Lists!all_realms, Lists!LastPage
  <1>2. /\ rows \in Seq(Items) /\ out \in Seq(Items) /\ Len(out) \in Nat /\ Len(rows) \in Nat
        /\ offset \in Nat /\ Step \in Nat \ {0} /\ ListCap \in Nat
        /\ DOMAIN rows = 1..Len(rows) /\ DOMAIN out = 1..Len(out)
    BY ListsAssumption DEF ListsInv, ListsTyped
  <1>3. /\ page \in Seq(Items)
        /\ Holds(Len(page), offset)
    BY <1>2, PageHolds
  <1>4. /\ out' \in Seq(Items) /\ Len(out') = Len(out) + Len(page)
        /\ \A i \in DOMAIN out : out'[i] = out[i]
        /\ \A i \in 1..Len(page) : out'[Len(out) + i] = rows[offset + i]
        /\ Lists!ToSet(out) \subseteq Lists!ToSet(out')
        /\ \A i \in 1..Len(page) : rows[offset + i] \in Lists!ToSet(out')
    BY <1>1, <1>2, Collected
  <1> HIDE DEF page
  <1>c. Covered
    BY <1>1 DEF ListsInv
  <1>n. Len(rows) \in Nat /\ Len(out) \in Nat /\ offset \in Nat /\ Step \in Nat /\ offset' = offset + Step
    BY <1>1, <1>2
  <1>l. Len(out') = Len(out) + Len(page)
    BY <1>4
  <1>p. Len(page) \in Nat /\ Len(page) <= Step
    BY <1>2, <1>3, Amount
  <1>5. Len(out') <= offset'
    <2>1. Len(out) <= offset
      BY <1>c DEF Covered
    <2> QED BY <1>1, <1>2, <1>4, <1>p, <2>1
  <1>6. ASSUME NEW j \in DOMAIN rows, j <= offset', rows[j] \in kept \ shifted PROVE rows[j] \in Lists!ToSet(out')
    <2>1. CASE j <= offset
      BY <1>4, <1>6, <1>c, <2>1 DEF Covered
    <2>2. CASE ~(j <= offset)
      <3>0. j \in Nat /\ offset < j /\ j <= Len(rows) /\ j <= offset + Step
        BY <1>1, <1>2, <1>6, <2>2
      <3>1. j - offset \in 1..Len(page) /\ offset + (j - offset) = j
        BY <1>2, <1>3, <3>0, Amount, Back
      <3> QED BY <1>4, <3>1
    <2> QED BY <2>1, <2>2
  <1>7. PICK k \in Nat : offset = k * Step
    BY <1>c DEF Covered
  <1>8. PICK m \in Nat : ListCap = m * Step
    BY ListsAssumption
  <1>9. offset < ListCap
    BY <1>1, <1>c DEF Covered
  <1>10. offset' <= ListCap /\ offset' = (k + 1) * Step
    BY <1>1, <1>2, <1>7, <1>8, <1>9, NextMultiple
  <1>11. \E l \in Nat : offset' = l * Step
    BY <1>10
  <1>12. changes = 0 => (offset' < Len(rows) => Len(out') = offset') /\ (offset' >= Len(rows) => Len(out') = Len(rows))
    <2> SUFFICES ASSUME changes = 0
                 PROVE  (offset' < Len(rows) => Len(out') = offset') /\ (offset' >= Len(rows) => Len(out') = Len(rows))
      OBVIOUS
    <2>1. (offset < Len(rows) => Len(out) = offset) /\ (offset >= Len(rows) => Len(out) = Len(rows))
      BY <1>c DEF Covered
    <2>2. CASE offset >= Len(rows)
      <3>1. Len(page) = 0
        BY <1>2, <1>3, <2>2, Amount
      <3> QED BY <1>n, <1>l, <2>1, <2>2, <3>1
    <2>3. CASE offset < Len(rows) /\ offset + Step < Len(rows)
      <3>1. Len(page) = Step
        BY <1>2, <1>3, <2>3, Amount
      <3> QED BY <1>n, <1>l, <2>1, <2>3, <3>1
    <2>4. CASE offset < Len(rows) /\ offset + Step >= Len(rows)
      <3>1. offset + Len(page) = Len(rows)
        <4>1. offset <= Len(rows)
          BY <1>n, <2>4
        <4> QED BY <1>2, <1>3, <2>4, <4>1, Amount
      <3> QED BY <1>n, <1>l, <2>1, <2>4, <3>1
    <2> QED BY <1>2, <2>2, <2>3, <2>4
  <1>13. /\ ended' = "no" => offset' < ListCap
         /\ ended' = "complete" => Len(rows) <= offset'
         /\ ended' = "cut" => offset' < Len(rows)
    BY <1>1, <1>2
  <1>14. Covered'
    BY <1>1, <1>5, <1>6, <1>10, <1>11, <1>12, <1>13 DEF Covered
  <1>15. ASSUME changes = 0 PROVE Len(out') <= Len(rows) /\ \A i \in DOMAIN out' : out'[i] = rows[i]
    <2>1. Begins
      BY <1>15 DEF ListsInv
    <2>2. Len(out') <= Len(rows)
      <3>1. offset' \in Nat
        BY <1>1, <1>2
      <3>2. (offset' < Len(rows) => Len(out') = offset') /\ (offset' >= Len(rows) => Len(out') = Len(rows))
        BY <1>12, <1>15
      <3> QED BY <1>2, <3>1, <3>2
    <2>3. ASSUME NEW i \in 1..Len(out') PROVE out'[i] = rows[i]
      <3>1. CASE i <= Len(out)
        BY <1>2, <1>4, <2>1, <3>1 DEF Begins
      <3>2. CASE ~(i <= Len(out))
        <4>1. Len(out) = offset
          <5>1. (offset < Len(rows) => Len(out) = offset) /\ (offset >= Len(rows) => Len(out) = Len(rows))
            BY <1>15, <1>c DEF Covered
          <5>2. Len(page) # 0
            BY <1>2, <1>4, <3>2
          <5>3. ~(offset >= Len(rows))
            BY <1>2, <1>3, <5>2, Amount
          <5> QED BY <1>n, <5>1, <5>3
        <4>a. i \in 1..offset + Len(page) /\ i \in Int /\ ~(i <= offset)
          BY <1>4, <3>2, <4>1
        <4>2. i - offset \in 1..Len(page) /\ offset + (i - offset) = i
          BY <1>2, <1>p, <4>a, Beyond, Back
        <4> QED BY <1>4, <4>1, <4>2
      <3> QED BY <3>1, <3>2
    <2> QED BY <1>4, <2>2, <2>3
  <1>16. (changes = 0 => Begins /\ total \in {-1, Len(rows)})'
    BY <1>1, <1>15 DEF Begins, ListsInv
  <1>17. ListsTyped'
    <2>1. ended' \in {"no", "complete", "cut"} /\ offset' \in Nat
      BY <1>1, <1>2
    <2> QED BY <1>1, <1>4, <2>1 DEF ListsInv, ListsTyped
  <1> QED BY <1>1, <1>14, <1>16, <1>17 DEF ListsInv, Lists!ToSet

LEMMA LeavesKeeps == ASSUME ListsInv, Lists!Leaves PROVE ListsInv'
  <1>1. PICK i \in DOMAIN rows :
          /\ rows' = Lists!RemoveAt(rows, i) /\ kept' = kept \ {rows[i]}
          /\ shifted' = shifted \cup {rows[j] : j \in i + 1..Len(rows)}
    BY DEF Lists!Leaves
  <1>2. ended = "no" /\ changes' = changes + 1 /\ UNCHANGED <<loop, out, offset, total, ended>>
    BY DEF Lists!Leaves
  <1>3. /\ rows \in Seq(Items) /\ Len(rows) \in Nat /\ DOMAIN rows = 1..Len(rows) /\ i \in 1..Len(rows)
        /\ changes \in Nat /\ offset \in Nat
    BY DEF ListsInv, ListsTyped
  <1>4. /\ rows' \in Seq(Items) /\ Len(rows') = Len(rows) - 1
        /\ \A j \in 1..Len(rows') : rows'[j] = IF j < i THEN rows[j] ELSE rows[j + 1]
    BY <1>1, <1>3, Without
  <1>5. DOMAIN rows' = 1..Len(rows) - 1 /\ changes' # 0 /\ changes' \in Nat
    BY <1>2, <1>3, <1>4
  <1>6. kept' \subseteq Lists!ToSet(rows')
    <2> SUFFICES ASSUME NEW x \in kept, x # rows[i] PROVE \E j \in DOMAIN rows' : rows'[j] = x
      BY <1>1 DEF Lists!ToSet
    <2>1. PICK j \in 1..Len(rows) : rows[j] = x
      BY <1>3 DEF ListsInv, Lists!ToSet
    <2>2. CASE j < i
      BY <1>3, <1>4, <1>5, <2>1, <2>2
    <2>3. CASE j > i
      <3>1. j - 1 \in 1..Len(rows) - 1 /\ ~(j - 1 < i) /\ (j - 1) + 1 = j
        BY <1>3, <2>3
      <3> QED BY <1>4, <1>5, <2>1, <3>1
    <2> QED BY <1>3, <2>1, <2>2, <2>3
  <1>7. ASSUME loop = "realms" PROVE Covered'
    <2>1. Covered
      BY <1>7 DEF ListsInv
    <2>2. ASSUME NEW j \in DOMAIN rows', j <= offset, rows'[j] \in kept' \ shifted' PROVE rows'[j] \in Lists!ToSet(out)
      <3>1. j \in 1..Len(rows) - 1
        BY <1>5
      <3>2. CASE j < i
        <4>1. rows'[j] = rows[j] /\ j \in DOMAIN rows
          BY <1>3, <1>4, <3>1, <3>2
        <4> QED BY <1>1, <2>1, <2>2, <4>1 DEF Covered
      <3>3. CASE ~(j < i)
        <4>1. rows'[j] = rows[j + 1] /\ j + 1 \in i + 1..Len(rows)
          BY <1>3, <1>4, <3>1, <3>3
        <4> QED BY <1>1, <2>2, <4>1
      <3> QED BY <3>2, <3>3
    <2> QED BY <1>2, <1>5, <2>1, <2>2 DEF Covered, Lists!ToSet
  <1>8. ASSUME loop = "mine" PROVE Told'
    BY <1>2, <1>5, <1>8 DEF ListsInv, Told
  <1>9. ListsTyped'
    BY <1>2, <1>4, <1>5 DEF ListsInv, ListsTyped
  <1> QED BY <1>2, <1>5, <1>6, <1>7, <1>8, <1>9 DEF ListsInv

LEMMA JoinsKeeps == ASSUME ListsInv, Lists!Joins PROVE ListsInv'
  <1>1. PICK item \in Items \ Lists!ToSet(rows), i \in 1..Len(rows) + 1 :
          rows' = Lists!InsertAt(rows, i, item) /\ shifted' = shifted \ {item}
    BY DEF Lists!Joins
  <1>2. ended = "no" /\ changes' = changes + 1 /\ UNCHANGED <<loop, out, offset, total, ended, kept>>
    BY DEF Lists!Joins
  <1>3. /\ rows \in Seq(Items) /\ Len(rows) \in Nat /\ DOMAIN rows = 1..Len(rows) /\ item \in Items
        /\ changes \in Nat /\ offset \in Nat
    BY DEF ListsInv, ListsTyped
  <1>4. /\ rows' \in Seq(Items) /\ Len(rows') = Len(rows) + 1
        /\ \A j \in 1..Len(rows') : rows'[j] = IF j < i THEN rows[j] ELSE IF j = i THEN item ELSE rows[j - 1]
    BY <1>1, <1>3, With
  <1>5. DOMAIN rows' = 1..Len(rows) + 1 /\ changes' # 0 /\ changes' \in Nat
    BY <1>2, <1>3, <1>4
  <1>6. kept' \subseteq Lists!ToSet(rows')
    <2> SUFFICES ASSUME NEW x \in kept PROVE \E j \in DOMAIN rows' : rows'[j] = x
      BY <1>2 DEF Lists!ToSet
    <2>1. PICK j \in 1..Len(rows) : rows[j] = x
      BY <1>3 DEF ListsInv, Lists!ToSet
    <2>2. CASE j < i
      BY <1>3, <1>4, <1>5, <2>1, <2>2
    <2>3. CASE ~(j < i)
      <3>1. j + 1 \in 1..Len(rows) + 1 /\ ~(j + 1 < i) /\ j + 1 # i /\ (j + 1) - 1 = j
        BY <1>3, <2>3
      <3> QED BY <1>4, <1>5, <2>1, <3>1
    <2> QED BY <2>2, <2>3
  <1>7. ASSUME loop = "realms" PROVE Covered'
    <2>1. Covered
      BY <1>7 DEF ListsInv
    <2>2. ASSUME NEW j \in DOMAIN rows', j <= offset, rows'[j] \in kept \ shifted' PROVE rows'[j] \in Lists!ToSet(out)
      <3>1. j \in 1..Len(rows) + 1
        BY <1>5
      <3>2. CASE j < i
        <4>1. rows'[j] = rows[j] /\ j \in DOMAIN rows
          BY <1>3, <1>4, <3>1, <3>2
        <4>2. rows[j] # item
          BY <1>1, <4>1 DEF Lists!ToSet
        <4> QED BY <1>1, <2>1, <2>2, <4>1, <4>2 DEF Covered
      <3>3. CASE j = i
        <4>1. rows'[j] = item
          BY <1>3, <1>4, <3>1, <3>3
        <4> QED BY <1>1, <2>2, <4>1 DEF ListsInv
      <3>4. CASE j > i
        <4>1. rows'[j] = rows[j - 1] /\ j - 1 \in DOMAIN rows /\ j - 1 <= offset
          BY <1>3, <1>4, <2>2, <3>1, <3>4
        <4>2. rows[j - 1] # item
          BY <1>1, <4>1 DEF Lists!ToSet
        <4> QED BY <1>1, <2>1, <2>2, <4>1, <4>2 DEF Covered
      <3> QED BY <3>1, <3>2, <3>3, <3>4
    <2> QED BY <1>2, <1>5, <2>1, <2>2 DEF Covered, Lists!ToSet
  <1>8. ASSUME loop = "mine" PROVE Told'
    BY <1>2, <1>5, <1>8 DEF ListsInv, Told
  <1>9. ListsTyped'
    BY <1>2, <1>4, <1>5 DEF ListsInv, ListsTyped
  <1> QED BY <1>2, <1>5, <1>6, <1>7, <1>8, <1>9 DEF ListsInv

LEMMA ListsNext == ASSUME ListsInv, [Lists!Next]_lists PROVE ListsInv'
  <1>1. CASE UNCHANGED lists
    BY <1>1 DEF lists, ListsInv, ListsTyped, Begins, Told, Covered, Lists!ToSet
  <1>2. CASE Lists!Next
    BY <1>2, MineKeeps, RealmsKeeps, LeavesKeeps, JoinsKeeps DEF Lists!Next
  <1> QED BY <1>1, <1>2

\* The invariant is enough.
LEMMA ListsWhole == ASSUME ListsInv PROVE Lists!MissedOnlyIfChanged
  <1> SUFFICES ASSUME ended # "no" PROVE Lists!MissedOnlyIfChanged
    BY DEF Lists!MissedOnlyIfChanged
  <1>1. /\ rows \in Seq(Items) /\ out \in Seq(Items) /\ Len(rows) \in Nat /\ Len(out) \in Nat
        /\ loop \in {"mine", "realms"} /\ ended \in {"complete", "cut"} /\ offset \in Nat /\ ListCap \in Nat
        /\ DOMAIN rows = 1..Len(rows) /\ DOMAIN out = 1..Len(out)
    BY ListsAssumption DEF ListsInv, ListsTyped
  <1>2. ASSUME changes = 0, ended = "complete" PROVE out = rows
    <2>1. Begins
      BY <1>2 DEF ListsInv
    <2>2. Len(out) = Len(rows)
      BY <1>1, <1>2 DEF ListsInv, Told, Covered
    <2> QED BY <1>1, <2>1, <2>2 DEF Begins
  <1>3. ASSUME changes = 0, ended = "cut" PROVE Lists!IsStrictPrefix(out, rows)
    <2>1. Begins /\ loop = "realms"
      BY <1>1, <1>3 DEF ListsInv, Told
    <2>2. Len(out) < Len(rows)
      BY <1>1, <1>3, <2>1 DEF ListsInv, Covered
    <2> DEFINE n == Len(out)
               a == SubSeq(out, 1, n)
               b == SubSeq(rows, 1, n)
    <2>3. n \in Int /\ 1 \in Int /\ (\A i \in 1..n : out[i] \in Items) /\ (\A i \in 1..n : rows[i] \in Items)
      BY <1>1, <2>2
    <2> HIDE DEF n
    <2>4. a \in Seq(Items) /\ Len(a) = (IF 1 <= n THEN n - 1 + 1 ELSE 0) /\ \A i \in 1..n - 1 + 1 : a[i] = out[1 + i - 1]
      BY <2>3, SubSeqProperties
    <2>5. b \in Seq(Items) /\ Len(b) = (IF 1 <= n THEN n - 1 + 1 ELSE 0) /\ \A i \in 1..n - 1 + 1 : b[i] = rows[1 + i - 1]
      BY <2>3, SubSeqProperties
    <2> HIDE DEF a, b
    <2>6. Len(a) = n /\ Len(b) = n
      BY <1>1, <2>4, <2>5 DEF n
    <2>7. \A i \in 1..n : a[i] = b[i]
      BY <1>1, <2>1, <2>4, <2>5 DEF n, Begins
    <2>8. a = b
      BY <2>4, <2>5, <2>6, <2>7
    <2> QED BY <1>1, <2>2, <2>8 DEF Lists!IsStrictPrefix, Lists!IsPrefix, a, b, n
  <1>4. ASSUME loop = "realms", ended = "complete" PROVE kept \ shifted \subseteq Lists!ToSet(out)
    <2> SUFFICES ASSUME NEW x \in kept \ shifted PROVE x \in Lists!ToSet(out)
      OBVIOUS
    <2>1. PICK j \in DOMAIN rows : rows[j] = x
      BY DEF ListsInv, Lists!ToSet
    <2>2. Len(rows) <= offset
      BY <1>4 DEF ListsInv, Covered
    <2>3. j <= offset
      BY <1>1, <2>2
    <2> QED BY <1>4, <2>1, <2>3 DEF ListsInv, Covered
  <1>5. ASSUME ended = "cut" PROVE Len(out) <= ListCap
    <2>1. loop = "realms"
      BY <1>1, <1>5 DEF ListsInv, Told
    <2>2. Len(out) <= offset /\ offset <= ListCap
      BY <1>5, <2>1 DEF ListsInv, Covered
    <2> QED BY <1>1, <2>2
  <1> QED BY <1>2, <1>3, <1>4, <1>5 DEF Lists!MissedOnlyIfChanged

-----------------------------------------------------------------------------
\* The merged inbox.

LEMMA CardIs == ASSUME NEW S PROVE Inbox!Cardinality(S) = Cardinality(S)
  BY DEF Inbox!Cardinality, Cardinality

LEMMA MinIs ==
    ASSUME NEW a \in Nat, NEW b \in Nat
    PROVE  /\ Inbox!Min({a, b}) \in Nat /\ Inbox!Min({a, b}) <= a /\ Inbox!Min({a, b}) <= b
           /\ Inbox!Min({a, b}) = a \/ Inbox!Min({a, b}) = b
  <1> DEFINE S == {a, b}
  <1>1. \E x \in S : \A y \in S : x <= y
    <2>1. CASE a <= b
      BY <2>1
    <2>2. CASE b <= a
      BY <2>2
    <2> QED BY <2>1, <2>2
  <1> DEFINE m == Inbox!Min(S)
  <1>2. m \in S /\ \A y \in S : m <= y
    BY <1>1 DEF Inbox!Min
  <1> HIDE DEF m
  <1> QED BY <1>2 DEF m

\* The merge.

\* Those that come before one.
Earlier(notes, n) == {o \in notes : Inbox!Before(o, n)}

Stamped == at \in [Notes -> Nat \ {0}]

\* The order of the merge is total.
LEMMA BeforeOrders ==
    ASSUME Stamped, NEW n \in Notes, NEW o \in Notes, NEW p \in Notes
    PROVE  /\ ~Inbox!Before(n, n)
           /\ Inbox!Before(n, o) /\ Inbox!Before(o, p) => Inbox!Before(n, p)
           /\ n # o => Inbox!Before(n, o) \/ Inbox!Before(o, n)
           /\ Inbox!Before(n, o) => at[n] >= at[o]
  <1>1. /\ at[n] \in Nat /\ at[o] \in Nat /\ at[p] \in Nat /\ n \in Int /\ o \in Int /\ p \in Int
    BY InboxAssumption DEF Stamped
  <1> DEFINE a == at[n]
             b == at[o]
             c == at[p]
  <1> HIDE DEF a, b, c
  <1>2. a \in Nat /\ b \in Nat /\ c \in Nat /\ n \in Int /\ o \in Int /\ p \in Int
    BY <1>1 DEF a, b, c
  <1> QED BY <1>2 DEF Inbox!Before, a, b, c

\* As many come before a notification as it has in front, so each place is one's.
LEMMA Places ==
    ASSUME Stamped, NEW notes \in SUBSET Notes
    PROVE  /\ IsFiniteSet(notes) /\ Cardinality(notes) \in Nat
           /\ \A n \in notes : Cardinality(Earlier(notes, n)) \in 0..Cardinality(notes) - 1
           /\ \A n, o \in notes : Inbox!Before(n, o) => Cardinality(Earlier(notes, n)) < Cardinality(Earlier(notes, o))
           /\ \A i \in 0..Cardinality(notes) - 1 : \E n \in notes : Cardinality(Earlier(notes, n)) = i
  <1>1. IsFiniteSet(notes) /\ Cardinality(notes) \in Nat
    BY InboxAssumption, FS_Subset, FS_CardinalityType
  <1>2. \A n \in notes : IsFiniteSet(Earlier(notes, n)) /\ Cardinality(Earlier(notes, n)) \in Nat
    <2> TAKE n \in notes
    <2>1. Earlier(notes, n) \in SUBSET notes
      BY DEF Earlier
    <2> QED BY <1>1, <2>1, FS_Subset, FS_CardinalityType
  <1>3. \A n \in notes : Cardinality(Earlier(notes, n)) \in 0..Cardinality(notes) - 1
    <2> TAKE n \in notes
    <2>1. Earlier(notes, n) \in SUBSET notes /\ n \notin Earlier(notes, n)
      BY BeforeOrders DEF Earlier
    <2> DEFINE S == Earlier(notes, n)
    <2> HIDE DEF S
    <2>2. Cardinality(S) <= Cardinality(notes) /\ Cardinality(S) # Cardinality(notes)
      BY <1>1, <2>1, FS_Subset DEF S
    <2> QED BY <1>1, <1>2, <2>2 DEF S
  <1>4. \A n, o \in notes : Inbox!Before(n, o) => Cardinality(Earlier(notes, n)) < Cardinality(Earlier(notes, o))
    <2> SUFFICES ASSUME NEW n \in notes, NEW o \in notes, Inbox!Before(n, o)
                 PROVE  Cardinality(Earlier(notes, n)) < Cardinality(Earlier(notes, o))
      OBVIOUS
    <2>1. Earlier(notes, n) \in SUBSET Earlier(notes, o) /\ n \in Earlier(notes, o) /\ n \notin Earlier(notes, n)
      BY BeforeOrders DEF Earlier
    <2> DEFINE S == Earlier(notes, n)
               T == Earlier(notes, o)
    <2>2. IsFiniteSet(T) /\ Cardinality(S) \in Nat /\ Cardinality(T) \in Nat
      BY <1>2
    <2> HIDE DEF S, T
    <2>3. Cardinality(S) <= Cardinality(T) /\ Cardinality(S) # Cardinality(T)
      BY <2>1, <2>2, FS_Subset DEF S, T
    <2> QED BY <2>2, <2>3 DEF S, T
  <1> DEFINE places == 0..Cardinality(notes) - 1
             place == [n \in notes |-> Cardinality(Earlier(notes, n))]
  <1>5. place \in [notes -> places]
    BY <1>3
  <1>6. place \in Injection(notes, places)
    <2>1. \A n, o \in notes : place[n] = place[o] => n = o
      <3> SUFFICES ASSUME NEW n \in notes, NEW o \in notes, n # o PROVE place[n] # place[o]
        OBVIOUS
      <3>1. Inbox!Before(n, o) \/ Inbox!Before(o, n)
        BY BeforeOrders
      <3>2. place[n] \in Nat /\ place[o] \in Nat
        BY <1>2
      <3> QED BY <1>4, <3>1, <3>2
    <2> HIDE DEF place
    <2> QED BY <1>5, <2>1 DEF Injection, IsInjective
  <1>7. IsFiniteSet(places) /\ Cardinality(places) = Cardinality(notes)
    <2> DEFINE top == Cardinality(notes) - 1
    <2>1. 0 \in Int /\ top \in Int
      BY <1>1
    <2> HIDE DEF top
    <2>2. IsFiniteSet(0..top) /\ Cardinality(0..top) = IF 0 > top THEN 0 ELSE top - 0 + 1
      BY <2>1, FS_Interval
    <2> QED BY <1>1, <2>1, <2>2 DEF top
  <1>8. place \in Surjection(notes, places)
    <2> HIDE DEF place, places
    <2> QED BY <1>6, <1>7, FS_Injection
  <1>9. \A i \in places : \E n \in notes : place[n] = i
    <2> HIDE DEF place, places
    <2> QED BY <1>8 DEF Surjection
  <1> QED BY <1>1, <1>3, <1>4, <1>9

\* All that the orgs answered.
NotesOf(answers) == UNION {answers[org] : org \in DOMAIN answers}

\* The merge has each once, newest first.
LEMMA MergedIsSorted ==
    ASSUME Stamped, NEW answers, NotesOf(answers) \subseteq Notes
    PROVE  LET merged == Inbox!Merged(answers) IN
           /\ merged \in Seq(Notes) /\ DOMAIN merged = 1..Len(merged) /\ Len(merged) = Cardinality(NotesOf(answers))
           /\ \A i \in DOMAIN merged : merged[i] \in NotesOf(answers)
           /\ \A i, j \in DOMAIN merged : i < j => merged[i] # merged[j] /\ at[merged[i]] >= at[merged[j]]
           /\ \A n \in NotesOf(answers) : \E i \in DOMAIN merged : merged[i] = n
  <1> DEFINE notes == NotesOf(answers)
             size == Inbox!Cardinality(notes)
             rank(n) == Inbox!Cardinality(Earlier(notes, n))
             merged == Inbox!Merged(answers)
  <1>1. merged = [i \in 1..size |-> CHOOSE n \in notes : rank(n) = i - 1]
    BY DEF Inbox!Merged, NotesOf, Earlier
  <1> HIDE DEF notes
  <1>2. notes \in SUBSET Notes
    BY DEF notes
  <1>3. /\ size \in Nat
        /\ \A n \in notes : rank(n) \in 0..size - 1
        /\ \A n, o \in notes : Inbox!Before(n, o) => rank(n) < rank(o)
        /\ \A i \in 0..size - 1 : \E n \in notes : rank(n) = i
    <2>1. size = Cardinality(notes) /\ \A n \in notes : rank(n) = Cardinality(Earlier(notes, n))
      BY CardIs
    <2> HIDE DEF size, rank
    <2> QED BY <1>2, <2>1, Places
  <1>s. size = Cardinality(notes)
    BY CardIs
  <1> HIDE DEF merged, size, rank
  <1>4. \A i \in 1..size : merged[i] \in notes /\ rank(merged[i]) = i - 1
    <2> TAKE i \in 1..size
    <2>1. i - 1 \in 0..size - 1
      BY <1>3
    <2>2. \E n \in notes : rank(n) = i - 1
      BY <1>3, <2>1
    <2>3. merged[i] = CHOOSE n \in notes : rank(n) = i - 1
      BY <1>1
    <2> QED BY <2>2, <2>3
  <1>5. merged \in [1..size -> Notes]
    BY <1>1, <1>2, <1>4
  <1>6. merged \in Seq(Notes) /\ DOMAIN merged = 1..size /\ Len(merged) = size
    BY <1>3, <1>5
  <1>7. \A i, j \in 1..size : i < j => merged[i] # merged[j] /\ at[merged[i]] >= at[merged[j]]
    <2> SUFFICES ASSUME NEW i \in 1..size, NEW j \in 1..size, i < j
                 PROVE  merged[i] # merged[j] /\ at[merged[i]] >= at[merged[j]]
      OBVIOUS
    <2> DEFINE n == merged[i]
               o == merged[j]
    <2>1. n \in notes /\ o \in notes /\ rank(n) = i - 1 /\ rank(o) = j - 1
      BY <1>4
    <2> HIDE DEF n, o
    <2>2. rank(n) < rank(o)
      BY <1>3, <2>1
    <2>3. n # o
      BY <1>3, <2>1, <2>2
    <2>4. ~Inbox!Before(o, n)
      BY <1>3, <2>1, <2>2
    <2> QED BY <1>2, <2>1, <2>3, <2>4, BeforeOrders DEF n, o
  <1>8. \A n \in notes : \E i \in 1..size : merged[i] = n
    <2> TAKE n \in notes
    <2> DEFINE i == rank(n) + 1
    <2>1. i \in 1..size /\ i - 1 = rank(n)
      BY <1>3
    <2> HIDE DEF i
    <2>2. merged[i] \in notes /\ rank(merged[i]) = rank(n)
      BY <1>4, <2>1
    <2>3. merged[i] = n
      <3> SUFFICES ASSUME merged[i] # n PROVE FALSE
        OBVIOUS
      <3>1. Inbox!Before(merged[i], n) \/ Inbox!Before(n, merged[i])
        BY <1>2, <2>2, BeforeOrders
      <3>2. rank(n) \in Int
        BY <1>3
      <3> QED BY <1>3, <2>2, <3>1, <3>2
    <2> QED BY <2>1, <2>3
  <1> QED BY <1>4, <1>6, <1>7, <1>8, <1>s DEF merged, notes

\* The pages.

\* One that a page may leave out for good.
Excused(n) == at[n] \in cut \/ {org \in Orgs : n \in has[org]} \subseteq silent

\* The notifications of the user.
Everything == UNION {has[org] : org \in Orgs}

\* Each once and newest first.
InOrder(notes) == \A i, j \in DOMAIN notes : i < j => notes[i] # notes[j] /\ at[notes[i]] >= at[notes[j]]

\* A summary that is neither partial nor capped is right.
Counted ==
    summary # <<>> /\ summary.status = "ok" /\ ~summary.capped =>
        summary.new_count = Inbox!Cardinality({n \in Everything : at[n] > summary.seen_ms})

\* The inductive invariant: what was shown is newer than what the next page may
\* hold, and what is as new and was not shown is excused.
InboxInv ==
    /\ at \in Stamps /\ has \in [Orgs -> SUBSET Notes] /\ limit \in Sizes \cup {0}
    /\ until \in Int /\ until >= -1
    /\ limit = 0 => until = Inbox!Max(Inbox!Times)
    /\ shown \in Seq(Notes) /\ InOrder(shown)
    /\ \A i \in DOMAIN shown : at[shown[i]] > until
    /\ \A n \in Everything \ Inbox!ToSet(shown) : at[n] > until => Excused(n)
    /\ Counted

\* A first page may hold all.
LEMMA NewestTime ==
    ASSUME at \in Stamps
    PROVE  /\ Inbox!Max(Inbox!Times) \in Nat
           /\ \A n \in Notes : at[n] \in Nat \ {0} /\ at[n] <= Inbox!Max(Inbox!Times)
  <1>1. Inbox!Max(Inbox!Times) \in Inbox!Times /\ \A ms \in Inbox!Times : Inbox!Max(Inbox!Times) >= ms
    BY InboxAssumption DEF Inbox!Max
  <1>2. \A ms \in Inbox!Times : ms \in Nat
    BY InboxAssumption DEF Inbox!Times
  <1>3. \A n \in Notes : at[n] \in Inbox!Times /\ at[n] \in Nat \ {0}
    BY InboxAssumption DEF Inbox!Times
  <1> DEFINE newest == Inbox!Max(Inbox!Times)
  <1> HIDE DEF newest
  <1>4. newest \in Nat /\ \A n \in Notes : at[n] <= newest
    BY <1>1, <1>2, <1>3 DEF newest
  <1> QED BY <1>3, <1>4 DEF newest

LEMMA InboxStart == ASSUME Inbox!Init PROVE InboxInv
  <1>1. /\ at \in Stamps /\ has \in [Orgs -> SUBSET Notes] /\ limit \in Sizes \cup {0}
        /\ until = Inbox!Max(Inbox!Times) /\ shown = <<>> /\ summary = <<>>
    BY DEF Inbox!Init
  <1>2. until \in Nat /\ \A n \in Notes : at[n] \in Nat /\ at[n] <= until
    BY <1>1, NewestTime
  <1>3. Everything \subseteq Notes
    BY <1>1 DEF Everything
  <1>4. \A n \in Everything : ~(at[n] > until)
    BY <1>2, <1>3
  <1>5. shown \in Seq(Notes) /\ DOMAIN shown = {}
    BY <1>1
  <1> QED BY <1>1, <1>2, <1>4, <1>5 DEF InboxInv, InOrder, Counted

\* A page of an org is all it has or as many as were asked for.
LEMMA NewestHolds ==
    ASSUME Stamped, NEW org \in Orgs, has[org] \subseteq Notes, NEW asked \in Nat, NEW page \in Inbox!Newest(org, asked)
    PROVE  /\ page \subseteq Inbox!Older(org) /\ Inbox!Older(org) \subseteq Notes /\ IsFiniteSet(page)
           /\ page = Inbox!Older(org) \/ Cardinality(page) = asked
           /\ \A n \in page, o \in Inbox!Older(org) \ page : at[n] >= at[o]
  <1> DEFINE older == Inbox!Older(org)
  <1>1. older \in SUBSET Notes
    BY DEF Inbox!Older
  <1>2. /\ page \in SUBSET older
        /\ Inbox!Cardinality(page) = Inbox!Min({asked, Inbox!Cardinality(older)})
        /\ \A n \in page, o \in older \ page : at[n] >= at[o]
    BY DEF Inbox!Newest
  <1> HIDE DEF older
  <1>3. IsFiniteSet(older) /\ Cardinality(older) \in Nat
    BY <1>1, InboxAssumption, FS_Subset, FS_CardinalityType
  <1>4. IsFiniteSet(page) /\ (Cardinality(older) = Cardinality(page) => older = page)
    BY <1>2, <1>3, FS_Subset
  <1>5. Cardinality(page) = Inbox!Min({asked, Cardinality(older)})
    BY <1>2, CardIs
  <1>6. Cardinality(page) = asked \/ Cardinality(page) = Cardinality(older)
    BY <1>3, <1>5, MinIs
  <1> QED BY <1>1, <1>2, <1>4, <1>6 DEF older

\* A page of an org that leaves something out is longer than any part of the
\* merge before it.
LEMMA LeftOut ==
    ASSUME Stamped, NEW answers, NotesOf(answers) \subseteq Notes, NEW page, page \subseteq NotesOf(answers),
           NEW last \in DOMAIN Inbox!Merged(answers), IsFiniteSet(page),
           \A n \in page : at[n] > at[Inbox!Merged(answers)[last]]
    PROVE  Cardinality(page) <= last - 1
  <1> DEFINE merged == Inbox!Merged(answers)
             where == [n \in page |-> CHOOSE i \in DOMAIN merged : merged[i] = n]
  <1>1. /\ merged \in Seq(Notes) /\ DOMAIN merged = 1..Len(merged)
        /\ \A i, j \in DOMAIN merged : i < j => merged[i] # merged[j] /\ at[merged[i]] >= at[merged[j]]
        /\ \A n \in NotesOf(answers) : \E i \in DOMAIN merged : merged[i] = n
    BY MergedIsSorted
  <1>2. \A i \in DOMAIN merged : at[merged[i]] \in Nat
    BY <1>1 DEF Stamped
  <1>h. last \in DOMAIN merged /\ \A n \in page : at[n] > at[merged[last]]
    OBVIOUS
  <1> HIDE DEF merged
  <1>3. \A n \in page : where[n] \in DOMAIN merged /\ merged[where[n]] = n
    BY <1>1
  <1>4. \A n \in page : where[n] \in 1..last - 1
    <2> TAKE n \in page
    <2>1. at[n] > at[merged[last]] /\ merged[where[n]] = n /\ where[n] \in 1..Len(merged) /\ last \in 1..Len(merged)
      BY <1>1, <1>3, <1>h
    <2>2. at[n] \in Nat /\ at[merged[last]] \in Nat
      BY <1>2, <1>3, <1>h
    <2> DEFINE w == where[n]
    <2> HIDE DEF w, where
    <2>3. w # last
      BY <2>1, <2>2 DEF w
    <2>4. ~(last < w)
      BY <1>1, <2>1, <2>2 DEF w
    <2> QED BY <1>1, <2>1, <2>3, <2>4 DEF w
  <1>5. where \in [page -> 1..last - 1]
    BY <1>4
  <1>6. where \in Injection(page, 1..last - 1)
    <2>1. \A n, o \in page : where[n] = where[o] => n = o
      BY <1>3
    <2> HIDE DEF where
    <2> QED BY <1>5, <2>1 DEF Injection, IsInjective
  <1>7. IsFiniteSet(1..last - 1) /\ Cardinality(1..last - 1) = last - 1
    <2> DEFINE top == last - 1
    <2>1. top \in Nat /\ 1 \in Int /\ top \in Int
      BY <1>1, <1>h
    <2> HIDE DEF top
    <2>2. IsFiniteSet(1..top) /\ Cardinality(1..top) = IF 1 > top THEN 0 ELSE top - 1 + 1
      BY <2>1, FS_Interval
    <2>3. Cardinality(1..top) = top
      BY <2>1, <2>2
    <2> QED BY <2>2, <2>3 DEF top
  <1> QED
    <2> HIDE DEF where
    <2> QED BY <1>6, <1>7, FS_Injection

LEMMA GetKeeps == ASSUME InboxInv, Inbox!get PROVE InboxInv'
  <1> DEFINE asked == Inbox!Min({limit + 1, PageCap})
             Goes(ok, answers) ==
                 LET merged == Inbox!Merged(answers)
                     items == SubSeq(merged, 1, Inbox!Min({limit, Len(merged)}))
                     follows == Inbox!More(merged, answers) /\ items # <<>>
                 IN  /\ shown' = shown \o items
                     /\ silent' = silent \cup (Orgs \ ok)
                     /\ until' = IF follows THEN at[Inbox!Last(items)] - 1 ELSE -1
                     /\ cut' = IF follows THEN cut \cup {at[Inbox!Last(items)]} ELSE cut
  <1>0. PICK ok \in SUBSET Orgs : \E answers \in Inbox!Pages(ok, asked) : Goes(ok, answers)
    BY DEF Inbox!get
  <1>1. PICK answers \in Inbox!Pages(ok, asked) : Goes(ok, answers)
    BY <1>0
  <1>2. limit # 0 /\ until # -1 /\ UNCHANGED <<at, has, limit, summary>>
    BY DEF Inbox!get
  <1>3. /\ at \in Stamps /\ Stamped /\ has \in [Orgs -> SUBSET Notes] /\ limit \in 1..PageCap /\ limit \in Nat
        /\ PageCap \in Nat /\ until \in Int /\ until >= -1 /\ Everything \subseteq Notes
    BY <1>2, InboxAssumption DEF InboxInv, Stamped, Everything
  <1>4. asked \in Nat /\ asked >= limit
    <2>1. limit + 1 \in Nat /\ PageCap \in Nat
      BY <1>3
    <2>2. asked \in Nat /\ (asked = limit + 1 \/ asked = PageCap)
      BY <2>1, MinIs
    <2> HIDE DEF asked
    <2> QED BY <1>3, <2>2
  <1> DEFINE merged == Inbox!Merged(answers)
             size == Inbox!Min({limit, Len(merged)})
             items == SubSeq(merged, 1, size)
             follows == Inbox!More(merged, answers) /\ items # <<>>
  <1>5. /\ shown' = shown \o items
        /\ silent' = silent \cup (Orgs \ ok)
        /\ until' = IF follows THEN at[Inbox!Last(items)] - 1 ELSE -1
        /\ cut' = IF follows THEN cut \cup {at[Inbox!Last(items)]} ELSE cut
    BY <1>1
  <1> HIDE DEF Goes
  <1>6. answers \in [ok -> SUBSET Notes] /\ \A org \in ok : answers[org] \in Inbox!Newest(org, asked)
    BY DEF Inbox!Pages
  <1> HIDE DEF asked
  <1>7. \A org \in ok :
          /\ answers[org] \subseteq Inbox!Older(org) /\ Inbox!Older(org) \subseteq Notes /\ IsFiniteSet(answers[org])
          /\ answers[org] = Inbox!Older(org) \/ Cardinality(answers[org]) = asked
          /\ \A n \in answers[org], o \in Inbox!Older(org) \ answers[org] : at[n] >= at[o]
    BY <1>3, <1>4, <1>6, NewestHolds
  <1>8. /\ NotesOf(answers) \subseteq Notes /\ \A org \in ok : answers[org] \subseteq NotesOf(answers)
        /\ \A n \in NotesOf(answers) : at[n] <= until
    BY <1>6, <1>7 DEF NotesOf, Inbox!Older
  <1>9. /\ merged \in Seq(Notes) /\ DOMAIN merged = 1..Len(merged)
        /\ \A i \in DOMAIN merged : merged[i] \in NotesOf(answers)
        /\ \A i, j \in DOMAIN merged : i < j => merged[i] # merged[j] /\ at[merged[i]] >= at[merged[j]]
        /\ \A n \in NotesOf(answers) : \E i \in DOMAIN merged : merged[i] = n
    BY <1>3, <1>8, MergedIsSorted
  <1>10. size \in Nat /\ size <= limit /\ size <= Len(merged) /\ (size = limit \/ size = Len(merged))
    <2>1. Len(merged) \in Nat
      BY <1>9
    <2> QED BY <1>3, <2>1, MinIs
  <1> HIDE DEF size
  <1>11. /\ items \in Seq(Notes) /\ Len(items) = size /\ DOMAIN items = 1..size
         /\ \A i \in 1..size : items[i] = merged[i] /\ i \in DOMAIN merged
    <2> HIDE DEF merged
    <2> DEFINE l == Len(merged)
    <2>a. l \in Nat /\ DOMAIN merged = 1..l
      BY <1>9
    <2>b. size \in Nat /\ size <= l
      BY <1>10
    <2>c. \A i \in DOMAIN merged : merged[i] \in Notes
      BY <1>9
    <2> HIDE DEF l
    <2>d. \A i \in 1..size : i \in 1..l
      BY <2>a, <2>b
    <2>1. size \in Int /\ 1 \in Int /\ (\A i \in 1..size : i \in DOMAIN merged /\ merged[i] \in Notes)
      BY <2>a, <2>b, <2>c, <2>d
    <2>2. /\ items \in Seq(Notes) /\ Len(items) = (IF 1 <= size THEN size - 1 + 1 ELSE 0)
          /\ \A i \in 1..size - 1 + 1 : items[i] = merged[1 + i - 1]
      BY <2>1, SubSeqProperties
    <2> HIDE DEF items
    <2>3. Len(items) = size
      BY <1>10, <2>2
    <2> QED BY <2>1, <2>2, <2>3
  <1> HIDE DEF items, merged
  <1>12. \A n \in Notes : at[n] \in Nat \ {0}
    BY <1>3 DEF Stamped
  <1>13. /\ shown \in Seq(Notes) /\ DOMAIN shown = 1..Len(shown) /\ Len(shown) \in Nat
         /\ InOrder(shown) /\ \A i \in DOMAIN shown : at[shown[i]] > until
    BY DEF InboxInv
  <1>14. /\ shown' \in Seq(Notes) /\ DOMAIN shown' = 1..Len(shown) + size
         /\ \A i \in 1..Len(shown) + size :
              shown'[i] = IF i <= Len(shown) THEN shown[i] ELSE items[i - Len(shown)]
    <2>1. shown \in Seq(Notes) /\ items \in Seq(Notes) /\ shown' = shown \o items
      BY <1>5, <1>11, <1>13
    <2>2. /\ shown \o items \in Seq(Notes) /\ Len(shown \o items) = Len(shown) + Len(items)
          /\ \A i \in 1 .. Len(shown) + Len(items) :
               (shown \o items)[i] = IF i <= Len(shown) THEN shown[i] ELSE items[i - Len(shown)]
      BY <2>1, ConcatProperties
    <2> QED BY <1>10, <1>11, <1>13, <2>1, <2>2
  \* Where a notification shown comes from.
  <1>15. ASSUME NEW i \in DOMAIN shown'
         PROVE  \/ i \in DOMAIN shown /\ shown'[i] = shown[i]
                \/ /\ ~(i <= Len(shown)) /\ i - Len(shown) \in 1..size /\ shown'[i] = merged[i - Len(shown)]
                   /\ i - Len(shown) \in DOMAIN merged
    <2>1. CASE i <= Len(shown)
      BY <1>10, <1>13, <1>14, <2>1
    <2>2. CASE ~(i <= Len(shown))
      <3>1. i \in Int /\ i - Len(shown) \in 1..size
        BY <1>10, <1>13, <1>14, <2>2
      <3> QED BY <1>11, <1>14, <2>2, <3>1
    <2> QED BY <2>1, <2>2
  <1>16. /\ \A i \in DOMAIN shown : i \in DOMAIN shown' /\ shown'[i] = shown[i]
         /\ \A i \in 1..size : \E k \in DOMAIN shown' : shown'[k] = merged[i]
    <2>1. ASSUME NEW i \in DOMAIN shown PROVE i \in DOMAIN shown' /\ shown'[i] = shown[i]
      BY <1>10, <1>13, <1>14
    <2>2. ASSUME NEW i \in 1..size PROVE \E k \in DOMAIN shown' : shown'[k] = merged[i]
      <3>1. i + Len(shown) \in 1..Len(shown) + size /\ ~(i + Len(shown) <= Len(shown)) /\ (i + Len(shown)) - Len(shown) = i
        BY <1>10, <1>13
      <3> QED BY <1>11, <1>14, <3>1
    <2> QED BY <2>1, <2>2
  <1>17. InOrder(shown)'
    <2> SUFFICES ASSUME NEW i \in DOMAIN shown', NEW j \in DOMAIN shown', i < j
                 PROVE  shown'[i] # shown'[j] /\ at[shown'[i]] >= at[shown'[j]]
      BY <1>2 DEF InOrder
    <2>0. i \in Int /\ j \in Int
      BY <1>14
    <2>1. CASE i \in DOMAIN shown /\ j \in DOMAIN shown
      BY <1>13, <1>16, <2>1 DEF InOrder
    <2>2. CASE i \in DOMAIN shown /\ j \notin DOMAIN shown
      <3> DEFINE a == shown[i]
                 b == merged[j - Len(shown)]
      <3>1. shown'[i] = a /\ shown'[j] = b /\ b \in NotesOf(answers) /\ a \in Notes
        BY <1>9, <1>13, <1>15, <1>16, <2>2
      <3> HIDE DEF a, b
      <3>2. at[a] > until /\ at[b] <= until /\ at[a] \in Nat /\ at[b] \in Nat
        BY <1>8, <1>12, <1>13, <2>2, <3>1 DEF a
      <3>3. at[a] >= at[b] /\ at[a] # at[b]
        BY <1>3, <3>2
      <3> QED BY <3>1, <3>3
    <2>3. CASE i \notin DOMAIN shown /\ j \notin DOMAIN shown
      <3> DEFINE k == i - Len(shown)
                 l == j - Len(shown)
      <3>1. k \in DOMAIN merged /\ l \in DOMAIN merged /\ shown'[i] = merged[k] /\ shown'[j] = merged[l]
        BY <1>15, <2>3
      <3>2. k < l
        BY <1>13, <2>0
      <3> HIDE DEF k, l
      <3> QED BY <1>9, <3>1, <3>2
    <2>4. CASE i \notin DOMAIN shown /\ j \in DOMAIN shown
      BY <1>13, <1>15, <2>0, <2>4
    <2> QED BY <2>1, <2>2, <2>3, <2>4
  <1> DEFINE last == at[merged[size]]
  <1>18. items # <<>> => size \in 1..size /\ size \in DOMAIN merged /\ last \in Nat \ {0} /\ last <= until
                        /\ at[Inbox!Last(items)] = last /\ merged[size] \in Notes
    <2> SUFFICES ASSUME items # <<>>
                 PROVE  size \in 1..size /\ size \in DOMAIN merged /\ last \in Nat \ {0} /\ last <= until
                        /\ at[Inbox!Last(items)] = last /\ merged[size] \in Notes
      OBVIOUS
    <2>1. size # 0
      BY <1>11
    <2>2. size \in 1..size
      BY <1>10, <2>1
    <2>3. size \in DOMAIN merged /\ items[size] = merged[size]
      BY <1>11, <2>2
    <2> QED BY <1>8, <1>9, <1>11, <1>12, <2>2, <2>3 DEF Inbox!Last
  <1>19. until' \in Int /\ until' >= -1 /\ until' < until
    <2>1. CASE follows
      <3>1. until' = last - 1 /\ last \in Nat \ {0} /\ last <= until
        BY <1>5, <1>18, <2>1
      <3> HIDE DEF last
      <3> QED BY <1>3, <3>1
    <2>2. CASE ~follows
      BY <1>2, <1>3, <1>5, <2>2
    <2> QED BY <2>1, <2>2
  <1>20. \A i \in DOMAIN shown' : at[shown'[i]] > until'
    <2> TAKE i \in DOMAIN shown'
    <2> DEFINE n == shown'[i]
    <2>0. n \in Notes
      <3> DEFINE s == shown'
      <3>1. s \in Seq(Notes) /\ i \in DOMAIN s
        BY <1>14
      <3> HIDE DEF s
      <3>2. s[i] \in Notes
        BY <3>1
      <3> QED BY <3>2 DEF s
    <2>1. n \in Notes /\ at[n] \in Nat \ {0}
      <3> HIDE DEF n
      <3> QED BY <1>12, <2>0
    <2>2. CASE i \in DOMAIN shown
      <3>1. at[n] > until
        BY <1>13, <1>16, <2>2
      <3> HIDE DEF n
      <3>2. at[n] > until'
        BY <1>3, <1>19, <2>1, <3>1
      <3> QED BY <3>2 DEF n
    <2>3. CASE i \notin DOMAIN shown /\ ~follows
      BY <1>5, <2>1, <2>3
    <2>4. CASE i \notin DOMAIN shown /\ follows
      <3> DEFINE k == i - Len(shown)
      <3>1. k \in 1..size /\ n = merged[k] /\ k \in DOMAIN merged
        BY <1>15, <2>4
      <3>2. until' = last - 1 /\ last \in Nat \ {0} /\ size \in DOMAIN merged
        BY <1>5, <1>18, <2>4
      <3> HIDE DEF n, k
      <3>3. k = size \/ k < size
        BY <1>10, <3>1
      <3>4. at[n] >= last
        BY <1>9, <2>1, <3>1, <3>2, <3>3
      <3> HIDE DEF last
      <3>5. at[n] > until'
        BY <2>1, <3>2, <3>4
      <3> QED BY <3>5 DEF n
    <2> QED BY <2>2, <2>3, <2>4
  <1>21. ASSUME NEW n \in Everything \ Inbox!ToSet(shown'), at[n] > until'
         PROVE  Excused(n)'
    <2>1. n \in Notes /\ at[n] \in Nat \ {0} /\ n \notin Inbox!ToSet(shown) /\ \A i \in 1..size : merged[i] # n
      BY <1>3, <1>12, <1>16 DEF Inbox!ToSet
    <2>2. cut \subseteq cut' /\ silent \subseteq silent'
      BY <1>5
    <2>3. CASE at[n] > until
      <3>1. Excused(n)
        BY <2>1, <2>3 DEF InboxInv
      <3> QED BY <1>2, <2>2, <3>1 DEF Excused
    <2>4. CASE ~(at[n] > until)
      <3>0. at[n] <= until
        BY <1>3, <2>1, <2>4
      <3>1. SUFFICES ASSUME NEW org \in ok, n \in has[org], ~(follows /\ at[n] = last) PROVE FALSE
        <4>1. CASE follows /\ at[n] = last
          BY <1>2, <1>5, <1>18, <4>1 DEF Excused
        <4>2. CASE ~(follows /\ at[n] = last)
          <5>1. \A org \in ok : n \notin has[org]
            BY <3>1, <4>2
          <5> QED BY <1>2, <1>5, <5>1 DEF Excused
        <4> QED BY <4>1, <4>2
      <3>2. n \in Inbox!Older(org)
        BY <3>0, <3>1 DEF Inbox!Older
      <3>3. ASSUME n \in answers[org] PROVE \E i \in DOMAIN merged : merged[i] = n
        BY <1>8, <1>9, <3>3
      \* With no page to follow, the page holds the whole merge and the merge all.
      <3>4. ASSUME ~follows PROVE FALSE
        <4>1. CASE items = <<>>
          <5>1. size = 0
            BY <1>10, <1>11, <4>1
          <5>2. Len(merged) = 0
            BY <1>3, <1>10, <5>1
          <5>3. answers[org] = {}
            BY <1>8, <1>9, <5>2
          <5>4. Cardinality(answers[org]) = 0
            BY <5>3, FS_EmptySet
          <5>5. asked # 0
            BY <1>3, <1>4
          <5> QED BY <1>7, <3>2, <5>3, <5>4, <5>5
        <4>2. CASE items # <<>>
          <5>1. ~Inbox!More(merged, answers)
            BY <3>4, <4>2
          <5>2. ~(Len(merged) > limit) /\ answers[org] = Inbox!Older(org)
            BY <1>6, <5>1 DEF Inbox!More
          <5>3. size = Len(merged)
            <6> DEFINE l == Len(merged)
            <6>1. l \in Nat
              BY <1>9
            <6>2. size \in Nat /\ size <= l /\ (size = limit \/ size = l) /\ ~(l > limit)
              BY <1>10, <5>2
            <6>3. limit \in Nat
              BY <1>3
            <6> HIDE DEF l
            <6>4. size = l
              BY <6>1, <6>2, <6>3
            <6> QED BY <6>4 DEF l
          <5> QED BY <1>9, <2>1, <3>2, <3>3, <5>2, <5>3
        <4> QED BY <4>1, <4>2
      \* With one, what is newer than its end and was not shown was not asked for
      \* either: an org would have answered more than the page holds.
      <3>5. ASSUME follows PROVE FALSE
        <4>1. /\ until' = last - 1 /\ last \in Nat \ {0} /\ size \in DOMAIN merged /\ at[n] # last
              /\ merged[size] \in Notes
          BY <1>5, <1>18, <3>1, <3>5
        <4>2. at[n] > last
          <5> HIDE DEF last
          <5> QED BY <1>21, <2>1, <4>1
        <4>3. n \notin answers[org]
          <5> SUFFICES ASSUME n \in answers[org] PROVE FALSE
            OBVIOUS
          <5>1. PICK i \in DOMAIN merged : merged[i] = n
            BY <3>3
          <5>2. ~(i <= size)
            BY <1>9, <2>1, <5>1
          <5>3. size < i
            <6>1. i \in Int /\ size \in Int
              <7>1. DOMAIN merged = 1..Len(merged)
                BY <1>9
              <7>2. i \in 1..Len(merged)
                BY <7>1
              <7> QED BY <1>10, <7>2
            <6> QED BY <5>2, <6>1
          <5>4. last >= at[n]
            BY <1>9, <4>1, <5>1, <5>3
          <5> HIDE DEF last
          <5> QED BY <2>1, <4>1, <4>2, <5>4
        <4>4. Cardinality(answers[org]) = asked /\ \A m \in answers[org] : at[m] >= at[n]
          BY <1>7, <3>2, <4>3
        <4>5. \A m \in answers[org] : at[m] > last
          <5> TAKE m \in answers[org]
          <5>1. at[m] >= at[n] /\ at[m] \in Nat
            BY <1>6, <1>12, <4>4
          <5> HIDE DEF last
          <5> QED BY <2>1, <4>1, <4>2, <5>1
        <4>6. Cardinality(answers[org]) <= size - 1
          BY <1>3, <1>7, <1>8, <4>1, <4>5, LeftOut DEF merged
        <4> QED BY <1>3, <1>4, <1>10, <4>4, <4>6
      <3> QED BY <3>4, <3>5
    <2> QED BY <2>3, <2>4
  <1>22. Counted'
    BY <1>2 DEF Counted, Everything, InboxInv
  <1>23. \A n \in (Everything \ Inbox!ToSet(shown))' : (at[n] > until => Excused(n))'
    BY <1>2, <1>21 DEF Everything, Inbox!ToSet
  <1> QED BY <1>2, <1>14, <1>17, <1>19, <1>20, <1>22, <1>23 DEF InboxInv

LEMMA SummariseKeeps == ASSUME InboxInv, Inbox!Summarise PROVE InboxInv'
  <1>1. limit = 0 /\ UNCHANGED <<at, has, limit, until, shown, silent, cut>>
    BY DEF Inbox!Summarise
  <1>2. PICK ok \in SUBSET Orgs, seen_ms \in Inbox!Times \cup {Inbox!Min(Inbox!Times) - 1} :
          \E answers \in Inbox!Pages(ok, Window) :
            summary' = [new_count |-> Inbox!Cardinality({n \in UNION {answers[org] : org \in ok} : at[n] > seen_ms}),
                        capped |-> \E org \in ok : Inbox!Cardinality(answers[org]) >= Window /\ \A n \in answers[org] : at[n] > seen_ms,
                        status |-> IF ok = {} THEN "error" ELSE IF ok = Orgs THEN "ok" ELSE "partial",
                        seen_ms |-> seen_ms]
    BY DEF Inbox!Summarise
  <1>3. PICK answers \in Inbox!Pages(ok, Window) :
            summary' = [new_count |-> Inbox!Cardinality({n \in UNION {answers[org] : org \in ok} : at[n] > seen_ms}),
                        capped |-> \E org \in ok : Inbox!Cardinality(answers[org]) >= Window /\ \A n \in answers[org] : at[n] > seen_ms,
                        status |-> IF ok = {} THEN "error" ELSE IF ok = Orgs THEN "ok" ELSE "partial",
                        seen_ms |-> seen_ms]
    BY <1>2
  <1> DEFINE capped == \E org \in ok : Inbox!Cardinality(answers[org]) >= Window /\ \A n \in answers[org] : at[n] > seen_ms
             count == Inbox!Cardinality({n \in UNION {answers[org] : org \in ok} : at[n] > seen_ms})
  <1>4. /\ summary'.new_count = count /\ summary'.capped = capped /\ summary'.seen_ms = seen_ms
        /\ summary'.status = "ok" => ok = Orgs
    <2> HIDE DEF capped, count
    <2>1. summary' = [new_count |-> count, capped |-> capped,
                      status |-> IF ok = {} THEN "error" ELSE IF ok = Orgs THEN "ok" ELSE "partial", seen_ms |-> seen_ms]
      BY <1>3 DEF capped, count
    <2> QED BY <2>1
  <1>5. ASSUME ok = Orgs, ~capped PROVE {n \in UNION {answers[org] : org \in ok} : at[n] > seen_ms} = {n \in Everything : at[n] > seen_ms}
    <2>1. /\ at \in Stamps /\ Stamped /\ has \in [Orgs -> SUBSET Notes] /\ until = Inbox!Max(Inbox!Times) /\ Window \in Nat
      BY <1>1, InboxAssumption DEF InboxInv, Stamped
    <2>2. \A n \in Notes : at[n] <= until /\ at[n] \in Nat
      BY <2>1, NewestTime
    <2>3. \A org \in Orgs : Inbox!Older(org) = has[org]
      BY <2>1, <2>2 DEF Inbox!Older
    <2>4. \A org \in Orgs :
            /\ answers[org] \subseteq has[org]
            /\ answers[org] = has[org] \/ Cardinality(answers[org]) = Window
            /\ \A n \in answers[org], o \in has[org] \ answers[org] : at[n] >= at[o]
      <3> TAKE org \in Orgs
      <3>1. answers[org] \in Inbox!Newest(org, Window)
        BY <1>5 DEF Inbox!Pages
      <3>2. /\ answers[org] \subseteq Inbox!Older(org)
            /\ answers[org] = Inbox!Older(org) \/ Cardinality(answers[org]) = Window
            /\ \A n \in answers[org], o \in Inbox!Older(org) \ answers[org] : at[n] >= at[o]
        BY <2>1, <3>1, NewestHolds
      <3> QED BY <2>3, <3>2
    <2>5. ASSUME NEW org \in Orgs, NEW n \in has[org], at[n] > seen_ms PROVE n \in answers[org]
      <3> SUFFICES ASSUME n \notin answers[org] PROVE FALSE
        OBVIOUS
      <3>1. Cardinality(answers[org]) = Window /\ \A m \in answers[org] : at[m] >= at[n]
        BY <2>4
      <3>2. Inbox!Cardinality(answers[org]) >= Window
        BY <2>1, <3>1, CardIs
      <3>3. seen_ms \in Int
        <4>1. \A ms \in Inbox!Times : ms \in Nat
          BY InboxAssumption DEF Inbox!Times
        <4>2. Inbox!Min(Inbox!Times) \in Inbox!Times
          BY InboxAssumption DEF Inbox!Min
        <4> QED BY <4>1, <4>2
      <3>4. \A m \in answers[org] : at[m] > seen_ms
        <4> TAKE m \in answers[org]
        <4>1. at[m] \in Nat /\ at[n] \in Nat /\ at[m] >= at[n]
          BY <2>1, <2>2, <2>4, <3>1
        <4> QED BY <2>5, <3>3, <4>1
      <3> QED BY <1>5, <3>2, <3>4
    <2> QED BY <1>5, <2>4, <2>5 DEF Everything
  <1>6. Everything' = Everything
    BY <1>1 DEF Everything
  <1>7. Counted'
    <2> SUFFICES ASSUME summary'.status = "ok", ~summary'.capped
                 PROVE  summary'.new_count = Inbox!Cardinality({n \in Everything : at[n] > summary'.seen_ms})
      BY <1>1, <1>6 DEF Counted
    <2>1. ok = Orgs /\ ~capped
      BY <1>4
    <2> HIDE DEF capped
    <2>2. summary'.new_count = count /\ summary'.seen_ms = seen_ms
      BY <1>4
    <2>3. count = Inbox!Cardinality({n \in Everything : at[n] > seen_ms})
      BY <1>5, <2>1
    <2> QED BY <2>2, <2>3
  <1> QED BY <1>1, <1>6, <1>7 DEF InboxInv, InOrder, Excused, Inbox!ToSet

LEMMA InboxNext == ASSUME InboxInv, [Inbox!Next]_inbox PROVE InboxInv'
  <1>1. CASE UNCHANGED inbox
    BY <1>1 DEF inbox, InboxInv, InOrder, Excused, Counted, Everything, Inbox!ToSet
  <1>2. CASE Inbox!Next
    BY <1>2, GetKeeps, SummariseKeeps DEF Inbox!Next
  <1> QED BY <1>1, <1>2

\* The invariant is enough.
LEMMA InboxWhole == ASSUME InboxInv PROVE Inbox!MissedOnlyIfTied
  <1>1. shown \in Seq(Notes) /\ DOMAIN shown = 1..Len(shown) /\ InOrder(shown)
    BY DEF InboxInv
  <1>2. Inbox!IsInjective(shown)
    <2> SUFFICES ASSUME NEW a \in DOMAIN shown, NEW b \in DOMAIN shown, shown[a] = shown[b] PROVE a = b
      BY DEF Inbox!IsInjective
    <2>1. ~(a < b) /\ ~(b < a)
      BY <1>1 DEF InOrder
    <2> QED BY <1>1, <2>1
  <1>3. \A i, j \in DOMAIN shown : i < j => at[shown[i]] >= at[shown[j]]
    BY <1>1 DEF InOrder
  <1>4. ASSUME until = -1, NEW n \in Everything \ Inbox!ToSet(shown) PROVE Excused(n)
    <2>1. n \in Notes /\ at \in Stamps
      BY DEF InboxInv, Everything
    <2>2. at[n] \in Nat
      BY <2>1, NewestTime
    <2>3. at[n] > until
      BY <1>4, <2>2
    <2> QED BY <2>3 DEF InboxInv
  <1>5. Counted
    BY DEF InboxInv
  <1>6. until = -1 => \A n \in (UNION {has[org] : org \in Orgs}) \ Inbox!ToSet(shown) :
          at[n] \in cut \/ {org \in Orgs : n \in has[org]} \subseteq silent
    BY <1>4 DEF Everything, Excused
  <1>7. summary # <<>> /\ summary.status = "ok" /\ ~summary.capped =>
          summary.new_count = Inbox!Cardinality({n \in UNION {has[org] : org \in Orgs} : at[n] > summary.seen_ms})
    BY <1>5 DEF Counted, Everything
  <1> QED BY <1>2, <1>3, <1>6, <1>7 DEF Inbox!MissedOnlyIfTied

-----------------------------------------------------------------------------
\* The failure of a run.

\* An entry of the chain.
Hop == [run : Nat, phase : BOOLEAN]

\* The chain ends at the run where the walk stopped, and rightly.
Walked ==
    /\ Len(chain) = cur + 1 /\ chain[cur + 1].run = cur
    /\ phases => /\ chain[cur + 1].phase = runs[cur].broke
                 /\ ~Failure!Child(cur) \/ cur = MAX_DEPTH

\* The answer is of that run.
Explained ==
    /\ failure.detail = Failure!ErrorOf
    /\ failure.reason = Failure!classify_failure(runs[cur].state, Failure!ErrorOf, read_hug)
    /\ failure.phase_of = Failure!BrokeAt(cur, phases)
    /\ failure.resume_from = "phase" => Failure!BrokeAt(cur, phases) # Failure!None

\* The inductive invariant.
FailureInv ==
    /\ runs \in Facts
    /\ cur \in Depths /\ cur <= MAX_DEPTH /\ phases \in BOOLEAN
    /\ pc \in {"walking", "review", "done"}
    /\ chain \in Seq(Hop)
    /\ \A i \in DOMAIN chain : chain[i].run = i - 1
    /\ pc = "walking" => phases /\ Len(chain) = cur /\ failure = <<>> /\ read_hug = "none"
    /\ pc = "review" => Walked /\ failure = <<>>
    /\ read_hug # "none" => /\ read_hug \in Failure!Reviews
                            /\ Failure!ErrorOf \in {"review timed out", "rejected", "escalating"}
    /\ failure # <<>> => Walked /\ Explained

LEMMA FailureStart == ASSUME Failure!Init PROVE FailureInv
  BY FailureAssumption, EmptySeq DEF Failure!Init, FailureInv

LEMMA HopsKeeps == ASSUME FailureInv, Failure!Hops PROVE FailureInv'
  <1>1. /\ pc = "walking" /\ phases /\ Len(chain) = cur /\ failure = <<>> /\ read_hug = "none"
        /\ cur \in Nat /\ cur + 1 \in Depths /\ cur + 1 <= MAX_DEPTH
        /\ UNCHANGED <<runs, read_hug, failure>> /\ cur' = cur + 1
    BY FailureAssumption DEF FailureInv, Failure!Hops, Failure!Child
  <1>2. runs[cur].broke \in BOOLEAN
    BY FailureAssumption DEF FailureInv
  <1>3. Failure!Hop(cur, runs[cur].broke) \in Hop /\ Failure!Hop(cur + 1, FALSE) \in Hop
    BY <1>1, <1>2 DEF Failure!Hop, Hop
  <1>4. CASE phases' = TRUE /\ chain' = Append(chain, Failure!Hop(cur, runs[cur].broke)) /\ pc' = pc
    <2> DEFINE h == Failure!Hop(cur, runs[cur].broke)
    <2>0. h.run = cur
      BY DEF Failure!Hop
    <2> HIDE DEF h
    <2>1. chain' \in Seq(Hop) /\ Len(chain') = cur + 1
      BY <1>1, <1>3, <1>4 DEF FailureInv, h
    <2>2. \A i \in DOMAIN chain' : chain'[i].run = i - 1
      BY <1>1, <1>3, <1>4, <2>0 DEF FailureInv, h
    <2> QED BY <1>1, <1>4, <2>1, <2>2 DEF FailureInv
  <1>5. CASE /\ phases' = FALSE /\ pc' = "review"
             /\ chain' = chain \o <<Failure!Hop(cur, runs[cur].broke), Failure!Hop(cur + 1, FALSE)>>
    <2> DEFINE h == Failure!Hop(cur, runs[cur].broke)
               k == Failure!Hop(cur + 1, FALSE)
    <2>0. h.run = cur /\ k.run = cur + 1 /\ h \in Hop /\ k \in Hop
      BY <1>3 DEF Failure!Hop
    <2>00. chain' = chain \o <<h, k>> /\ chain \in Seq(Hop)
      BY <1>5 DEF FailureInv
    <2> HIDE DEF h, k
    <2> DEFINE two == <<h, k>>
    <2>a. two \in Seq(Hop) /\ Len(two) = 2 /\ two[1] = h /\ two[2] = k
      BY <2>0
    <2>b. chain' = chain \o two /\ chain \in Seq(Hop)
      BY <2>00
    <2> HIDE DEF two
    <2>c. /\ chain' \in Seq(Hop) /\ Len(chain') = Len(chain) + Len(two)
          /\ \A i \in 1..Len(chain) + Len(two) :
               chain'[i] = IF i <= Len(chain) THEN chain[i] ELSE two[i - Len(chain)]
      BY <2>a, <2>b, ConcatProperties
    <2>1. chain' \in Seq(Hop) /\ Len(chain') = cur + 2
      BY <1>1, <2>a, <2>c
    <2>2. \A i \in DOMAIN chain' : chain'[i].run = i - 1
      <3> SUFFICES ASSUME NEW i \in 1..cur + 2 PROVE chain'[i].run = i - 1
        BY <1>1, <2>1
      <3>0. Len(chain) = cur /\ Len(two) = 2 /\ cur \in Nat
        BY <1>1, <2>a
      <3>n. chain'[i] = IF i <= Len(chain) THEN chain[i] ELSE two[i - Len(chain)]
        BY <2>c, <3>0
      <3>1. CASE i <= cur
        <4>1. i \in DOMAIN chain /\ chain'[i] = chain[i]
          BY <2>00, <3>0, <3>n, <3>1
        <4> QED BY <4>1 DEF FailureInv
      <3>2. CASE i = cur + 1
        <4>1. ~(i <= Len(chain)) /\ i - Len(chain) = 1
          BY <3>0, <3>2
        <4>2. chain'[i] = h
          BY <2>a, <3>n, <4>1
        <4> QED BY <2>0, <3>0, <3>2, <4>2
      <3>3. CASE i = cur + 2
        <4>1. ~(i <= Len(chain)) /\ i - Len(chain) = 2
          BY <3>0, <3>3
        <4>2. chain'[i] = k
          BY <2>a, <3>n, <4>1
        <4> QED BY <2>0, <3>0, <3>3, <4>2
      <3> QED BY <3>0, <3>1, <3>2, <3>3
    <2>3. chain'[cur + 2].run = cur + 1
      BY <1>1, <2>1, <2>2
    <2>4. Walked'
      BY <1>1, <1>5, <2>1, <2>3 DEF Walked
    <2> QED BY <1>1, <1>5, <2>1, <2>2, <2>4 DEF FailureInv
  <1> QED BY <1>4, <1>5 DEF Failure!Hops

LEMMA BottomKeeps == ASSUME FailureInv, Failure!Bottom PROVE FailureInv'
  <1>1. /\ pc = "walking" /\ phases /\ Len(chain) = cur /\ failure = <<>> /\ read_hug = "none" /\ cur \in Nat
        /\ UNCHANGED <<runs, cur, phases, read_hug, failure>> /\ pc' = "review"
        /\ chain' = Append(chain, Failure!Hop(cur, runs[cur].broke))
        /\ ~Failure!Child(cur) \/ cur = MAX_DEPTH
    BY FailureAssumption DEF FailureInv, Failure!Bottom
  <1>2. runs[cur].broke \in BOOLEAN
    BY FailureAssumption DEF FailureInv
  <1> DEFINE h == Failure!Hop(cur, runs[cur].broke)
  <1>3. h \in Hop /\ h.run = cur /\ h.phase = runs[cur].broke
    BY <1>1, <1>2 DEF Failure!Hop, Hop
  <1> HIDE DEF h
  <1>4. chain' \in Seq(Hop) /\ Len(chain') = cur + 1 /\ chain'[cur + 1] = h
    BY <1>1, <1>3 DEF FailureInv, h
  <1>5. \A i \in DOMAIN chain' : chain'[i].run = i - 1
    BY <1>1, <1>3 DEF FailureInv, h
  <1>6. (~Failure!Child(cur) \/ cur = MAX_DEPTH)'
    BY <1>1 DEF Failure!Child
  <1>7. Walked'
    BY <1>1, <1>3, <1>4, <1>6 DEF Walked
  <1> QED BY <1>1, <1>4, <1>5, <1>7 DEF FailureInv

LEMMA FailureNext == ASSUME FailureInv, [Failure!Next]_failures PROVE FailureInv'
  <1>1. CASE UNCHANGED failures
    BY <1>1 DEF failures, FailureInv, Walked, Explained, Failure!Child, Failure!ErrorOf, Failure!BrokeAt
  <1>2. CASE Failure!NotStopped
    BY <1>2 DEF Failure!NotStopped, FailureInv, Walked, Explained, Failure!Child, Failure!ErrorOf, Failure!BrokeAt
  <1>3. CASE Failure!Hops
    BY <1>3, HopsKeeps
  <1>4. CASE Failure!Bottom
    BY <1>4, BottomKeeps
  <1>5. CASE Failure!ReadHug
    <2>1. UNCHANGED <<runs, cur, phases, chain, pc, failure>> /\ read_hug' \in Failure!Reviews /\ failure = <<>>
      BY <1>5 DEF Failure!ReadHug
    <2>2. pc = "review" /\ Failure!ErrorOf \in {"review timed out", "rejected", "escalating"}
      BY <1>5 DEF Failure!ReadHug
    <2>3. (Failure!ErrorOf \in {"review timed out", "rejected", "escalating"})'
      BY <2>1, <2>2 DEF Failure!ErrorOf, Failure!BrokeAt
    <2>4. Walked'
      BY <2>1, <2>2 DEF FailureInv, Walked, Failure!Child
    <2> QED BY <2>1, <2>2, <2>3, <2>4 DEF FailureInv
  <1>6. CASE Failure!read_failure
    <2>1. UNCHANGED <<runs, cur, phases, chain, read_hug>> /\ pc = "review" /\ pc' = "done"
      BY <1>6 DEF Failure!read_failure
    <2>2. Walked /\ Walked'
      BY <2>1 DEF FailureInv, Walked, Failure!Child
    <2>3. Failure!ErrorOf' = Failure!ErrorOf
      BY <2>1 DEF Failure!ErrorOf, Failure!BrokeAt
    <2>4. Explained'
      <3> DEFINE reason == Failure!classify_failure(runs[cur].state, Failure!ErrorOf, read_hug)
      <3>1. PICK targets \in BOOLEAN :
              failure' = [reason |-> reason, detail |-> Failure!ErrorOf,
                          resume_from |-> IF reason \in Failure!ReviewReasons /\ targets THEN "route target" ELSE
                                          IF Failure!BrokeAt(cur, phases) = Failure!None THEN "none" ELSE "phase",
                          phase_of |-> Failure!BrokeAt(cur, phases)]
        BY <1>6 DEF Failure!read_failure
      <3>2. reason' = reason
        BY <2>1, <2>3 DEF Failure!classify_failure
      <3>3. Failure!BrokeAt(cur, phases)' = Failure!BrokeAt(cur, phases)
        BY <2>1 DEF Failure!BrokeAt
      <3> HIDE DEF reason
      <3>4. /\ failure'.detail = Failure!ErrorOf /\ failure'.reason = reason
            /\ failure'.phase_of = Failure!BrokeAt(cur, phases)
            /\ failure'.resume_from = "phase" => Failure!BrokeAt(cur, phases) # Failure!None
        BY <3>1
      <3> QED BY <2>3, <3>2, <3>3, <3>4 DEF Explained, reason
    <2> QED BY <2>1, <2>2, <2>3, <2>4 DEF FailureInv
  <1> QED BY <1>1, <1>2, <1>3, <1>4, <1>5, <1>6 DEF Failure!Next

\* The invariant is enough.
LEMMA FailureExplained == ASSUME FailureInv PROVE Failure!WhyIsTheDeepest
  <1> SUFFICES ASSUME failure # <<>> PROVE Failure!WhyIsTheDeepest
    BY DEF Failure!WhyIsTheDeepest
  <1> DEFINE last == chain[Len(chain)]
  <1>1. Walked /\ Explained
    BY DEF FailureInv
  <1>2. Len(chain) = cur + 1 /\ last.run = cur /\ cur \in Nat /\ cur <= MAX_DEPTH
    BY <1>1, FailureAssumption DEF Walked, FailureInv
  <1>3. Len(chain) <= MAX_DEPTH + 1
    BY <1>2, FailureAssumption
  <1>4. phases /\ last.run < MAX_DEPTH => ~Failure!Child(last.run)
    BY <1>1, <1>2, FailureAssumption DEF Walked
  <1>5. failure.detail = Failure!ErrorOf /\ failure.phase_of = Failure!BrokeAt(cur, phases)
    BY <1>1 DEF Explained
  <1>6. runs[last.run].error # "none" => failure.detail \in {runs[last.run].error, runs[last.run].phase_error}
    BY <1>2, <1>5, FailureAssumption DEF Failure!ErrorOf, Failure!BrokeAt, Failure!None
  <1>7. failure.phase_of \in {Failure!None, last.run} /\ (failure.phase_of # Failure!None => phases)
    BY <1>2, <1>5 DEF Failure!BrokeAt, Failure!None
  <1>8. failure.resume_from = "phase" => last.phase
    BY <1>1, <1>2 DEF Explained, Failure!BrokeAt, Walked
  <1>9. read_hug # "none" => failure.reason \in Failure!ReviewReasons \cup {"cancelled"}
    <2> SUFFICES ASSUME read_hug # "none" PROVE failure.reason \in Failure!ReviewReasons \cup {"cancelled"}
      OBVIOUS
    <2>1. read_hug \in Failure!Reviews /\ Failure!ErrorOf \in {"review timed out", "rejected", "escalating"}
      BY DEF FailureInv
    <2>2. failure.reason = Failure!classify_failure(runs[cur].state, Failure!ErrorOf, read_hug)
      BY <1>1 DEF Explained
    <2> DEFINE state == runs[cur].state
               error == Failure!ErrorOf
    <2> HIDE DEF state, error
    <2>3. Failure!classify_failure(state, error, read_hug) \in Failure!ReviewReasons \cup {"cancelled"}
      BY <2>1 DEF Failure!classify_failure, Failure!Reviews, Failure!ReviewReasons, error
    <2> QED BY <2>2, <2>3 DEF state, error
  <1>10. \A i \in DOMAIN chain : chain[i].run = i - 1
    BY DEF FailureInv
  <1> QED BY <1>3, <1>4, <1>6, <1>7, <1>8, <1>9, <1>10 DEF Failure!WhyIsTheDeepest

-----------------------------------------------------------------------------
\* The attempts of a run.

\* An attempt as the page keeps it, and all the page keeps.
Attempt == [state : {"running", "unknown", "completed", "failed"}, started : Nat, ended : Nat, from : Nat]
Kept == [list : Seq(Attempt), by : {"started", "resumed"}]

\* How many attempts are known, and how many there were.
Known == Len(seen.list)
Made == Len(truth)

\* The reports of the last turn, and those of them that are still to land or lost.
Expected ==
    IF truth[Made] # "running" THEN {Attempts!Report(truth[Made], Made)}
    ELSE {Attempts!Report("started", Made)} \cup (IF Made > 1 THEN {Attempts!Report("resumed", Made)} ELSE {})

Awaited(event) == Attempts!Report(event, Made) \in pending \cup lost

AttemptsTyped ==
    /\ now \in 0..MaxTime /\ since \in 0..now
    /\ truth \in Seq({"running", "completed", "failed"}) /\ Made >= 1
    /\ \A n \in 1..Made - 1 : truth[n] # "running"
    /\ seen \in Kept
    /\ pending \subseteq Expected
    /\ pending # {} => now <= since + 1

\* Only the last attempt is open.
EndsKnown ==
    \A i \in 1..Known :
        /\ seen.list[i].started <= now
        /\ \/ seen.list[i].ended = Attempts!NotYet /\ seen.list[i].state = "running" /\ i = Known
           \/ seen.list[i].ended <= now /\ seen.list[i].state # "running"

\* An open attempt was opened in this turn, or well before it and another is to come.
OpenedWhen ==
    Attempts!Open(seen) =>
        /\ seen.by = "started" => seen.list[Known].from = 0
        /\ truth[Made] = "running" =>
             since <= seen.list[Known].started \/ (Known < Made /\ seen.list[Known].started + 1 < since)
        /\ truth[Made] # "running" => seen.list[Known].started <= since

NoneInvented == Known <= Made /\ (truth[Made] = "running" /\ ~Attempts!Open(seen) => Known < Made)

\* There is a request for each resume, in their order, none later than its attempt.
RequestsKept ==
    /\ requests \subseteq [n : Nat, at : Nat]
    /\ \A r \in requests : r.n <= Made + 1 /\ r.at <= now /\ (r.n <= Made => r.at <= since)
    /\ \A r, q \in requests : r.n < q.n => r.at <= q.at
    /\ \A n \in 2..Made : \E r \in requests : r.n = n
    /\ \A i \in 1..Known, r \in requests : r.n <= i => r.at <= seen.list[i].started

\* The start of the last attempt was reported.
StartTold ==
    ~Attempts!Missed("started", Made) \/ (Made > 1 /\ ~Attempts!Missed("resumed", Made))

LastTold ==
    /\ truth[Made] = "running" /\ (~Awaited("started") \/ (Made > 1 /\ ~Awaited("resumed"))) => Attempts!Open(seen)
    /\ truth[Made] # "running" /\ StartTold =>
         Attempts!Open(seen) \/ (Known > 0 /\ seen.list[Known].state = truth[Made])

\* An attempt before the last is told right, and where it resumed from.
Right(n) ==
    seen.list[n].state = truth[n] \/ (seen.list[n].state = "unknown" /\ Attempts!Missed(truth[n], n))

Traced(n) == n > 1 /\ ~Attempts!Missed("resumed", n) => seen.list[n].from = n

\* Before the turn is told: the attempt before is closed, or its end was missed and
\* the resume to come will be told from it.
NotYetTold ==
    /\ truth[Made] = "running" /\ (Made > 1 => Awaited("resumed"))
    /\ Attempts!Open(seen) => Attempts!Missed(truth[Made - 1], Made - 1) /\ (seen.by = "resumed" \/ Made = 2)
    /\ Attempts!Open(seen) => seen.list[Known].started + 1 < since
    /\ ~Attempts!Open(seen) => Awaited("started")

\* After it.
TurnTold ==
    /\ truth[Made] = "running" => Attempts!Open(seen)
    /\ truth[Made] # "running" => Attempts!Open(seen) \/ seen.list[Made].state = truth[Made]
    /\ truth[Made] # "running" /\ ~Awaited(truth[Made]) => ~Attempts!Open(seen)
    /\ Made > 1 /\ ~Awaited("resumed") => seen.list[Made].from = Made /\ (Attempts!Open(seen) => seen.by = "resumed")
    /\ Made > 1 /\ Attempts!Open(seen) /\ seen.by = "resumed" => seen.list[Made].from = Made

WellTold ==
    /\ Known \in {Made - 1, Made}
    /\ \A n \in 1..Made - 1 : seen.list[n].ended # Attempts!NotYet => Right(n)
    /\ \A n \in 1..Made - 1 : Traced(n)
    /\ Known = Made - 1 => NotYetTold
    /\ Known = Made => TurnTold

AttemptsInv ==
    /\ AttemptsTyped /\ EndsKnown /\ OpenedWhen /\ NoneInvented /\ RequestsKept /\ LastTold
    /\ Attempts!Reported => WellTold

-----------------------------------------------------------------------------
\* What a report changes in what is kept.

Running(from) == [state |-> "running", started |-> now, ended |-> Attempts!NotYet, from |-> from]

Keeps(n) == \A i \in 1..n : seen'.list[i] = seen.list[i]

Opens(from, by) ==
    /\ ~Attempts!Open(seen) /\ Known' = Known + 1 /\ Keeps(Known)
    /\ seen'.list[Known + 1] = Running(from) /\ seen'.by = by

Names(from) ==
    /\ Attempts!Open(seen) /\ Known' = Known /\ Keeps(Known - 1)
    /\ seen'.list[Known] = [seen.list[Known] EXCEPT !.from = from] /\ seen'.by = "resumed"

Closes(state) ==
    /\ Attempts!Open(seen) /\ Known' = Known /\ Keeps(Known - 1)
    /\ seen'.list[Known] = [seen.list[Known] EXCEPT !.state = state, !.ended = now] /\ seen'.by = seen.by

Replaces(from) ==
    /\ Attempts!Open(seen) /\ Known' = Known + 1 /\ Keeps(Known - 1)
    /\ seen'.list[Known] = [seen.list[Known] EXCEPT !.state = "unknown", !.ended = now]
    /\ seen'.list[Known + 1] = Running(from) /\ seen'.by = "resumed"

OpensClosed(state) ==
    /\ Known = 0 /\ Known' = 1
    /\ seen'.list[1] = [Running(0) EXCEPT !.state = state, !.ended = now] /\ seen'.by = "started"

Recalls == seen.by = "started" /\ Known > 1 /\ seen.list[Known].from = 0
Repeats == seen.by = "resumed" /\ now <= seen.list[Known].started + 1

\* A sequence with one more, and with another last.
LEMMA Appended ==
    ASSUME NEW S, NEW s \in Seq(S), NEW e \in S
    PROVE  /\ Append(s, e) \in Seq(S) /\ Len(Append(s, e)) = Len(s) + 1
           /\ \A i \in 1..Len(s) : Append(s, e)[i] = s[i]
           /\ Append(s, e)[Len(s) + 1] = e
  OBVIOUS

LEMMA Changed ==
    ASSUME NEW S, NEW s \in Seq(S), Len(s) > 0, NEW e \in S
    PROVE  LET t == [s EXCEPT ![Len(s)] = e] IN
           /\ t \in Seq(S) /\ Len(t) = Len(s)
           /\ \A i \in 1..Len(s) - 1 : t[i] = s[i]
           /\ t[Len(s)] = e
  OBVIOUS

LEMMA OpenedIs ==
    ASSUME NEW known \in Kept, NEW when \in Nat, NEW from \in Nat, NEW ev, ev.at = when, ev.from = from,
           NEW by \in {"started", "resumed"}
    PROVE  LET new == Attempts!Opened(known, ev, by) IN
           /\ new \in Kept /\ Len(new.list) = Len(known.list) + 1 /\ new.by = by
           /\ \A i \in 1..Len(known.list) : new.list[i] = known.list[i]
           /\ new.list[Len(known.list) + 1] = [state |-> "running", started |-> when, ended |-> Attempts!NotYet, from |-> from]
  <1> DEFINE e == [state |-> "running", started |-> when, ended |-> Attempts!NotYet, from |-> from]
             s == known.list
  <1>1. e \in Attempt /\ s \in Seq(Attempt)
    BY AttemptsAssumption DEF Attempt, Kept, Attempts!NotYet
  <1> HIDE DEF e, s
  <1>2. Attempts!Opened(known, ev, by) = [list |-> Append(s, e), by |-> by]
    BY DEF Attempts!Opened, e, s
  <1>3. /\ Append(s, e) \in Seq(Attempt) /\ Len(Append(s, e)) = Len(s) + 1
        /\ \A i \in 1..Len(s) : Append(s, e)[i] = s[i]
        /\ Append(s, e)[Len(s) + 1] = e
    BY <1>1, Appended
  <1> DEFINE t == Append(s, e)
  <1> HIDE DEF t
  <1>4. [list |-> t, by |-> by] \in Kept /\ [list |-> t, by |-> by].list = t /\ [list |-> t, by |-> by].by = by
    BY <1>3 DEF Kept, t
  <1> QED BY <1>2, <1>3, <1>4 DEF t, s, e

LEMMA AmendedIs ==
    ASSUME NEW known \in Kept, Len(known.list) > 0, NEW e \in Attempt, NEW by \in {"started", "resumed"}
    PROVE  LET new == Attempts!Amended(known, e, by) IN
           /\ new \in Kept /\ Len(new.list) = Len(known.list) /\ new.by = by
           /\ \A i \in 1..Len(known.list) - 1 : new.list[i] = known.list[i]
           /\ new.list[Len(known.list)] = e
  <1> DEFINE s == known.list
             t == [s EXCEPT ![Len(s)] = e]
  <1>1. s \in Seq(Attempt)
    BY DEF Kept
  <1>2. Attempts!Amended(known, e, by) = [list |-> t, by |-> by]
    BY DEF Attempts!Amended
  <1>3. /\ t \in Seq(Attempt) /\ Len(t) = Len(s) /\ t[Len(s)] = e
        /\ \A i \in 1..Len(s) - 1 : t[i] = s[i]
    <2> HIDE DEF s
    <2> QED BY <1>1, Changed DEF s
  <1> HIDE DEF t
  <1>4. [list |-> t, by |-> by] \in Kept /\ [list |-> t, by |-> by].list = t /\ [list |-> t, by |-> by].by = by
    BY <1>3 DEF Kept
  <1> QED BY <1>2, <1>3, <1>4

LEMMA OpenIs ==
    ASSUME NEW known \in Kept
    PROVE  /\ Len(known.list) \in Nat /\ known.list \in Seq(Attempt)
           /\ Attempts!Open(known) <=> Len(known.list) > 0 /\ known.list[Len(known.list)].ended = Attempts!NotYet
           /\ Len(known.list) > 0 => known.list[Len(known.list)] \in Attempt
  <1>1. known.list \in Seq(Attempt) /\ Len(known.list) \in Nat
    BY DEF Kept
  <1>2. known.list # <<>> <=> Len(known.list) > 0
    BY <1>1
  <1>3. Len(known.list) > 0 => known.list[Len(known.list)] \in Attempt
    BY <1>1
  <1> QED BY <1>1, <1>2, <1>3 DEF Attempts!Open, Attempts!Last

LEMMA StartedDoes ==
    ASSUME AttemptsTyped, NEW ev, ev.at = now, ev.from = 0, seen' = Attempts!OnStarted(seen, ev)
    PROVE  seen' \in Kept /\ (Opens(0, "started") \/ (seen' = seen /\ Attempts!Open(seen)))
  <1>1. seen \in Kept /\ now \in Nat
    BY AttemptsAssumption DEF AttemptsTyped
  <1>2. CASE Attempts!Open(seen)
    BY <1>1, <1>2 DEF Attempts!OnStarted
  <1>3. CASE ~Attempts!Open(seen)
    <2>1. seen' = Attempts!Opened(seen, ev, "started")
      BY <1>3 DEF Attempts!OnStarted
    <2>2. ev.at \in Nat /\ ev.from \in Nat /\ ev.at = now /\ ev.from = 0
      BY <1>1
    <2>3. /\ seen' \in Kept /\ Len(seen'.list) = Len(seen.list) + 1 /\ seen'.by = "started"
          /\ \A i \in 1..Len(seen.list) : seen'.list[i] = seen.list[i]
          /\ seen'.list[Len(seen.list) + 1] = Running(0)
      BY <1>1, <2>1, <2>2, OpenedIs DEF Running
    <2> QED BY <1>3, <2>3 DEF Opens, Known, Keeps
  <1> QED BY <1>2, <1>3

LEMMA ResumedDoes ==
    ASSUME AttemptsTyped, NEW ev, ev.at = now, ev.from \in Nat, seen' = Attempts!OnResumed(seen, ev)
    PROVE  /\ seen' \in Kept
           /\ \/ Opens(ev.from, "resumed")
              \/ Recalls /\ Names(ev.from)
              \/ ~Recalls /\ Attempts!Open(seen) /\ Repeats /\ seen' = seen
              \/ ~Recalls /\ ~Repeats /\ Replaces(ev.from)
  <1> DEFINE open == Attempts!Last(seen.list)
  <1>1. seen \in Kept /\ now \in Nat
    BY AttemptsAssumption DEF AttemptsTyped
  <1>2. Known \in Nat /\ (Attempts!Open(seen) => Known > 0 /\ seen.list[Known] \in Attempt /\ open = seen.list[Known])
    BY <1>1, OpenIs DEF Known, Attempts!Last
  <1>3. CASE ~Attempts!Open(seen)
    <2>1. seen' = Attempts!Opened(seen, ev, "resumed")
      BY <1>3 DEF Attempts!OnResumed
    <2>2. ev.at \in Nat /\ ev.from \in Nat /\ ev.at = now
      BY <1>1
    <2>3. /\ seen' \in Kept /\ Len(seen'.list) = Len(seen.list) + 1 /\ seen'.by = "resumed"
          /\ \A i \in 1..Len(seen.list) : seen'.list[i] = seen.list[i]
          /\ seen'.list[Len(seen.list) + 1] = Running(ev.from)
      BY <1>1, <2>1, <2>2, OpenedIs DEF Running
    <2> QED BY <1>3, <2>3 DEF Opens, Known, Keeps
  <1>4. CASE Attempts!Open(seen) /\ Recalls
    <2> DEFINE e == [open EXCEPT !.from = ev.from]
    <2>1. seen' = Attempts!Amended(seen, e, "resumed")
      BY <1>2, <1>4 DEF Attempts!OnResumed, Recalls, Known, Attempts!None
    <2>2. e \in Attempt
      BY <1>2, <1>4 DEF Attempt
    <2>3. e = [seen.list[Known] EXCEPT !.from = ev.from]
      BY <1>2, <1>4
    <2> HIDE DEF e
    <2>4. /\ seen' \in Kept /\ Known' = Known /\ Keeps(Known - 1) /\ seen'.list[Known] = e /\ seen'.by = "resumed"
      BY <1>1, <1>2, <1>4, <2>1, <2>2, AmendedIs DEF Known, Keeps
    <2> QED BY <1>4, <2>3, <2>4 DEF Names
  <1>5. CASE Attempts!Open(seen) /\ ~Recalls /\ Repeats
    <2>1. seen' = seen
      BY <1>2, <1>5 DEF Attempts!OnResumed, Recalls, Repeats, Known, Attempts!None, Attempts!Same
    <2> QED BY <1>1, <1>5, <2>1
  <1>6. CASE Attempts!Open(seen) /\ ~Recalls /\ ~Repeats
    <2> DEFINE e == [open EXCEPT !.state = "unknown", !.ended = ev.at]
               mid == Attempts!Amended(seen, e, seen.by)
    <2>1. seen' = Attempts!Opened(mid, ev, "resumed")
      BY <1>2, <1>6 DEF Attempts!OnResumed, Recalls, Repeats, Known, Attempts!None, Attempts!Same
    <2>2. e \in Attempt /\ seen.by \in {"started", "resumed"}
      BY <1>1, <1>2, <1>6 DEF Attempt, Kept
    <2>3. e = [seen.list[Known] EXCEPT !.state = "unknown", !.ended = now]
      BY <1>2, <1>6
    <2> HIDE DEF e
    <2>4. /\ mid \in Kept /\ Len(mid.list) = Known /\ mid.list[Known] = e
          /\ \A i \in 1..Known - 1 : mid.list[i] = seen.list[i]
      BY <1>1, <1>2, <1>6, <2>2, AmendedIs DEF Known
    <2> HIDE DEF mid
    <2>5. /\ seen' \in Kept /\ Len(seen'.list) = Known + 1 /\ seen'.by = "resumed"
          /\ \A i \in 1..Known : seen'.list[i] = mid.list[i]
          /\ seen'.list[Known + 1] = Running(ev.from)
      BY <1>1, <2>1, <2>4, OpenedIs DEF Running
    <2>6. Keeps(Known - 1) /\ seen'.list[Known] = e
      BY <1>2, <1>6, <2>4, <2>5 DEF Keeps
    <2> QED BY <1>6, <2>3, <2>5, <2>6 DEF Replaces, Known
  <1> QED BY <1>3, <1>4, <1>5, <1>6

LEMMA OpenedFirst ==
    ASSUME seen \in Kept, now \in Nat, NEW ev, ev.at = now, ev.from = 0,
           NEW begun, begun = Attempts!Opened(seen, ev, "started")
    PROVE  /\ begun \in Kept /\ Len(begun.list) = Len(seen.list) + 1 /\ begun.by = "started"
           /\ begun.list[Len(seen.list) + 1] = Running(0)
  <1>0. ev.at \in Nat /\ ev.from \in Nat
    OBVIOUS
  <1> QED BY <1>0, OpenedIs DEF Running

LEMMA EndDoes ==
    ASSUME AttemptsTyped, NEW ev, ev = [event |-> ev.event, from |-> 0, at |-> now], ev.event \in {"completed", "failed"},
           seen' = Attempts!OnEnd(seen, ev)
    PROVE  /\ seen' \in Kept
           /\ \/ Closes(ev.event)
              \/ OpensClosed(ev.event)
              \/ seen' = seen /\ Known > 0 /\ ~Attempts!Open(seen)
  <1>1. seen \in Kept /\ now \in Nat /\ ev.at = now /\ ev.from = 0
    BY AttemptsAssumption DEF AttemptsTyped
  <1>2. Known \in Nat /\ (Known = 0 <=> seen.list = <<>>)
    BY <1>1 DEF Kept, Known
  <1>3. CASE Known > 0
    <2> DEFINE e == [seen.list[Known] EXCEPT !.state = ev.event, !.ended = now]
    <2>1. seen.list # <<>>
      BY <1>2, <1>3
    <2>2. CASE ~Attempts!Open(seen)
      <3>1. seen' = seen
        BY <2>1, <2>2 DEF Attempts!OnEnd
      <3> QED BY <1>1, <1>3, <2>2, <3>1
    <2>3. CASE Attempts!Open(seen)
      <3>1. seen' = Attempts!Amended(seen, e, seen.by)
        BY <1>1, <2>1, <2>3 DEF Attempts!OnEnd, Known, Attempts!Last
      <3>2. e \in Attempt /\ seen.by \in {"started", "resumed"}
        BY <1>1, <1>3, OpenIs DEF Attempt, Known, Kept
      <3> HIDE DEF e
      <3>3. /\ seen' \in Kept /\ Known' = Known /\ Keeps(Known - 1) /\ seen'.list[Known] = e /\ seen'.by = seen.by
        BY <1>1, <1>3, <3>1, <3>2, AmendedIs DEF Known, Keeps
      <3> QED BY <2>3, <3>3 DEF Closes, e
    <2> QED BY <2>2, <2>3
  <1>4. CASE Known = 0
    <2> DEFINE ev0 == [ev EXCEPT !.from = Attempts!None]
               new == Attempts!Opened(seen, ev0, "started")
               e == [Running(0) EXCEPT !.state = ev.event, !.ended = now]
    <2>1. ev0.at = now /\ ev0.from = 0
      BY DEF Attempts!None
    <2> HIDE DEF ev0
    <2>a. ev0.at \in Nat /\ ev0.from \in Nat /\ Len(seen.list) = 0
      BY <1>1, <1>4, <2>1 DEF Known
    <2>2. new \in Kept /\ Len(new.list) = 1 /\ new.list[1] = Running(0) /\ new.by = "started"
      <3>1. /\ new \in Kept /\ Len(new.list) = Len(seen.list) + 1 /\ new.by = "started"
            /\ new.list[Len(seen.list) + 1] = Running(0)
        BY <1>1, <2>1, OpenedFirst
      <3> HIDE DEF new
      <3> QED BY <2>a, <3>1
    <2>3. Attempts!Open(new) /\ Attempts!Last(new.list) = Running(0)
      <3>1. new.list[Len(new.list)].ended = Attempts!NotYet
        BY <2>2 DEF Running
      <3> HIDE DEF new
      <3> QED BY <2>2, <3>1, OpenIs DEF Attempts!Last
    <2>4. seen' = Attempts!Amended(new, e, "started")
      <3>1. seen' = LET begun == new
                    IN  IF Attempts!Open(begun)
                        THEN Attempts!Amended(begun, [Attempts!Last(begun.list) EXCEPT !.state = ev.event, !.ended = ev.at], begun.by)
                        ELSE begun
        BY <1>2, <1>4 DEF Attempts!OnEnd, ev0
      <3> HIDE DEF new
      <3> QED BY <1>1, <2>2, <2>3, <3>1
    <2>5. e \in Attempt
      BY <1>1, AttemptsAssumption DEF Attempt, Running, Attempts!NotYet
    <2> HIDE DEF new, e
    <2>6. seen' \in Kept /\ Len(seen'.list) = 1 /\ seen'.list[1] = e /\ seen'.by = "started"
      BY <2>2, <2>4, <2>5, AmendedIs
    <2> QED BY <1>4, <2>6 DEF OpensClosed, Known, e
  <1> QED BY <1>2, <1>3, <1>4

\* A record with one or two fields changed.
LEMMA Amends ==
    ASSUME NEW e \in Attempt, NEW f \in Nat, NEW s \in {"running", "unknown", "completed", "failed"}, NEW t \in Nat
    PROVE  /\ [e EXCEPT !.from = f].from = f /\ [e EXCEPT !.from = f].state = e.state
           /\ [e EXCEPT !.from = f].started = e.started /\ [e EXCEPT !.from = f].ended = e.ended
           /\ [e EXCEPT !.state = s, !.ended = t].from = e.from /\ [e EXCEPT !.state = s, !.ended = t].state = s
           /\ [e EXCEPT !.state = s, !.ended = t].started = e.started /\ [e EXCEPT !.state = s, !.ended = t].ended = t
  BY DEF Attempt

LEMMA Fields ==
    ASSUME NEW e \in Attempt
    PROVE  /\ e.state \in {"running", "unknown", "completed", "failed"}
           /\ e.started \in Nat /\ e.ended \in Nat /\ e.from \in Nat
  BY DEF Attempt

\* The numbers and the attempts of a state.
LEMMA Numbers ==
    ASSUME AttemptsTyped
    PROVE  /\ Known \in Nat /\ Made \in Nat \ {0} /\ now \in Nat /\ since \in Nat /\ since <= now
           /\ Attempts!NotYet \in Nat /\ now < Attempts!NotYet
           /\ \A i \in 1..Known : seen.list[i] \in Attempt
           /\ \A n \in 1..Made : truth[n] \in {"running", "completed", "failed"}
           /\ Attempts!Last(truth) = truth[Made]
           /\ Attempts!Open(seen) <=> Known > 0 /\ seen.list[Known].ended = Attempts!NotYet
           /\ seen.by \in {"started", "resumed"}
  <1>1. now \in Nat /\ since \in Nat /\ since <= now /\ now <= MaxTime /\ MaxTime \in Nat
    BY AttemptsAssumption DEF AttemptsTyped
  <1>2. Attempts!NotYet \in Nat /\ now < Attempts!NotYet
    BY <1>1 DEF Attempts!NotYet
  <1>3. seen \in Kept /\ truth \in Seq({"running", "completed", "failed"}) /\ Made >= 1
    BY DEF AttemptsTyped
  <1>4. Made \in Nat \ {0} /\ \A n \in 1..Made : truth[n] \in {"running", "completed", "failed"}
    BY <1>3 DEF Made
  <1>5. Attempts!Last(truth) = truth[Made]
    BY DEF Attempts!Last, Made
  <1>6. seen.list \in Seq(Attempt) /\ seen.by \in {"started", "resumed"}
    BY <1>3 DEF Kept
  <1>7. Known \in Nat /\ \A i \in 1..Known : seen.list[i] \in Attempt
    BY <1>6 DEF Known
  <1>8. Attempts!Open(seen) <=> Known > 0 /\ seen.list[Known].ended = Attempts!NotYet
    BY <1>3, OpenIs DEF Known
  <1> QED BY <1>1, <1>2, <1>4, <1>5, <1>6, <1>7, <1>8

LEMMA NumbersNext ==
    ASSUME seen' \in Kept
    PROVE  /\ Known' \in Nat
           /\ \A i \in 1..Known' : seen'.list[i] \in Attempt
           /\ Attempts!Open(seen)' <=> Known' > 0 /\ seen'.list[Known'].ended = Attempts!NotYet
  <1>1. seen'.list \in Seq(Attempt)
    BY DEF Kept
  <1>2. Known' \in Nat /\ \A i \in 1..Known' : seen'.list[i] \in Attempt
    BY <1>1 DEF Known
  <1>3. Attempts!Open(seen') <=> Known' > 0 /\ seen'.list[Known'].ended = Attempts!NotYet
    BY OpenIs DEF Known
  <1>4. Attempts!Open(seen)' <=> Attempts!Open(seen')
    OBVIOUS
  <1> QED BY <1>2, <1>3, <1>4

\* Every step that lets a report in, and no more.
Unmoved == UNCHANGED <<now, truth, since, requests, lost>> /\ pending' \subseteq pending /\ seen' \in Kept

\* A report of the turn is still awaited.
Still(event) == Awaited(event) => Attempts!Report(event, Made) \in pending' \cup lost'

LEMMA UnmovedIs ==
    ASSUME AttemptsTyped, Unmoved
    PROVE  /\ AttemptsTyped'
           /\ Made' = Made /\ Attempts!Reported' = Attempts!Reported /\ StartTold' = StartTold
           /\ \A event : Awaited(event)' => Awaited(event)
           /\ \A event, n : Attempts!Missed(event, n)' = Attempts!Missed(event, n)
           /\ \A event : Still(event) => (Awaited(event) => Awaited(event)')
  <1>1. UNCHANGED <<now, truth, since, requests, lost>> /\ pending' \subseteq pending /\ seen' \in Kept
    BY DEF Unmoved
  <1>2. Made' = Made /\ Expected' = Expected
    BY <1>1 DEF Made, Expected
  <1>3. AttemptsTyped'
    BY <1>1, <1>2 DEF AttemptsTyped
  <1>4. \A event, n : Attempts!Missed(event, n)' = Attempts!Missed(event, n)
    BY <1>1 DEF Attempts!Missed
  <1>5. Attempts!Reported' = Attempts!Reported
    BY <1>1 DEF Attempts!Reported, Attempts!StartsReported, Attempts!Missed
  <1>6. StartTold' = StartTold
    BY <1>1, <1>2 DEF StartTold, Attempts!Missed
  <1>7. \A event : Awaited(event)' => Awaited(event)
    BY <1>1, <1>2 DEF Awaited
  <1>8. \A event : Still(event) => (Awaited(event) => Awaited(event)')
    BY <1>1, <1>2 DEF Awaited, Still
  <1> QED BY <1>2, <1>3, <1>4, <1>5, <1>6, <1>7, <1>8

\* No attempt is told to start earlier than before, and a new one starts now.
LEMMA RequestsUnmoved ==
    ASSUME AttemptsTyped, RequestsKept, Unmoved,
           \A i \in 1..Known' : \/ i \in 1..Known /\ seen'.list[i].started = seen.list[i].started
                                \/ seen'.list[i].started = now
    PROVE  RequestsKept'
  <1>1. UNCHANGED <<now, since, requests>> /\ Made' = Made
    BY UnmovedIs DEF Unmoved
  <1>2. \A i \in 1..Known', r \in requests' : r.n <= i => r.at <= seen'.list[i].started
    <2> SUFFICES ASSUME NEW i \in 1..Known', NEW r \in requests, r.n <= i PROVE r.at <= seen'.list[i].started
      BY <1>1
    <2>1. CASE i \in 1..Known /\ seen'.list[i].started = seen.list[i].started
      BY <2>1 DEF RequestsKept
    <2>2. CASE seen'.list[i].started = now
      BY <2>2 DEF RequestsKept
    <2> QED BY <2>1, <2>2
  <1>3. /\ requests' \subseteq [n : Nat, at : Nat]
        /\ \A r \in requests' : r.n <= Made' + 1 /\ r.at <= now' /\ (r.n <= Made' => r.at <= since')
        /\ \A r, q \in requests' : r.n < q.n => r.at <= q.at
        /\ \A n \in 2..Made' : \E r \in requests' : r.n = n
    BY <1>1 DEF RequestsKept
  <1> QED BY <1>2, <1>3 DEF RequestsKept

\* What is told of the attempts before the last stands while their entries do.
LEMMA PastStands ==
    ASSUME AttemptsTyped, Unmoved, WellTold, \A i \in 1..Made - 1 : seen'.list[i] = seen.list[i]
    PROVE  /\ \A n \in 1..Made' - 1 : seen'.list[n].ended # Attempts!NotYet => Right(n)'
           /\ \A n \in 1..Made' - 1 : Traced(n)'
  <1>1. Made' = Made /\ truth' = truth /\ \A event, n : Attempts!Missed(event, n)' = Attempts!Missed(event, n)
    BY UnmovedIs DEF Unmoved
  <1>2. \A n \in 1..Made - 1 : seen'.list[n].ended # Attempts!NotYet => Right(n)'
    BY <1>1 DEF WellTold, Right
  <1>3. \A n \in 1..Made - 1 : Traced(n)'
    BY <1>1 DEF WellTold, Traced
  <1> QED BY <1>1, <1>2, <1>3

\* A start that was told opens an attempt.
LEMMA OpeningKeeps ==
    ASSUME AttemptsInv, Unmoved, NEW from \in Nat, NEW by \in {"started", "resumed"}, Opens(from, by),
           truth[Made] = "running",
           by = "started" => from = 0 /\ Still("resumed"),
           by = "resumed" => from = Made
    PROVE  AttemptsInv'
  <1> DEFINE K == Known
             M == Made
  <1>1. /\ K \in Nat /\ M \in Nat \ {0} /\ now \in Nat /\ since \in Nat /\ since <= now
        /\ Attempts!NotYet \in Nat /\ now < Attempts!NotYet
    BY Numbers DEF AttemptsInv
  <1>2. /\ Known' = K + 1 /\ Made' = M /\ truth' = truth /\ now' = now /\ since' = since
        /\ \A i \in 1..K : seen'.list[i] = seen.list[i]
        /\ seen'.by = by /\ ~Attempts!Open(seen)
    BY UnmovedIs DEF AttemptsInv, Unmoved, Opens, Keeps
  <1>3. /\ seen'.list[K + 1].started = now /\ seen'.list[K + 1].state = "running"
        /\ seen'.list[K + 1].ended = Attempts!NotYet /\ seen'.list[K + 1].from = from
    BY DEF Opens, Running
  <1>4. K < M
    BY <1>2 DEF AttemptsInv, NoneInvented
  <1>5. Attempts!Open(seen)'
    BY <1>1, <1>2, <1>3, NumbersNext DEF Unmoved
  <1>6. AttemptsTyped'
    BY UnmovedIs DEF AttemptsInv
  <1>7. EndsKnown'
    <2>1. \A i \in 1..K : seen.list[i].started <= now /\ seen.list[i].ended <= now /\ seen.list[i].state # "running"
      <3> SUFFICES ASSUME NEW i \in 1..K
                   PROVE  seen.list[i].started <= now /\ seen.list[i].ended <= now /\ seen.list[i].state # "running"
        OBVIOUS
      <3>1. seen.list[i].started <= now
        BY DEF AttemptsInv, EndsKnown
      <3>2. ~(seen.list[i].ended = Attempts!NotYet /\ i = K)
        BY <1>1, <1>2, Numbers DEF AttemptsInv
      <3> QED BY <3>1, <3>2 DEF AttemptsInv, EndsKnown
    <2> SUFFICES ASSUME NEW i \in 1..K + 1
                 PROVE  /\ seen'.list[i].started <= now
                        /\ \/ seen'.list[i].ended = Attempts!NotYet /\ seen'.list[i].state = "running" /\ i = K + 1
                           \/ seen'.list[i].ended <= now /\ seen'.list[i].state # "running"
      BY <1>2 DEF EndsKnown
    <2>2. CASE i = K + 1
      BY <1>1, <1>3, <2>2
    <2>3. CASE i \in 1..K
      BY <1>2, <2>1, <2>3
    <2> QED BY <1>1, <2>2, <2>3
  <1>8. OpenedWhen'
    <2>1. seen'.list[Known'].from = from /\ seen'.list[Known'].started = now
      BY <1>2, <1>3
    <2> QED BY <1>1, <1>2, <2>1 DEF OpenedWhen
  <1>9. NoneInvented'
    BY <1>1, <1>2, <1>4, <1>5 DEF NoneInvented
  <1>10. RequestsKept'
    <2>1. ASSUME NEW i \in 1..Known'
          PROVE  (i \in 1..K /\ seen'.list[i].started = seen.list[i].started) \/ seen'.list[i].started = now
      <3>1. i \in 1..K \/ i = K + 1
        BY <1>1, <1>2
      <3> QED BY <1>2, <1>3, <3>1
    <2> QED BY <2>1, RequestsUnmoved DEF AttemptsInv
  <1>11. LastTold'
    BY <1>2, <1>5 DEF LastTold
  <1>12. ASSUME Attempts!Reported' PROVE WellTold'
    <2>1. WellTold
      BY <1>12, UnmovedIs DEF AttemptsInv
    <2>2. K = M - 1 /\ NotYetTold
      BY <1>1, <1>4, <2>1 DEF WellTold
    <2>3. Known' = Made'
      BY <1>1, <1>2, <2>2
    <2>4. /\ \A n \in 1..Made' - 1 : seen'.list[n].ended # Attempts!NotYet => Right(n)'
          /\ \A n \in 1..Made' - 1 : Traced(n)'
      BY <1>2, <2>1, <2>2, PastStands DEF AttemptsInv
    <2>5. TurnTold'
      <3>1. seen'.list[Made'].from = from /\ truth'[Made'] = "running"
        BY <1>2, <1>3, <2>3
      <3>2. by = "started" /\ M > 1 => Awaited("resumed")'
        BY <2>2, UnmovedIs DEF AttemptsInv, NotYetTold
      <3>3. by = "resumed" => from = Made'
        BY <1>2
      <3> QED BY <1>2, <1>5, <3>1, <3>2, <3>3 DEF TurnTold
    <2>6. Known' # Made' - 1
      BY <1>1, <1>2, <2>3
    <2> QED BY <2>3, <2>4, <2>5, <2>6 DEF WellTold
  <1> QED BY <1>6, <1>7, <1>8, <1>9, <1>10, <1>11, <1>12 DEF AttemptsInv

\* A report that tells nothing new: of a start or the resume of an open attempt, or
\* of an end that was told.
LEMMA StayingKeeps ==
    ASSUME AttemptsInv, Unmoved, seen' = seen,
           \/ truth[Made] = "running" /\ Attempts!Open(seen) /\ Still("resumed")
           \/ truth[Made] = "running" /\ Attempts!Open(seen) /\ Repeats
           \/ truth[Made] # "running" /\ ~Attempts!Open(seen) /\ Still("resumed")
    PROVE  AttemptsInv'
  <1>1. /\ Known' = Known /\ Made' = Made /\ truth' = truth /\ now' = now /\ since' = since
        /\ Attempts!Open(seen)' = Attempts!Open(seen)
    BY UnmovedIs DEF AttemptsInv, Unmoved, Known
  <1>2. AttemptsTyped' /\ StartTold' = StartTold
    BY UnmovedIs DEF AttemptsInv
  <1>3. EndsKnown' /\ OpenedWhen' /\ NoneInvented'
    BY <1>1 DEF AttemptsInv, EndsKnown, OpenedWhen, NoneInvented
  <1>4. RequestsKept'
    BY <1>1, RequestsUnmoved DEF AttemptsInv
  <1>5. LastTold'
    BY <1>1, <1>2 DEF AttemptsInv, LastTold
  <1>6. ASSUME Attempts!Reported' PROVE WellTold'
    <2>1. WellTold
      BY <1>6, UnmovedIs DEF AttemptsInv
    <2>2. /\ \A n \in 1..Made' - 1 : seen'.list[n].ended # Attempts!NotYet => Right(n)'
          /\ \A n \in 1..Made' - 1 : Traced(n)'
      BY <2>1, PastStands DEF AttemptsInv
    <2>3. ASSUME Known = Made - 1 PROVE NotYetTold'
      <3>1. NotYetTold
        BY <2>1, <2>3 DEF WellTold
      <3>2. Attempts!Open(seen) /\ seen.list[Known].started + 1 < since
        BY <3>1 DEF NotYetTold
      <3>3. ~Repeats
        <4>1. /\ seen.list[Known].started \in Nat /\ since \in Nat /\ now \in Nat /\ since <= now
          BY <3>2, Numbers, Fields DEF AttemptsInv
        <4> QED BY <3>2, <4>1 DEF Repeats
      <3>4. Still("resumed")
        BY <3>1, <3>2, <3>3
      <3>5. Awaited("resumed") => Awaited("resumed")'
        BY <3>4, UnmovedIs DEF AttemptsInv
      <3>6. truth' = truth /\ \A event, n : Attempts!Missed(event, n)' = Attempts!Missed(event, n)
        BY <1>1, UnmovedIs DEF AttemptsInv
      <3> QED BY <1>1, <3>1, <3>2, <3>5, <3>6 DEF NotYetTold
    <2>4. ASSUME Known = Made PROVE TurnTold'
      <3>1. TurnTold
        BY <2>1, <2>4 DEF WellTold
      <3>2. \/ Awaited("resumed") => Awaited("resumed")'
            \/ truth[Made] = "running" /\ Attempts!Open(seen) /\ Repeats
        BY UnmovedIs DEF AttemptsInv
      <3>3. \A event : Awaited(event)' => Awaited(event)
        BY UnmovedIs DEF AttemptsInv
      <3> QED BY <1>1, <3>1, <3>2, <3>3 DEF TurnTold, Repeats
    <2> QED BY <1>1, <2>1, <2>2, <2>3, <2>4 DEF WellTold
  <1> QED BY <1>2, <1>3, <1>4, <1>5, <1>6 DEF AttemptsInv

\* The resume of an attempt whose start was told first names it.
LEMMA NamingKeeps ==
    ASSUME AttemptsInv, Unmoved, Names(Made), Recalls, truth[Made] = "running"
    PROVE  AttemptsInv'
  <1> DEFINE K == Known
             M == Made
  <1>1. /\ K \in Nat /\ M \in Nat \ {0} /\ now \in Nat /\ since \in Nat /\ since <= now
        /\ Attempts!NotYet \in Nat /\ now < Attempts!NotYet
        /\ K > 1 /\ seen.list[K] \in Attempt /\ seen.list[K].ended = Attempts!NotYet
    BY Numbers DEF AttemptsInv, Recalls, Names
  <1>2. /\ Known' = K /\ Made' = M /\ truth' = truth /\ now' = now /\ since' = since
        /\ \A i \in 1..K - 1 : seen'.list[i] = seen.list[i]
        /\ seen'.by = "resumed" /\ Attempts!Open(seen) /\ seen.by = "started"
    BY UnmovedIs DEF AttemptsInv, Unmoved, Names, Keeps, Recalls
  <1>3. /\ seen'.list[K].started = seen.list[K].started /\ seen'.list[K].state = seen.list[K].state
        /\ seen'.list[K].ended = Attempts!NotYet /\ seen'.list[K].from = M
    <2>1. seen'.list[K] = [seen.list[K] EXCEPT !.from = M]
      BY DEF Names
    <2>2. M \in Nat
      BY <1>1
    <2> HIDE DEF K, M
    <2> QED BY <1>1, <2>1, <2>2, Amends
  <1>4. Attempts!Open(seen)'
    BY <1>1, <1>2, <1>3, NumbersNext DEF Unmoved
  <1>5. AttemptsTyped'
    BY UnmovedIs DEF AttemptsInv
  <1>6. EndsKnown'
    <2> SUFFICES ASSUME NEW i \in 1..K
                 PROVE  /\ seen'.list[i].started <= now
                        /\ \/ seen'.list[i].ended = Attempts!NotYet /\ seen'.list[i].state = "running" /\ i = K
                           \/ seen'.list[i].ended <= now /\ seen'.list[i].state # "running"
      BY <1>2 DEF EndsKnown
    <2>1. /\ seen.list[i].started <= now
          /\ \/ seen.list[i].ended = Attempts!NotYet /\ seen.list[i].state = "running" /\ i = K
             \/ seen.list[i].ended <= now /\ seen.list[i].state # "running"
      BY DEF AttemptsInv, EndsKnown
    <2>2. CASE i = K
      BY <1>1, <1>3, <2>1, <2>2
    <2>3. CASE i \in 1..K - 1
      BY <1>2, <2>1, <2>3
    <2> QED BY <1>1, <2>2, <2>3
  <1>7. OpenedWhen'
    BY <1>2, <1>3 DEF AttemptsInv, OpenedWhen
  <1>8. NoneInvented'
    BY <1>2, <1>4 DEF AttemptsInv, NoneInvented
  <1>9. RequestsKept'
    <2>1. ASSUME NEW i \in 1..Known'
          PROVE  i \in 1..K /\ seen'.list[i].started = seen.list[i].started
      <3>1. i \in 1..K - 1 \/ i = K
        BY <1>1, <1>2
      <3> QED BY <1>1, <1>2, <1>3, <3>1
    <2> QED BY <2>1, RequestsUnmoved DEF AttemptsInv
  <1>10. LastTold'
    BY <1>2, <1>4 DEF LastTold
  <1>11. ASSUME Attempts!Reported' PROVE WellTold'
    <2>1. WellTold
      BY <1>11, UnmovedIs DEF AttemptsInv
    <2>2. K # M - 1
      BY <1>1, <1>2, <2>1 DEF WellTold, NotYetTold
    <2>3. K = M
      BY <2>1, <2>2 DEF WellTold
    <2>4. /\ \A n \in 1..Made' - 1 : seen'.list[n].ended # Attempts!NotYet => Right(n)'
          /\ \A n \in 1..Made' - 1 : Traced(n)'
      BY <1>2, <2>1, <2>3, PastStands DEF AttemptsInv
    <2>5. TurnTold'
      BY <1>2, <1>3, <1>4, <2>3 DEF TurnTold
    <2>6. Known' = Made' /\ Known' # Made' - 1
      BY <1>2, <2>2, <2>3
    <2> QED BY <2>4, <2>5, <2>6 DEF WellTold
  <1> QED BY <1>5, <1>6, <1>7, <1>8, <1>9, <1>10, <1>11 DEF AttemptsInv

\* An end that was told closes the open attempt.
LEMMA ClosingKeeps ==
    ASSUME AttemptsInv, Unmoved, Closes(truth[Made]), truth[Made] # "running", Still("resumed")
    PROVE  AttemptsInv'
  <1> DEFINE K == Known
             M == Made
  <1>1. /\ K \in Nat /\ M \in Nat \ {0} /\ now \in Nat /\ since \in Nat /\ since <= now
        /\ Attempts!NotYet \in Nat /\ now < Attempts!NotYet
        /\ K > 0 /\ seen.list[K] \in Attempt
        /\ truth[M] \in {"running", "completed", "failed"}
    BY Numbers DEF AttemptsInv, Closes
  <1>2. /\ Known' = K /\ Made' = M /\ truth' = truth /\ now' = now /\ since' = since
        /\ \A i \in 1..K - 1 : seen'.list[i] = seen.list[i]
        /\ seen'.by = seen.by /\ Attempts!Open(seen)
    BY UnmovedIs DEF AttemptsInv, Unmoved, Closes, Keeps
  <1>3. /\ seen'.list[K].started = seen.list[K].started /\ seen'.list[K].state = truth[M]
        /\ seen'.list[K].ended = now /\ seen'.list[K].from = seen.list[K].from
    <2>1. seen'.list[K] = [seen.list[K] EXCEPT !.state = truth[M], !.ended = now]
      BY DEF Closes
    <2> HIDE DEF K, M
    <2> QED BY <1>1, <2>1, Amends
  <1>4. ~Attempts!Open(seen)'
    BY <1>1, <1>2, <1>3, NumbersNext DEF Unmoved
  <1>5. AttemptsTyped'
    BY UnmovedIs DEF AttemptsInv
  <1>6. EndsKnown'
    <2> SUFFICES ASSUME NEW i \in 1..K
                 PROVE  seen'.list[i].started <= now /\ seen'.list[i].ended <= now /\ seen'.list[i].state # "running"
      BY <1>2 DEF EndsKnown
    <2>1. /\ seen.list[i].started <= now
          /\ \/ seen.list[i].ended = Attempts!NotYet /\ seen.list[i].state = "running" /\ i = K
             \/ seen.list[i].ended <= now /\ seen.list[i].state # "running"
      BY DEF AttemptsInv, EndsKnown
    <2>2. CASE i = K
      BY <1>1, <1>3, <2>1, <2>2
    <2>3. CASE i \in 1..K - 1
      BY <1>1, <1>2, <2>1, <2>3
    <2> QED BY <1>1, <2>2, <2>3
  <1>7. OpenedWhen'
    BY <1>4 DEF OpenedWhen
  <1>8. NoneInvented'
    BY <1>2 DEF AttemptsInv, NoneInvented
  <1>9. RequestsKept'
    <2>1. ASSUME NEW i \in 1..Known'
          PROVE  i \in 1..K /\ seen'.list[i].started = seen.list[i].started
      <3>1. i \in 1..K - 1 \/ i = K
        BY <1>1, <1>2
      <3> QED BY <1>1, <1>2, <1>3, <3>1
    <2> QED BY <2>1, RequestsUnmoved DEF AttemptsInv
  <1>10. LastTold'
    BY <1>1, <1>2, <1>3 DEF LastTold
  <1>11. ASSUME Attempts!Reported' PROVE WellTold'
    <2>1. WellTold
      BY <1>11, UnmovedIs DEF AttemptsInv
    <2>2. K # M - 1
      BY <2>1 DEF WellTold, NotYetTold
    <2>3. K = M /\ TurnTold
      BY <2>1, <2>2 DEF WellTold
    <2>4. /\ \A n \in 1..Made' - 1 : seen'.list[n].ended # Attempts!NotYet => Right(n)'
          /\ \A n \in 1..Made' - 1 : Traced(n)'
      BY <1>2, <2>1, <2>3, PastStands DEF AttemptsInv
    <2>5. TurnTold'
      <3>1. Awaited("resumed") => Awaited("resumed")'
        BY UnmovedIs DEF AttemptsInv
      <3> QED BY <1>2, <1>3, <1>4, <2>3, <3>1 DEF TurnTold
    <2>6. Known' = Made' /\ Known' # Made' - 1
      BY <1>2, <2>2, <2>3
    <2> QED BY <2>4, <2>5, <2>6 DEF WellTold
  <1> QED BY <1>5, <1>6, <1>7, <1>8, <1>9, <1>10, <1>11 DEF AttemptsInv

\* The end of a run that was never told to start opens and closes its attempt.
LEMMA EndingKeeps ==
    ASSUME AttemptsInv, Unmoved, OpensClosed(truth[Made]), truth[Made] # "running"
    PROVE  AttemptsInv'
  <1> DEFINE M == Made
             s == truth[M]
  <1>1. /\ M \in Nat \ {0} /\ now \in Nat /\ Attempts!NotYet \in Nat /\ now < Attempts!NotYet
        /\ s \in {"running", "completed", "failed"}
    BY Numbers DEF AttemptsInv
  <1>2. /\ Known = 0 /\ Known' = 1 /\ Made' = M /\ truth' = truth /\ now' = now
    BY UnmovedIs DEF AttemptsInv, Unmoved, OpensClosed
  <1>3. seen'.list[1].started = now /\ seen'.list[1].state = s /\ seen'.list[1].ended = now
    <2>1. seen'.list[1] = [Running(0) EXCEPT !.state = s, !.ended = now]
      BY DEF OpensClosed
    <2>2. Running(0) \in Attempt /\ Running(0).started = now
      BY <1>1 DEF Running, Attempt
    <2> HIDE DEF s, M
    <2> QED BY <1>1, <2>1, <2>2, Amends
  <1>4. ~Attempts!Open(seen)'
    BY <1>1, <1>2, <1>3, NumbersNext DEF Unmoved
  <1>5. AttemptsTyped'
    BY UnmovedIs DEF AttemptsInv
  <1>6. \A i \in 1..Known' : i = 1
    BY <1>2
  <1>7. EndsKnown'
    <2>1. now <= now
      BY <1>1
    <2> QED BY <1>2, <1>3, <1>6, <2>1 DEF EndsKnown
  <1>8. OpenedWhen'
    BY <1>4 DEF OpenedWhen
  <1>9. NoneInvented'
    BY <1>1, <1>2 DEF NoneInvented
  <1>10. RequestsKept'
    <2>1. \A i \in 1..Known' : seen'.list[i].started = now
      BY <1>3, <1>6
    <2> QED BY <2>1, RequestsUnmoved DEF AttemptsInv
  <1>11. LastTold'
    BY <1>1, <1>2, <1>3 DEF LastTold
  <1>12. ~Attempts!Reported'
    <2>1. ~WellTold
      BY <1>1, <1>2 DEF WellTold, NotYetTold
    <2> QED BY <2>1, UnmovedIs DEF AttemptsInv
  <1> QED BY <1>5, <1>7, <1>8, <1>9, <1>10, <1>11, <1>12 DEF AttemptsInv

\* A resume told while an attempt is open: the end of that one was lost.
LEMMA ReplacingKeeps ==
    ASSUME AttemptsInv, Unmoved, Replaces(Made), ~Recalls, ~Repeats, truth[Made] = "running", Made > 1, now <= since + 1
    PROVE  AttemptsInv'
  <1> DEFINE K == Known
             M == Made
  <1>1. /\ K \in Nat /\ M \in Nat \ {0} /\ now \in Nat /\ since \in Nat /\ since <= now
        /\ Attempts!NotYet \in Nat /\ now < Attempts!NotYet
        /\ K > 0 /\ seen.list[K] \in Attempt /\ seen.by \in {"started", "resumed"}
    BY Numbers DEF AttemptsInv, Replaces
  <1>2. /\ Known' = K + 1 /\ Made' = M /\ truth' = truth /\ now' = now /\ since' = since
        /\ \A i \in 1..K - 1 : seen'.list[i] = seen.list[i]
        /\ seen'.by = "resumed" /\ Attempts!Open(seen)
    BY UnmovedIs DEF AttemptsInv, Unmoved, Replaces, Keeps
  <1>3. /\ seen'.list[K].started = seen.list[K].started /\ seen'.list[K].state = "unknown"
        /\ seen'.list[K].ended = now /\ seen'.list[K].from = seen.list[K].from
    <2>1. seen'.list[K] = [seen.list[K] EXCEPT !.state = "unknown", !.ended = now]
      BY DEF Replaces
    <2> HIDE DEF K, M
    <2> QED BY <1>1, <2>1, Amends
  <1>4. /\ seen'.list[K + 1].started = now /\ seen'.list[K + 1].state = "running"
        /\ seen'.list[K + 1].ended = Attempts!NotYet /\ seen'.list[K + 1].from = M
    BY DEF Replaces, Running
  <1>5. K < M
    <2>1. K <= M /\ (seen.by = "started" => seen.list[K].from = 0)
      BY <1>2 DEF AttemptsInv, NoneInvented, OpenedWhen
    <2>2. CASE seen.by = "started"
      <3>1. ~(K > 1)
        BY <2>1, <2>2 DEF Recalls
      <3> QED BY <1>1, <3>1
    <2>3. CASE seen.by = "resumed"
      <3>1. ~(now <= seen.list[K].started + 1) /\ seen.list[K].started \in Nat
        BY <1>1, <2>3, Fields DEF Repeats
      <3>2. ~(since <= seen.list[K].started)
        BY <1>1, <3>1
      <3> QED BY <1>2, <3>2 DEF AttemptsInv, OpenedWhen
    <2> QED BY <1>1, <2>2, <2>3
  <1>6. Attempts!Open(seen)'
    BY <1>1, <1>2, <1>4, NumbersNext DEF Unmoved
  <1>7. AttemptsTyped'
    BY UnmovedIs DEF AttemptsInv
  <1>8. EndsKnown'
    <2>1. \A i \in 1..K : /\ seen.list[i].started <= now
                          /\ i < K => seen.list[i].ended <= now /\ seen.list[i].state # "running"
      BY <1>1 DEF AttemptsInv, EndsKnown
    <2> SUFFICES ASSUME NEW i \in 1..K + 1
                 PROVE  /\ seen'.list[i].started <= now
                        /\ \/ seen'.list[i].ended = Attempts!NotYet /\ seen'.list[i].state = "running" /\ i = K + 1
                           \/ seen'.list[i].ended <= now /\ seen'.list[i].state # "running"
      BY <1>2 DEF EndsKnown
    <2>2. CASE i = K + 1
      BY <1>1, <1>4, <2>2
    <2>3. CASE i = K
      BY <1>1, <1>3, <2>1, <2>3
    <2>4. CASE i \in 1..K - 1
      BY <1>1, <1>2, <2>1, <2>4
    <2> QED BY <1>1, <2>2, <2>3, <2>4
  <1>9. OpenedWhen'
    <2>1. seen'.list[Known'].started = now
      BY <1>2, <1>4
    <2> QED BY <1>1, <1>2, <2>1 DEF OpenedWhen
  <1>10. NoneInvented'
    BY <1>1, <1>2, <1>5, <1>6 DEF NoneInvented
  <1>11. RequestsKept'
    <2>1. ASSUME NEW i \in 1..Known'
          PROVE  (i \in 1..K /\ seen'.list[i].started = seen.list[i].started) \/ seen'.list[i].started = now
      <3>1. i \in 1..K - 1 \/ i = K \/ i = K + 1
        BY <1>1, <1>2
      <3> QED BY <1>1, <1>2, <1>3, <1>4, <3>1
    <2> QED BY <2>1, RequestsUnmoved DEF AttemptsInv
  <1>12. LastTold'
    BY <1>2, <1>6 DEF LastTold
  <1>13. ASSUME Attempts!Reported' PROVE WellTold'
    <2>1. WellTold
      BY <1>13, UnmovedIs DEF AttemptsInv
    <2>2. K = M - 1 /\ NotYetTold
      BY <1>1, <1>5, <2>1 DEF WellTold
    <2>3. Known' = Made'
      BY <1>1, <1>2, <2>2
    <2>4. /\ Attempts!Missed(truth[K], K) /\ K \in 1..M - 1
          /\ \A event, n : Attempts!Missed(event, n)' = Attempts!Missed(event, n)
      BY <1>1, <1>2, <2>2, UnmovedIs DEF NotYetTold, AttemptsInv
    <2>5. ASSUME NEW n \in 1..M - 1 PROVE (seen'.list[n].ended # Attempts!NotYet => Right(n)') /\ Traced(n)'
      <3>1. CASE n = K
        <4>1. Right(n)'
          BY <1>2, <1>3, <2>4, <3>1 DEF Right
        <4>2. Traced(n)'
          BY <1>3, <2>1, <2>4, <3>1 DEF Traced, WellTold
        <4> QED BY <4>1, <4>2
      <3>2. CASE n \in 1..K - 1
        <4>1. seen'.list[n] = seen.list[n]
          BY <1>2, <3>2
        <4> QED BY <1>2, <2>1, <2>4, <4>1 DEF WellTold, Right, Traced
      <3> QED BY <1>1, <2>2, <3>1, <3>2
    <2>6. TurnTold'
      BY <1>2, <1>4, <1>6, <2>2, <2>3 DEF TurnTold
    <2>7. Known' # Made' - 1
      BY <1>1, <1>2, <2>3
    <2> QED BY <1>2, <2>3, <2>5, <2>6, <2>7 DEF WellTold
  <1> QED BY <1>7, <1>8, <1>9, <1>10, <1>11, <1>12, <1>13 DEF AttemptsInv

-----------------------------------------------------------------------------
\* One lemma for each action.

LEMMA AttemptsStart == ASSUME Attempts!Init PROVE AttemptsInv
  <1>1. /\ now = 0 /\ truth = <<"running">> /\ since = 0 /\ pending = {Attempts!Report("started", 1)}
        /\ seen = [list |-> <<>>, by |-> "started"] /\ requests = {} /\ lost = {}
    BY DEF Attempts!Init
  <1>2. Made = 1 /\ truth[1] = "running" /\ truth \in Seq({"running", "completed", "failed"})
    BY <1>1 DEF Made
  <1>3. seen.list = <<>> /\ seen.by = "started" /\ Known = 0 /\ seen \in Kept
    BY <1>1 DEF Known, Kept
  <1>4. ~Attempts!Open(seen)
    BY <1>3 DEF Attempts!Open
  <1>5. Awaited("started")
    BY <1>1, <1>2 DEF Awaited
  <1>6. AttemptsTyped
    BY <1>1, <1>2, <1>3, AttemptsAssumption DEF AttemptsTyped, Expected
  <1>7. EndsKnown /\ OpenedWhen /\ NoneInvented
    BY <1>2, <1>3, <1>4 DEF EndsKnown, OpenedWhen, NoneInvented
  <1>8. RequestsKept
    BY <1>1, <1>2 DEF RequestsKept
  <1>9. LastTold
    BY <1>2, <1>5 DEF LastTold
  <1>10. WellTold
    BY <1>2, <1>3, <1>4, <1>5 DEF WellTold, NotYetTold
  <1> QED BY <1>6, <1>7, <1>8, <1>9, <1>10 DEF AttemptsInv

LEMMA LandKeeps == ASSUME AttemptsInv, Attempts!Land PROVE AttemptsInv'
  <1> DEFINE ev(e) == [event |-> e.event, from |-> IF e.event = "resumed" THEN e.n ELSE Attempts!None, at |-> now]
  <1>1. PICK e \in pending : seen' = Attempts!Told(seen, ev(e)) /\ pending' \in {pending, pending \ {e}}
    BY DEF Attempts!Land
  <1>2. UNCHANGED <<now, truth, since, requests, lost>> /\ pending' \subseteq pending
    BY <1>1 DEF Attempts!Land
  <1>3. AttemptsTyped
    BY DEF AttemptsInv
  <1>4. /\ ev(e).event = e.event /\ ev(e).at = now
        /\ ev(e).from = IF e.event = "resumed" THEN e.n ELSE 0
    BY DEF Attempts!None
  <1>5. Made \in Nat \ {0} /\ truth[Made] \in {"running", "completed", "failed"} /\ now <= since + 1
    BY <1>3, Numbers DEF AttemptsTyped
  <1>6. ASSUME NEW event, event # e.event PROVE Still(event)
    <2>1. Attempts!Report(event, Made) # e
      BY <1>6 DEF Attempts!Report
    <2> QED BY <1>1, <1>2, <2>1 DEF Still, Awaited
  <1>7. CASE truth[Made] # "running"
    <2>1. e.event = truth[Made] /\ e.event \in {"completed", "failed"}
      BY <1>3, <1>5, <1>7 DEF AttemptsTyped, Expected, Attempts!Report
    <2>2. seen' = Attempts!OnEnd(seen, ev(e))
      BY <1>1, <1>4, <2>1 DEF Attempts!Told
    <2>3. ev(e) = [event |-> ev(e).event, from |-> 0, at |-> now]
      BY <2>1 DEF Attempts!None
    <2> HIDE DEF ev
    <2>4. /\ seen' \in Kept
          /\ \/ Closes(truth[Made])
             \/ OpensClosed(truth[Made])
             \/ seen' = seen /\ Known > 0 /\ ~Attempts!Open(seen)
      BY <1>3, <1>4, <2>1, <2>2, <2>3, EndDoes
    <2>5. Unmoved /\ Still("resumed")
      BY <1>2, <1>6, <2>1, <2>4 DEF Unmoved
    <2> QED BY <1>7, <2>4, <2>5, ClosingKeeps, EndingKeeps, StayingKeeps
  <1>8. CASE truth[Made] = "running" /\ e.event = "started"
    <2>1. seen' = Attempts!OnStarted(seen, ev(e))
      BY <1>1, <1>4, <1>8 DEF Attempts!Told
    <2>2. ev(e).at = now /\ ev(e).from = 0
      BY <1>4, <1>8
    <2> HIDE DEF ev
    <2>3. seen' \in Kept /\ (Opens(0, "started") \/ (seen' = seen /\ Attempts!Open(seen)))
      BY <1>3, <2>1, <2>2, StartedDoes
    <2>4. Unmoved /\ Still("resumed")
      BY <1>2, <1>6, <1>8, <2>3 DEF Unmoved
    <2> QED BY <1>8, <2>3, <2>4, OpeningKeeps, StayingKeeps
  <1>9. CASE truth[Made] = "running" /\ e.event # "started"
    <2>1. e.event = "resumed" /\ e.n = Made /\ Made > 1
      BY <1>3, <1>9 DEF AttemptsTyped, Expected, Attempts!Report
    <2>2. seen' = Attempts!OnResumed(seen, ev(e))
      BY <1>1, <1>4, <2>1 DEF Attempts!Told
    <2>3. ev(e).at = now /\ ev(e).from = Made /\ ev(e).from \in Nat
      BY <1>4, <1>5, <2>1
    <2> HIDE DEF ev
    <2>4. /\ seen' \in Kept
          /\ \/ Opens(Made, "resumed")
             \/ Recalls /\ Names(Made)
             \/ ~Recalls /\ Attempts!Open(seen) /\ Repeats /\ seen' = seen
             \/ ~Recalls /\ ~Repeats /\ Replaces(Made)
      BY <1>3, <2>2, <2>3, ResumedDoes
    <2>5. Unmoved /\ Made \in Nat
      BY <1>2, <1>5, <2>4 DEF Unmoved
    <2>6. CASE Opens(Made, "resumed")
      BY <1>9, <2>5, <2>6, OpeningKeeps
    <2>7. CASE Recalls /\ Names(Made)
      BY <1>9, <2>5, <2>7, NamingKeeps
    <2>8. CASE ~Recalls /\ Attempts!Open(seen) /\ Repeats /\ seen' = seen
      BY <1>9, <2>5, <2>8, StayingKeeps
    <2>9. CASE ~Recalls /\ ~Repeats /\ Replaces(Made)
      BY <1>5, <1>9, <2>1, <2>5, <2>9, ReplacingKeeps
    <2> QED BY <2>4, <2>6, <2>7, <2>8, <2>9
  <1> QED BY <1>7, <1>8, <1>9

LEMMA ReregisterKeeps == ASSUME AttemptsInv, Attempts!Reregister PROVE AttemptsInv'
  <1> DEFINE ev == [event |-> "started", from |-> Attempts!None, at |-> now]
  <1>1. /\ seen' = Attempts!OnStarted(seen, ev) /\ Attempts!Last(truth) = "running"
        /\ UNCHANGED <<now, truth, pending, since, requests, lost>>
    BY DEF Attempts!Reregister
  <1>2. ev.at = now /\ ev.from = 0
    BY DEF Attempts!None
  <1>3. AttemptsTyped
    BY DEF AttemptsInv
  <1> HIDE DEF ev
  <1>4. seen' \in Kept /\ (Opens(0, "started") \/ (seen' = seen /\ Attempts!Open(seen)))
    BY <1>1, <1>2, <1>3, StartedDoes
  <1>5. truth[Made] = "running"
    BY <1>1, <1>3, Numbers
  <1>6. Unmoved /\ Still("resumed")
    BY <1>1, <1>4 DEF Unmoved, Still, Awaited
  <1> QED BY <1>4, <1>5, <1>6, OpeningKeeps, StayingKeeps

\* Steps of the run: nothing is told, so the entries stay.
LEMMA EntriesStay ==
    ASSUME UNCHANGED seen
    PROVE  Known' = Known /\ Attempts!Open(seen)' = Attempts!Open(seen)
  BY DEF Known

LEMMA TickKeeps == ASSUME AttemptsInv, Attempts!Tick PROVE AttemptsInv'
  <1>1. /\ UNCHANGED <<truth, pending, since, seen, requests, lost>>
        /\ now' = now + 1 /\ now < MaxTime /\ (pending = {} \/ now < since + 1)
    BY DEF Attempts!Tick, Attempts!Same
  <1>2. /\ now \in Nat /\ since \in Nat /\ since <= now /\ Known \in Nat
        /\ \A i \in 1..Known : seen.list[i].started \in Nat /\ seen.list[i].ended \in Nat
    BY Numbers, Fields DEF AttemptsInv
  <1>3. /\ Known' = Known /\ Made' = Made /\ Attempts!Open(seen)' = Attempts!Open(seen) /\ Expected' = Expected
        /\ StartTold' = StartTold /\ Attempts!Reported' = Attempts!Reported
        /\ \A event, n : Attempts!Missed(event, n)' = Attempts!Missed(event, n)
        /\ \A event : Awaited(event)' = Awaited(event)
    <2>1. Made' = Made
      BY <1>1 DEF Made
    <2>2. \A event, n : Attempts!Missed(event, n)' = Attempts!Missed(event, n)
      BY <1>1 DEF Attempts!Missed
    <2>3. \A event : Awaited(event)' = Awaited(event)
      BY <1>1, <2>1 DEF Awaited
    <2>4. Attempts!Reported' = Attempts!Reported
      BY <1>1 DEF Attempts!Reported, Attempts!StartsReported, Attempts!Missed
    <2>5. StartTold' = StartTold
      BY <1>1, <2>1 DEF StartTold, Attempts!Missed
    <2>6. Expected' = Expected
      BY <1>1, <2>1 DEF Expected
    <2> QED BY <1>1, <2>1, <2>2, <2>3, <2>4, <2>5, <2>6, EntriesStay
  <1>4. AttemptsTyped'
    <2>1. now' \in 0..MaxTime /\ since' \in 0..now'
      BY <1>1, <1>2, AttemptsAssumption
    <2>2. pending' # {} => now' <= since' + 1
      BY <1>1, <1>2
    <2> QED BY <1>1, <1>3, <2>1, <2>2 DEF AttemptsInv, AttemptsTyped
  <1>5. EndsKnown'
    <2> SUFFICES ASSUME NEW i \in 1..Known
                 PROVE  /\ seen.list[i].started <= now + 1
                        /\ \/ seen.list[i].ended = Attempts!NotYet /\ seen.list[i].state = "running" /\ i = Known
                           \/ seen.list[i].ended <= now + 1 /\ seen.list[i].state # "running"
      BY <1>1, <1>3 DEF EndsKnown
    <2>1. /\ seen.list[i].started <= now
          /\ \/ seen.list[i].ended = Attempts!NotYet /\ seen.list[i].state = "running" /\ i = Known
             \/ seen.list[i].ended <= now /\ seen.list[i].state # "running"
      BY DEF AttemptsInv, EndsKnown
    <2>2. seen.list[i].started \in Nat /\ seen.list[i].ended \in Nat
      BY <1>2
    <2> QED BY <1>2, <2>1, <2>2
  <1>6. OpenedWhen' /\ NoneInvented'
    BY <1>1, <1>3 DEF AttemptsInv, OpenedWhen, NoneInvented
  <1>7. RequestsKept'
    <2>1. \A r \in requests : r.at <= now + 1
      <3> TAKE r \in requests
      <3>1. r.at \in Nat /\ r.at <= now
        BY DEF AttemptsInv, RequestsKept
      <3> QED BY <1>2, <3>1
    <2> QED BY <1>1, <1>3, <2>1 DEF AttemptsInv, RequestsKept
  <1>8. LastTold'
    BY <1>1, <1>3 DEF AttemptsInv, LastTold
  <1>9. ASSUME Attempts!Reported' PROVE WellTold'
    <2>1. WellTold
      BY <1>3, <1>9 DEF AttemptsInv
    <2> QED BY <1>1, <1>3, <2>1 DEF WellTold, Right, Traced, NotYetTold, TurnTold
  <1> QED BY <1>4, <1>5, <1>6, <1>7, <1>8, <1>9 DEF AttemptsInv

LEMMA LoseKeeps == ASSUME AttemptsInv, Attempts!Lose PROVE AttemptsInv'
  <1>1. /\ UNCHANGED <<now, truth, since, seen, requests>>
        /\ pending' \subseteq pending /\ lost \subseteq lost' /\ pending' \cup lost' = pending \cup lost
    BY DEF Attempts!Lose
  <1>2. Known' = Known /\ Made' = Made /\ Attempts!Open(seen)' = Attempts!Open(seen) /\ Expected' = Expected
    <2>1. Made' = Made
      BY <1>1 DEF Made
    <2> QED BY <1>1, <2>1, EntriesStay DEF Expected
  <1>3. \A event, n : Attempts!Missed(event, n) => Attempts!Missed(event, n)'
    BY <1>1 DEF Attempts!Missed
  <1>4. \A event : Awaited(event)' = Awaited(event)
    BY <1>1, <1>2 DEF Awaited
  <1>5. StartTold' => StartTold
    BY <1>2, <1>3 DEF StartTold
  <1>6. Attempts!Reported' => Attempts!Reported
    BY <1>1 DEF Attempts!Reported, Attempts!StartsReported, Attempts!Missed
  <1>7. AttemptsTyped'
    BY <1>1, <1>2 DEF AttemptsInv, AttemptsTyped
  <1>8. EndsKnown' /\ OpenedWhen' /\ NoneInvented' /\ RequestsKept'
    BY <1>1, <1>2 DEF AttemptsInv, EndsKnown, OpenedWhen, NoneInvented, RequestsKept
  <1>9. LastTold'
    BY <1>1, <1>2, <1>4, <1>5 DEF AttemptsInv, LastTold
  <1>10. ASSUME Attempts!Reported' PROVE WellTold'
    <2>1. WellTold
      BY <1>6, <1>10 DEF AttemptsInv
    <2>2. /\ \A n \in 1..Made' - 1 : seen'.list[n].ended # Attempts!NotYet => Right(n)'
          /\ \A n \in 1..Made' - 1 : Traced(n)'
      BY <1>1, <1>2, <1>3, <2>1 DEF WellTold, Right, Traced
    <2>3. NotYetTold => NotYetTold'
      BY <1>1, <1>2, <1>3, <1>4 DEF NotYetTold
    <2>4. TurnTold => TurnTold'
      BY <1>1, <1>2, <1>4 DEF TurnTold
    <2> QED BY <1>2, <2>1, <2>2, <2>3, <2>4 DEF WellTold
  <1> QED BY <1>7, <1>8, <1>9, <1>10 DEF AttemptsInv

LEMMA AskKeeps == ASSUME AttemptsInv, Attempts!Ask PROVE AttemptsInv'
  <1> DEFINE M == Made
             asked == [n |-> M + 1, at |-> now]
  <1>1. /\ UNCHANGED <<now, truth, pending, since, seen, lost>>
        /\ requests' = requests \cup {asked}
    BY DEF Attempts!Ask, Made
  <1>2. M \in Nat \ {0} /\ now \in Nat /\ Known \in Nat /\ Known <= M
    BY Numbers DEF AttemptsInv, NoneInvented
  <1>3. Known' = Known /\ Made' = M /\ Attempts!Open(seen)' = Attempts!Open(seen) /\ Expected' = Expected
    <2>1. Made' = Made
      BY <1>1 DEF Made
    <2> QED BY <1>1, <2>1, EntriesStay DEF Expected
  <1>4. asked.n = M + 1 /\ asked.at = now /\ asked \in [n : Nat, at : Nat]
    BY <1>2
  <1> HIDE DEF asked, M
  <1>5. \A r \in requests : /\ r \in [n : Nat, at : Nat] /\ r.n \in Nat /\ r.at \in Nat
                            /\ r.n <= M + 1 /\ r.at <= now /\ (r.n <= M => r.at <= since)
    BY DEF AttemptsInv, RequestsKept, M
  <1>6. RequestsKept'
    <2>1. requests' \subseteq [n : Nat, at : Nat]
      BY <1>1, <1>4, <1>5
    <2>2. \A r \in requests' : r.n <= M + 1 /\ r.at <= now /\ (r.n <= M => r.at <= since)
      <3> TAKE r \in requests'
      <3>1. CASE r = asked
        BY <1>2, <1>4, <3>1
      <3>2. CASE r \in requests
        BY <1>5, <3>2
      <3> QED BY <1>1, <3>1, <3>2
    <2>3. \A r, q \in requests' : r.n < q.n => r.at <= q.at
      <3> SUFFICES ASSUME NEW r \in requests', NEW q \in requests', r.n < q.n PROVE r.at <= q.at
        OBVIOUS
      <3>1. CASE q = asked
        BY <1>4, <2>2, <3>1
      <3>2. CASE q \in requests
        <4>1. q.n \in Nat /\ q.n <= M + 1
          BY <1>5, <3>2
        <4>2. r # asked
          BY <1>2, <1>4, <4>1
        <4>3. r \in requests
          BY <1>1, <4>2
        <4> QED BY <3>2, <4>3 DEF AttemptsInv, RequestsKept
      <3> QED BY <1>1, <3>1, <3>2
    <2>4. \A n \in 2..M : \E r \in requests' : r.n = n
      <3> TAKE n \in 2..M
      <3>1. PICK r \in requests : r.n = n
        BY DEF AttemptsInv, RequestsKept, M
      <3> QED BY <1>1, <3>1
    <2>5. \A i \in 1..Known, r \in requests' : r.n <= i => r.at <= seen.list[i].started
      <3> SUFFICES ASSUME NEW i \in 1..Known, NEW r \in requests', r.n <= i PROVE r.at <= seen.list[i].started
        OBVIOUS
      <3>1. r # asked
        BY <1>2, <1>4
      <3>2. r \in requests
        BY <1>1, <3>1
      <3> QED BY <3>2 DEF AttemptsInv, RequestsKept
    <2> QED BY <1>1, <1>3, <2>1, <2>2, <2>3, <2>4, <2>5 DEF RequestsKept
  <1>7. AttemptsTyped' /\ EndsKnown' /\ OpenedWhen' /\ NoneInvented'
    BY <1>1, <1>3 DEF AttemptsInv, AttemptsTyped, EndsKnown, OpenedWhen, NoneInvented, M
  <1>8. /\ StartTold' = StartTold /\ Attempts!Reported' = Attempts!Reported
        /\ \A event, n : Attempts!Missed(event, n)' = Attempts!Missed(event, n)
        /\ \A event : Awaited(event)' = Awaited(event)
    <2>1. \A event, n : Attempts!Missed(event, n)' = Attempts!Missed(event, n)
      BY <1>1 DEF Attempts!Missed
    <2>2. \A event : Awaited(event)' = Awaited(event)
      BY <1>1, <1>3 DEF Awaited, M
    <2>3. Attempts!Reported' = Attempts!Reported
      BY <1>1 DEF Attempts!Reported, Attempts!StartsReported, Attempts!Missed
    <2>4. StartTold' = StartTold
      BY <1>1, <1>3 DEF StartTold, Attempts!Missed, M
    <2> QED BY <2>1, <2>2, <2>3, <2>4
  <1>9. LastTold'
    BY <1>1, <1>3, <1>8 DEF AttemptsInv, LastTold, M
  <1>10. ASSUME Attempts!Reported' PROVE WellTold'
    <2>1. WellTold
      BY <1>8, <1>10 DEF AttemptsInv
    <2> QED BY <1>1, <1>3, <1>8, <2>1 DEF WellTold, Right, Traced, NotYetTold, TurnTold, M
  <1> QED BY <1>6, <1>7, <1>9, <1>10 DEF AttemptsInv

\* Once the reports of a turn landed, the last attempt is told if its start was
\* reported, and all are if enough was.
LEMMA LandedIs ==
    ASSUME AttemptsInv, pending = {}
    PROVE  /\ \A event : Awaited(event) <=> Attempts!Missed(event, Made)
           /\ Attempts!StartsReported => StartTold
           /\ StartTold /\ truth[Made] = "running" => Attempts!Open(seen)
           /\ Attempts!Reported => WellTold /\ Known = Made /\ TurnTold
  <1>1. Made \in Nat \ {0} /\ Known \in Nat /\ (Attempts!Open(seen) => Known > 0)
    BY Numbers DEF AttemptsInv
  <1>2. \A event : Awaited(event) <=> Attempts!Missed(event, Made)
    BY DEF Awaited, Attempts!Missed
  <1>3. Attempts!StartsReported => StartTold
    <2>1. CASE Made = 1
      BY <2>1 DEF Attempts!StartsReported, StartTold
    <2>2. CASE Made # 1
      <3>1. Made \in 2..Made /\ Made > 1
        BY <1>1, <2>2
      <3> QED BY <3>1 DEF Attempts!StartsReported, StartTold, Made
    <2> QED BY <2>1, <2>2
  <1>4. StartTold /\ truth[Made] = "running" => Attempts!Open(seen)
    BY <1>2 DEF AttemptsInv, LastTold, StartTold
  <1>5. ASSUME Attempts!Reported PROVE WellTold /\ Known = Made /\ TurnTold
    <2>1. WellTold
      BY <1>5 DEF AttemptsInv
    <2>2. SUFFICES Known # Made - 1
      BY <2>1 DEF WellTold
    <2>3. SUFFICES ASSUME Known = Made - 1 PROVE FALSE
      OBVIOUS
    <2>4. NotYetTold /\ truth[Made] = "running"
      BY <2>1, <2>3 DEF WellTold, NotYetTold
    <2>5. Attempts!Open(seen)
      BY <1>3, <1>4, <1>5, <2>4 DEF Attempts!Reported
    <2>6. Made - 1 \in 1..Made /\ Made - 1 \in 1..Made - 1 /\ Made \in 1..Made /\ Made > 1
      BY <1>1, <2>3, <2>5
    <2>7. Attempts!Missed(truth[Made - 1], Made - 1) /\ Attempts!Missed("resumed", Made)
      BY <1>2, <2>4, <2>5, <2>6 DEF NotYetTold
    <2>8. truth[Made - 1] \in {"completed", "failed"}
      BY <2>6, Numbers DEF AttemptsInv, AttemptsTyped
    <2>9. DOMAIN truth = 1..Made
      BY DEF AttemptsInv, AttemptsTyped, Made
    <2> QED BY <1>5, <2>6, <2>7, <2>8, <2>9 DEF Attempts!Reported, Attempts!Ends
  <1> QED BY <1>2, <1>3, <1>4, <1>5

LEMMA EndKeeps == ASSUME AttemptsInv, NEW state \in {"completed", "failed"}, Attempts!End(state) PROVE AttemptsInv'
  <1> DEFINE M == Made
  <1>1. /\ UNCHANGED <<now, seen, lost, requests>> /\ pending = {} /\ since' = now
        /\ truth' = [truth EXCEPT ![M] = state] /\ pending' = {Attempts!Report(state, M)}
        /\ Attempts!Last(truth) = "running"
    BY DEF Attempts!End, Attempts!Turn, Made
  <1>2. /\ M \in Nat \ {0} /\ now \in Nat /\ truth[M] = "running"
        /\ truth \in Seq({"running", "completed", "failed"})
    BY <1>1, Numbers DEF AttemptsInv, AttemptsTyped
  <1>3. /\ truth' \in Seq({"running", "completed", "failed"}) /\ Made' = M
        /\ truth'[M] = state /\ \A n \in 1..M - 1 : truth'[n] = truth[n]
        /\ DOMAIN truth' = DOMAIN truth
    <2>1. M = Len(truth) /\ M > 0
      BY <1>2 DEF Made
    <2> HIDE DEF M
    <2> QED BY <1>1, <1>2, <2>1 DEF Made
  <1> HIDE DEF M
  <1>4. Known' = Known /\ Attempts!Open(seen)' = Attempts!Open(seen)
    BY <1>1, EntriesStay
  <1>5. \A event, n : Attempts!Missed(event, n)' = Attempts!Missed(event, n)
    BY <1>1 DEF Attempts!Missed
  <1>6. Attempts!Reported' = Attempts!Reported
    BY <1>1, <1>3 DEF Attempts!Reported, Attempts!StartsReported, Attempts!Missed, M, Made
  <1>7. StartTold' = StartTold
    BY <1>1, <1>3 DEF StartTold, Attempts!Missed, M
  <1>8. AttemptsTyped'
    <2>1. Expected' = {Attempts!Report(state, M)}
      BY <1>3 DEF Expected
    <2>2. \A n \in 1..M - 1 : truth'[n] # "running"
      BY <1>3 DEF AttemptsInv, AttemptsTyped, M
    <2>3. now' \in 0..MaxTime /\ since' \in 0..now' /\ now' <= since' + 1
      BY <1>1, <1>2 DEF AttemptsInv, AttemptsTyped
    <2>4. seen' \in Kept /\ Made' >= 1
      BY <1>1, <1>2, <1>3 DEF AttemptsInv, AttemptsTyped
    <2> QED BY <1>1, <1>3, <2>1, <2>2, <2>3, <2>4 DEF AttemptsTyped
  <1>9. EndsKnown'
    BY <1>1, <1>4 DEF AttemptsInv, EndsKnown
  <1>10. OpenedWhen'
    <2>1. ASSUME Attempts!Open(seen) PROVE seen.list[Known].started <= now
      <3>1. Known \in 1..Known
        BY <2>1, Numbers DEF AttemptsInv
      <3> QED BY <3>1 DEF AttemptsInv, EndsKnown
    <2>2. truth'[Made'] # "running"
      BY <1>3
    <2> QED BY <1>1, <1>4, <2>1, <2>2 DEF AttemptsInv, OpenedWhen
  <1>11. NoneInvented'
    BY <1>3, <1>4 DEF AttemptsInv, NoneInvented, M
  <1>12. RequestsKept'
    BY <1>1, <1>3, <1>4 DEF AttemptsInv, RequestsKept, M
  <1>13. LastTold'
    BY <1>1, <1>2, <1>3, <1>4, <1>7, LandedIs DEF LastTold, M
  <1>14. ASSUME Attempts!Reported' PROVE WellTold'
    <2>1. WellTold /\ Known = M /\ TurnTold /\ \A event : Awaited(event) <=> Attempts!Missed(event, M)
      BY <1>1, <1>6, <1>14, LandedIs DEF M
    <2>2. /\ \A n \in 1..Made' - 1 : seen'.list[n].ended # Attempts!NotYet => Right(n)'
          /\ \A n \in 1..Made' - 1 : Traced(n)'
      BY <1>1, <1>3, <1>5, <2>1 DEF WellTold, Right, Traced, M
    <2>3. Awaited(state)' /\ (Awaited("resumed") => Awaited("resumed")')
      BY <1>1, <1>3 DEF Awaited, M
    <2>4. TurnTold'
      BY <1>1, <1>2, <1>3, <1>4, <2>1, <2>3 DEF TurnTold, M
    <2>5. Known' = Made' /\ Known' # Made' - 1
      BY <1>2, <1>3, <1>4, <2>1
    <2> QED BY <2>2, <2>4, <2>5 DEF WellTold
  <1> QED BY <1>8, <1>9, <1>10, <1>11, <1>12, <1>13, <1>14 DEF AttemptsInv

LEMMA ResumeKeeps == ASSUME AttemptsInv, Attempts!Resume PROVE AttemptsInv'
  <1> DEFINE M == Made
  <1>1. /\ UNCHANGED <<now, seen, lost, requests>> /\ pending = {} /\ since' = now /\ now > since + 1
        /\ truth' = Append(truth, "running")
        /\ pending' = {Attempts!Report("started", M + 1), Attempts!Report("resumed", M + 1)}
        /\ Attempts!Last(truth) = "failed" /\ \E r \in requests : r.n = M + 1
    BY DEF Attempts!Resume, Attempts!Turn, Attempts!Same, Made
  <1>2. /\ M \in Nat \ {0} /\ now \in Nat /\ since \in Nat /\ truth[M] = "failed"
        /\ truth \in Seq({"running", "completed", "failed"}) /\ Known \in Nat /\ Known <= M
        /\ DOMAIN truth = 1..M
    BY <1>1, Numbers DEF AttemptsInv, AttemptsTyped, NoneInvented, Made
  <1>3. /\ truth' \in Seq({"running", "completed", "failed"}) /\ Made' = M + 1
        /\ truth'[M + 1] = "running" /\ \A n \in 1..M : truth'[n] = truth[n]
        /\ DOMAIN truth' = 1..M + 1
    <2>1. M = Len(truth)
      BY DEF Made
    <2> HIDE DEF M
    <2>2. "running" \in {"running", "completed", "failed"}
      OBVIOUS
    <2>3. /\ Append(truth, "running") \in Seq({"running", "completed", "failed"})
          /\ Len(Append(truth, "running")) = M + 1
          /\ \A i \in 1..M : Append(truth, "running")[i] = truth[i]
          /\ Append(truth, "running")[M + 1] = "running"
      BY <1>2, <2>1, <2>2, Appended
    <2> QED BY <1>1, <1>2, <2>3 DEF Made
  <1> HIDE DEF M
  <1>4. Known' = Known /\ Attempts!Open(seen)' = Attempts!Open(seen)
    BY <1>1, EntriesStay
  <1>5. \A event, n : Attempts!Missed(event, n)' = Attempts!Missed(event, n)
    BY <1>1 DEF Attempts!Missed
  <1>6. Attempts!Reported' => Attempts!Reported
    <2>1. Len(truth') = M + 1 /\ Len(truth) = M
      BY <1>3 DEF Made, M
    <2>2. 2..M \subseteq 2..M + 1 /\ 1..M \subseteq 1..M + 1
      BY <1>2
    <2>3. lost' = lost
      BY <1>1
    <2> QED BY <1>2, <1>3, <2>1, <2>2, <2>3 DEF Attempts!Reported, Attempts!StartsReported, Attempts!Missed
  <1>7. AttemptsTyped'
    <2>1. Expected' = {Attempts!Report("started", M + 1), Attempts!Report("resumed", M + 1)}
      <3>1. M + 1 > 1
        BY <1>2
      <3> QED BY <1>3, <3>1 DEF Expected
    <2>2. \A n \in 1..M : truth'[n] # "running"
      <3> TAKE n \in 1..M
      <3>1. n \in 1..M - 1 \/ n = M
        BY <1>2
      <3> QED BY <1>2, <1>3, <3>1 DEF AttemptsInv, AttemptsTyped, M
    <2>3. now' \in 0..MaxTime /\ since' \in 0..now' /\ now' <= since' + 1
      BY <1>1, <1>2 DEF AttemptsInv, AttemptsTyped
    <2>4. seen' \in Kept /\ Made' >= 1 /\ Made' - 1 = M
      BY <1>1, <1>2, <1>3 DEF AttemptsInv, AttemptsTyped
    <2> QED BY <1>1, <1>3, <2>1, <2>2, <2>3, <2>4 DEF AttemptsTyped
  <1>8. EndsKnown'
    BY <1>1, <1>4 DEF AttemptsInv, EndsKnown
  <1>9. ASSUME Attempts!Open(seen) PROVE seen.list[Known].started + 1 < now
    <2>1. seen.list[Known].started <= since
      BY <1>2, <1>9 DEF AttemptsInv, OpenedWhen, M
    <2>2. seen.list[Known].started \in Nat
      <3>1. Known \in 1..Known
        BY <1>9, Numbers DEF AttemptsInv
      <3> QED BY <3>1, Numbers, Fields DEF AttemptsInv
    <2> QED BY <1>1, <1>2, <2>1, <2>2
  <1>10. Known < M + 1
    BY <1>2
  <1>11. OpenedWhen'
    BY <1>1, <1>3, <1>4, <1>9, <1>10 DEF AttemptsInv, OpenedWhen
  <1>12. NoneInvented'
    BY <1>2, <1>3, <1>4, <1>10 DEF NoneInvented
  <1>13. RequestsKept'
    <2>1. \A r \in requests : r.n <= (M + 1) + 1 /\ r.at <= now
      <3> TAKE r \in requests
      <3>1. r.n \in Nat /\ r.n <= M + 1 /\ r.at <= now
        BY DEF AttemptsInv, RequestsKept, M
      <3> QED BY <1>2, <3>1
    <2>2. \A n \in 2..M + 1 : \E r \in requests : r.n = n
      <3> TAKE n \in 2..M + 1
      <3>1. n \in 2..M \/ n = M + 1
        BY <1>2
      <3> QED BY <1>1, <3>1 DEF AttemptsInv, RequestsKept, M
    <2>3. requests' = requests /\ now' = now /\ since' = now /\ seen' = seen
      BY <1>1
    <2> QED BY <1>3, <1>4, <2>1, <2>2, <2>3 DEF AttemptsInv, RequestsKept
  <1>14. Awaited("started")' /\ Awaited("resumed")'
    BY <1>1, <1>3 DEF Awaited
  <1>15. LastTold'
    BY <1>3, <1>14 DEF LastTold
  <1>16. ASSUME Attempts!Reported' PROVE WellTold'
    <2>1. WellTold /\ Known = M /\ TurnTold /\ \A event : Awaited(event) <=> Attempts!Missed(event, M)
      BY <1>1, <1>6, <1>16, LandedIs DEF M
    <2>2. seen' = seen /\ Made' - 1 = M /\ M \in 1..M
      BY <1>1, <1>2, <1>3
    <2>3. ASSUME NEW n \in 1..M PROVE (seen.list[n].ended # Attempts!NotYet => Right(n)') /\ Traced(n)'
      <3>1. CASE n = M
        <4>1. seen.list[n].ended # Attempts!NotYet => ~Attempts!Open(seen)
          BY <2>1, <3>1, Numbers DEF AttemptsInv
        <4>2. seen.list[n].ended # Attempts!NotYet => seen.list[n].state = truth'[n]
          BY <1>2, <1>3, <2>1, <2>2, <3>1, <4>1 DEF TurnTold, M
        <4>3. n > 1 /\ ~Attempts!Missed("resumed", n)' => seen.list[n].from = n
          BY <1>5, <2>1, <3>1 DEF TurnTold, M
        <4> QED BY <2>2, <4>2, <4>3 DEF Right, Traced
      <3>2. CASE n \in 1..M - 1
        BY <1>3, <1>5, <2>1, <2>2, <3>2 DEF WellTold, Right, Traced, M
      <3> QED BY <1>2, <3>1, <3>2
    <2>4. NotYetTold'
      <3>1. ASSUME Attempts!Open(seen) PROVE Attempts!Missed("failed", M) /\ (seen.by = "resumed" \/ M = 1)
        <4>1. Attempts!Missed("failed", M)
          BY <1>2, <2>1, <3>1 DEF TurnTold, M
        <4>2. ~Attempts!Missed("resumed", M)
          <5>1. lost' = lost /\ M \in DOMAIN truth'
            BY <1>1, <1>2, <1>3
          <5> QED BY <1>16, <4>1, <5>1 DEF Attempts!Reported, Attempts!Ends, Attempts!Missed
        <4>3. M > 1 => seen.by = "resumed"
          BY <2>1, <3>1, <4>2 DEF TurnTold, M
        <4> QED BY <1>2, <4>1, <4>3
      <3>2. truth'[Made' - 1] = "failed" /\ truth'[Made'] = "running" /\ since' = now
        BY <1>1, <1>2, <1>3, <2>2
      <3>3. M = 1 => Made' = 2
        BY <1>3
      <3> QED BY <1>4, <1>5, <1>9, <1>14, <2>2, <3>1, <3>2, <3>3 DEF NotYetTold
    <2>5. Known' = Made' - 1 /\ Known' # Made'
      BY <1>2, <1>3, <1>4, <2>1
    <2> QED BY <2>2, <2>3, <2>4, <2>5 DEF WellTold
  <1> QED BY <1>7, <1>8, <1>11, <1>12, <1>13, <1>15, <1>16 DEF AttemptsInv

LEMMA AttemptsNext == ASSUME AttemptsInv, [Attempts!Next]_attempts PROVE AttemptsInv'
  <1>1. CASE UNCHANGED attempts
    <2>1. UNCHANGED <<now, truth, pending, since, seen, requests, lost>>
      BY <1>1 DEF attempts
    <2> QED BY <2>1 DEF AttemptsInv, AttemptsTyped, EndsKnown, OpenedWhen, NoneInvented, RequestsKept, LastTold,
              WellTold, Right, Traced, NotYetTold, TurnTold, StartTold, Awaited, Expected, Known, Made,
              Attempts!Missed, Attempts!Reported, Attempts!StartsReported
  <1>2. CASE Attempts!Next
    BY <1>2, TickKeeps, EndKeeps, AskKeeps, ResumeKeeps, LandKeeps, LoseKeeps, ReregisterKeeps
    DEF Attempts!Next, Attempts!Ends
  <1> QED BY <1>1, <1>2

-----------------------------------------------------------------------------
\* What the page shows of the attempts.

\* A set of numbers below a bound has a greatest.
LEMMA Greatest ==
    ASSUME NEW S \in SUBSET Nat, S # {}, NEW bound \in Nat, \A x \in S : x <= bound
    PROVE  Attempts!Max(S) \in S /\ \A x \in S : Attempts!Max(S) >= x
  <1> DEFINE gaps == {bound - x : x \in S}
             less == {ss \in Nat \X Nat : ss[1] < ss[2]}
  <1>1. gaps \subseteq Nat /\ gaps # {}
    <2>1. ASSUME NEW x \in S PROVE bound - x \in Nat
      <3>1. x \in Nat /\ x <= bound
        OBVIOUS
      <3> QED BY <3>1
    <2>2. PICK x \in S : TRUE
      OBVIOUS
    <2>3. bound - x \in gaps
      OBVIOUS
    <2> QED BY <2>1, <2>3
  <1>2. IsWellFoundedOn(less, Nat)
    BY NatLessThanWellFounded DEF OpToRel
  <1> HIDE DEF gaps, less
  <1>3. PICK least \in gaps : \A g \in gaps : ~(<<g, least>> \in less)
    BY <1>1, <1>2, WFMin
  <1>4. PICK m \in S : least = bound - m
    BY DEF gaps
  <1>5. ASSUME NEW x \in S PROVE m >= x
    <2>1. bound - x \in gaps
      BY DEF gaps
    <2>2. bound - x \in Nat /\ least \in Nat
      BY <1>1, <2>1
    <2>3. ~(bound - x < least)
      BY <1>3, <2>1, <2>2 DEF less
    <2>4. m \in Nat /\ x \in Nat
      OBVIOUS
    <2> QED BY <1>4, <2>2, <2>3, <2>4
  <1> QED BY <1>5 DEF Attempts!Max

\* The requester of an attempt: its own request unless that one came before the
\* end of the attempt before, or a later one came within the slack.
LEMMA RequesterIs ==
    ASSUME AttemptsInv, NEW list, NEW n \in 2..Made, n <= Known,
           list[n - 1].ended \in Nat, list[n].started = seen.list[n].started
    PROVE  LET by == Attempts!Requester(list, n) IN
           \/ by = n
           \/ by = Attempts!None /\ \A r \in requests : r.n = n => r.at < list[n - 1].ended
           \/ by > n /\ \E r \in requests : by = r.n
  <1> DEFINE asked == {q \in requests : list[n - 1].ended <= q.at /\ q.at <= list[n].started + Attempts!Same}
             fit == {r.n : r \in asked}
             before == list[n - 1].ended
             by == Attempts!Requester(list, n)
  <1>1. n \in Nat /\ n > 1 /\ n \in 1..Known /\ list[n].started \in Nat
    <2>1. n \in Nat /\ n > 1 /\ Known \in Nat
      BY Numbers DEF AttemptsInv
    <2>2. n \in 1..Known
      BY <2>1
    <2> QED BY <2>1, <2>2, Numbers, Fields DEF AttemptsInv
  <1>2. by = IF fit = {} THEN Attempts!None ELSE Attempts!Max(fit)
    <2>1. by = IF n = 1 \/ fit = {} THEN Attempts!None ELSE Attempts!Max(fit)
      BY DEF Attempts!Requester
    <2>2. n # 1
      BY <1>1
    <2> HIDE DEF by, fit
    <2> QED BY <2>1, <2>2
  <1>s. Attempts!Same = 1
    BY DEF Attempts!Same
  <1>3. \A r \in requests : r.n \in Nat /\ r.at \in Nat /\ r.n <= Made + 1
    BY DEF AttemptsInv, RequestsKept
  <1>4. PICK mine \in requests : mine.n = n
    BY DEF AttemptsInv, RequestsKept
  <1>5. \A r \in requests : r.n = n => r.at <= list[n].started
    <2> SUFFICES ASSUME NEW r \in requests, r.n = n PROVE r.at <= list[n].started
      OBVIOUS
    <2>1. r.n <= n
      BY <1>1
    <2> QED BY <1>1, <2>1 DEF AttemptsInv, RequestsKept
  <1>6. before \in Nat
    OBVIOUS
  <1>7. ASSUME NEW r \in requests, r.n = n PROVE r \in asked \/ r.at < before
    <2>1. r.at \in Nat /\ r.at <= list[n].started
      BY <1>3, <1>5, <1>7
    <2>2. r.at <= list[n].started + 1
      BY <1>1, <2>1
    <2>3. ASSUME ~(r.at < before) PROVE before <= r.at
      <3> HIDE DEF before
      <3> QED BY <1>6, <2>1, <2>3
    <2> QED BY <1>s, <2>2, <2>3
  <1>8. CASE fit = {}
    <2>1. \A r \in requests : r \notin asked
      BY <1>8
    <2>2. \A r \in requests : r.n = n => r.at < before
      BY <1>7, <2>1
    <2> QED BY <1>2, <1>8, <2>2
  <1>9. CASE fit # {}
    <2>1. fit \in SUBSET Nat /\ \A x \in fit : x <= Made + 1
      BY <1>3
    <2>2. Made + 1 \in Nat
      BY Numbers DEF AttemptsInv
    <2> HIDE DEF fit
    <2>3. by \in fit /\ \A x \in fit : by >= x
      BY <1>2, <1>9, <2>1, <2>2, Greatest
    <2>4. PICK q \in requests : by = q.n /\ before <= q.at
      BY <2>3 DEF fit
    <2>5. by \in Nat
      BY <1>3, <2>4
    <2>6. CASE mine \in asked
      <3>1. n \in fit
        BY <1>4, <2>6 DEF fit
      <3>2. by >= n
        BY <2>3, <3>1
      <3> QED BY <1>1, <2>4, <2>5, <3>2
    <2>7. CASE mine.at < before
      <3>1. ~(q.n < n)
        <4>1. mine.at \in Nat /\ q.at \in Nat
          BY <1>3
        <4>2. ~(q.at <= mine.at)
          <5> HIDE DEF before
          <5> QED BY <1>6, <2>4, <2>7, <4>1
        <4> QED BY <1>4, <4>2 DEF AttemptsInv, RequestsKept
      <3> QED BY <1>1, <2>4, <2>5, <3>1
    <2> QED BY <1>4, <1>7, <2>6, <2>7
  <1> QED BY <1>8, <1>9

LEMMA OpenedAny ==
    ASSUME NEW known \in Kept, NEW ev, ev.at \in Nat, ev.from \in Nat,
           NEW begun, begun = Attempts!Opened(known, ev, "started")
    PROVE  begun \in Kept /\ Len(begun.list) = Len(known.list) + 1
  <1>1. /\ begun \in Kept /\ Len(begun.list) = Len(known.list) + 1
        /\ begun.list[Len(known.list) + 1] =
             [state |-> "running", started |-> ev.at, ended |-> Attempts!NotYet, from |-> ev.from]
    BY OpenedIs
  <1> QED BY <1>1

\* The attempts of the page against what was told.
LEMMA ShownIs ==
    ASSUME AttemptsInv
    PROVE  LET data == Attempts!to_run_attempts_data IN
           /\ data \in Seq(Attempt)
           /\ Known = 0 => Len(data) = 0
           /\ Known > 0 /\ truth[Made] = "running" /\ ~Attempts!Open(seen) => Len(data) = Known + 1
           /\ Known > 0 /\ truth[Made] = "running" /\ Attempts!Open(seen) => data = seen.list
           /\ Known > 0 /\ truth[Made] # "running" /\ ~Attempts!Open(seen) => data = seen.list
           /\ Known > 0 /\ truth[Made] # "running" /\ Attempts!Open(seen) =>
                /\ Len(data) = Known /\ \A i \in 1..Known - 1 : data[i] = seen.list[i]
                /\ data[Known].started = seen.list[Known].started /\ data[Known].from = seen.list[Known].from
                /\ data[Known].state = truth[Made]
  <1> DEFINE data == Attempts!to_run_attempts_data
             list == seen.list
             row == truth[Made]
             begun == Attempts!Opened(seen, [at |-> Attempts!NotYet, from |-> Attempts!None], "started")
             closed == [list[Known] EXCEPT !.state = row, !.ended = now]
             settled == [list EXCEPT ![Known] = closed]
  <1>1. /\ Known \in Nat /\ Known = Len(list) /\ list \in Seq(Attempt) /\ seen \in Kept
        /\ Attempts!Last(truth) = row /\ now \in Nat /\ Attempts!NotYet \in Nat
        /\ row \in {"running", "completed", "failed"}
        /\ Attempts!Open(seen) <=> Known > 0 /\ list[Known].ended = Attempts!NotYet
    BY Numbers DEF AttemptsInv, AttemptsTyped, Kept, Known
  <1>2. Known = 0 <=> list = <<>>
    BY <1>1
  <1>3. Attempts!Last(list) = list[Known]
    BY DEF Attempts!Last, Known
  <1>4. CASE Known = 0
    <2>1. data = <<>>
      BY <1>2, <1>4 DEF Attempts!to_run_attempts_data
    <2> HIDE DEF data
    <2>2. data \in Seq(Attempt) /\ Len(data) = 0
      BY <2>1
    <2> QED BY <1>4, <2>2 DEF data
  <1>5. CASE Known > 0 /\ row = "running" /\ ~Attempts!Open(seen)
    <2>1. data = begun.list
      <3>1. data = Attempts!settle_last(begun.list, row)
        BY <1>1, <1>2, <1>5 DEF Attempts!to_run_attempts_data
      <3> HIDE DEF begun
      <3> QED BY <1>5, <3>1 DEF Attempts!settle_last
    <2> DEFINE ev == [at |-> Attempts!NotYet, from |-> Attempts!None]
    <2>2. ev.at = Attempts!NotYet /\ ev.from = 0 /\ ev.at \in Nat /\ ev.from \in Nat
      BY <1>1 DEF Attempts!None
    <2> HIDE DEF ev
    <2>3. begun \in Kept /\ Len(begun.list) = Len(seen.list) + 1
      <3>1. begun = Attempts!Opened(seen, ev, "started")
        BY DEF ev
      <3> HIDE DEF begun
      <3> QED BY <1>1, <2>2, <3>1, OpenedAny
    <2> HIDE DEF begun, data
    <2>4. data \in Seq(Attempt) /\ Len(data) = Known + 1
      BY <1>1, <2>1, <2>3 DEF Kept
    <2> QED BY <1>5, <2>4 DEF data
  <1>6. CASE Known > 0 /\ (row = "running" <=> Attempts!Open(seen))
    <2>1. data = list
      <3>1. data = Attempts!settle_last(list, row)
        BY <1>1, <1>2, <1>6 DEF Attempts!to_run_attempts_data
      <3>2. ~(Attempts!Last(list).ended = Attempts!NotYet /\ row # "running")
        BY <1>1, <1>3, <1>6
      <3> HIDE DEF list, row
      <3> QED BY <3>1, <3>2 DEF Attempts!settle_last
    <2> HIDE DEF data
    <2>2. data \in Seq(Attempt)
      BY <1>1, <2>1
    <2> QED BY <1>6, <2>1, <2>2 DEF data
  <1>7. CASE Known > 0 /\ row # "running" /\ Attempts!Open(seen)
    <2>1. data = settled
      <3>1. data = Attempts!settle_last(list, row)
        BY <1>1, <1>2, <1>7 DEF Attempts!to_run_attempts_data
      <3>2. Attempts!Last(list).ended = Attempts!NotYet /\ row # "running"
        BY <1>1, <1>3, <1>7
      <3>3. Len(list) = Known
        BY <1>1
      <3> HIDE DEF list, row
      <3> QED BY <1>3, <3>1, <3>2, <3>3 DEF Attempts!settle_last
    <2>2. list[Known] \in Attempt
      BY <1>1, <1>7
    <2>3. closed \in Attempt /\ closed.started = list[Known].started /\ closed.from = list[Known].from /\ closed.state = row
      <3>1. closed \in Attempt
        BY <1>1, <2>2 DEF Attempt
      <3> HIDE DEF list, row
      <3> QED BY <1>1, <2>2, <3>1, Amends
    <2> HIDE DEF closed
    <2>4. /\ settled \in Seq(Attempt) /\ Len(settled) = Known /\ settled[Known] = closed
          /\ \A i \in 1..Known - 1 : settled[i] = list[i]
      <3> HIDE DEF list
      <3> QED BY <1>1, <1>7, <2>3, Changed
    <2> HIDE DEF settled, data
    <2>5. /\ data \in Seq(Attempt) /\ Len(data) = Known /\ data[Known] = closed
          /\ \A i \in 1..Known - 1 : data[i] = list[i]
      BY <2>1, <2>4
    <2> QED BY <1>7, <2>3, <2>5 DEF data
  <1> QED BY <1>1, <1>4, <1>5, <1>6, <1>7

\* A page lists as many attempts as it has.
LEMMA HistoryIs ==
    ASSUME AttemptsInv
    PROVE  LET data == Attempts!to_run_attempts_data
               page == Attempts!to_run_attempts_from_history
           IN  /\ page # <<>> => Len(data) > 0 /\ Len(page) = Len(data) /\ DOMAIN page = 1..Len(data)
               /\ \A n \in 1..Len(data) :
                    /\ page[n].state = data[n].state /\ page[n].resumed_by = Attempts!Requester(data, n)
                    /\ data[n].from # 0 => page[n].from = data[n].from
  <1> DEFINE data == Attempts!to_run_attempts_data
             page == Attempts!to_run_attempts_from_history
             told(n) == [state |-> data[n].state, resumed_by |-> Attempts!Requester(data, n),
                         from |-> IF data[n].from = Attempts!None THEN Attempts!Requester(data, n) ELSE data[n].from]
             all == {told(n) : n \in DOMAIN data}
  <1>1. page = [n \in DOMAIN data |-> told(n)]
    BY DEF Attempts!to_run_attempts_from_history
  <1>2. data \in Seq(Attempt)
    BY ShownIs
  <1>3. \A n : /\ told(n).state = data[n].state /\ told(n).resumed_by = Attempts!Requester(data, n)
               /\ data[n].from # 0 => told(n).from = data[n].from
    BY DEF Attempts!None
  <1> HIDE DEF data, page, told
  <1>4. DOMAIN data = 1..Len(data) /\ Len(data) \in Nat
    BY <1>2
  <1>5. page \in [1..Len(data) -> all]
    BY <1>1, <1>4
  <1> HIDE DEF all
  <1>6. page \in Seq(all) /\ Len(page) = Len(data) /\ DOMAIN page = 1..Len(data)
    BY <1>4, <1>5
  <1>7. page # <<>> => Len(data) > 0
    BY <1>4, <1>6, EmptySeq
  <1>8. \A n \in 1..Len(data) : page[n] = told(n)
    BY <1>1, <1>4
  <1>9. \A n \in 1..Len(data) :
          /\ page[n].state = data[n].state /\ page[n].resumed_by = Attempts!Requester(data, n)
          /\ data[n].from # 0 => page[n].from = data[n].from
    BY <1>3, <1>8
  <1> QED BY <1>6, <1>7, <1>9 DEF data, page

LEMMA AttemptsTold == AttemptsInv => Attempts!AttemptsAreTheRuns
  <1> DEFINE data == Attempts!to_run_attempts_data
             page == Attempts!to_run_attempts_from_history
             M == Made
             Stands(n) == page[n].state \in {truth[n]} \cup (IF Attempts!Missed(truth[n], n) THEN {"unknown"} ELSE {})
             From(n) == n > 1 /\ ~Attempts!Missed("resumed", n) => page[n].from = n
             By(n) == n > 1 => \/ page[n].resumed_by = n
                               \/ page[n].resumed_by = Attempts!None /\ Attempts!AskedBeforeEnd(n)
                               \/ page[n].resumed_by > n /\ \E r \in requests : page[n].resumed_by = r.n
  <1> SUFFICES ASSUME AttemptsInv, pending = {}, page # <<>>
               PROVE  /\ Len(page) <= M
                      /\ Attempts!StartsReported => Attempts!Last(page).state = truth[M]
                      /\ Attempts!Reported => Len(page) = M /\ \A n \in DOMAIN page : Stands(n) /\ From(n) /\ By(n)
    <2>1. Attempts!Last(truth) = truth[Made] /\ Len(truth) = Made
      BY DEF Attempts!Last, Made
    <2> QED BY <2>1 DEF Attempts!AttemptsAreTheRuns
  <1>1. /\ Len(data) > 0 /\ Len(page) = Len(data) /\ DOMAIN page = 1..Len(data)
        /\ \A n \in 1..Len(data) :
             /\ page[n].state = data[n].state /\ page[n].resumed_by = Attempts!Requester(data, n)
             /\ data[n].from # 0 => page[n].from = data[n].from
    BY HistoryIs
  <1>2. /\ Known \in Nat /\ M \in Nat \ {0} /\ now \in Nat /\ Attempts!NotYet \in Nat /\ now < Attempts!NotYet
        /\ Known <= M /\ (truth[M] = "running" /\ ~Attempts!Open(seen) => Known < M)
        /\ \A i \in 1..Known : seen.list[i] \in Attempt
        /\ Attempts!Open(seen) <=> Known > 0 /\ seen.list[Known].ended = Attempts!NotYet
        /\ seen.list \in Seq(Attempt) /\ Len(seen.list) = Known
    BY Numbers DEF AttemptsInv, NoneInvented, AttemptsTyped, Kept, Known
  <1>3. /\ data \in Seq(Attempt)
        /\ Known = 0 => Len(data) = 0
        /\ Known > 0 /\ truth[M] = "running" /\ ~Attempts!Open(seen) => Len(data) = Known + 1
        /\ Known > 0 /\ truth[M] = "running" /\ Attempts!Open(seen) => data = seen.list
        /\ Known > 0 /\ truth[M] # "running" /\ ~Attempts!Open(seen) => data = seen.list
        /\ Known > 0 /\ truth[M] # "running" /\ Attempts!Open(seen) =>
             /\ Len(data) = Known /\ \A i \in 1..Known - 1 : data[i] = seen.list[i]
             /\ data[Known].started = seen.list[Known].started /\ data[Known].from = seen.list[Known].from
             /\ data[Known].state = truth[M]
    BY ShownIs
  <1>4. Attempts!Last(page) = page[Len(data)]
    BY <1>1 DEF Attempts!Last
  <1> HIDE DEF data, page, M
  <1>5. Known > 0
    <2>1. Known # 0
      BY <1>1, <1>3
    <2> QED BY <1>2, <2>1
  <1>6. Len(page) <= M
    <2>1. Len(data) = Known \/ (Len(data) = Known + 1 /\ Known < M)
      BY <1>2, <1>3, <1>5
    <2>2. Len(page) = Len(data) /\ Known \in Nat /\ M \in Nat /\ Known <= M
      BY <1>1, <1>2
    <2> QED BY <2>1, <2>2
  <1>7. ASSUME Attempts!StartsReported PROVE Attempts!Last(page).state = truth[M]
    <2>1. StartTold /\ (truth[M] = "running" => Attempts!Open(seen))
      BY <1>7, LandedIs DEF M
    <2>2. Len(data) = Known /\ Known \in 1..Known
      BY <1>2, <1>3, <1>5, <2>1
    <2>3. data[Known].state = truth[M]
      <3>1. CASE truth[M] = "running"
        <4>1. data[Known].state = seen.list[Known].state /\ seen.list[Known].ended = Attempts!NotYet
          BY <1>2, <1>3, <1>5, <2>1, <3>1
        <4>2. ~(seen.list[Known].ended <= now)
          BY <1>2, <4>1
        <4> QED BY <2>2, <3>1, <4>1, <4>2 DEF AttemptsInv, EndsKnown
      <3>2. CASE truth[M] # "running" /\ ~Attempts!Open(seen)
        <4>1. data[Known].state = seen.list[Known].state
          BY <1>3, <1>5, <3>2
        <4> QED BY <2>1, <3>2, <4>1 DEF AttemptsInv, LastTold, M
      <3>3. CASE truth[M] # "running" /\ Attempts!Open(seen)
        BY <1>3, <1>5, <3>3
      <3> QED BY <3>1, <3>2, <3>3
    <2> QED BY <1>1, <1>4, <2>2, <2>3
  <1>8. ASSUME Attempts!Reported PROVE Len(page) = M /\ \A n \in DOMAIN page : Stands(n) /\ From(n) /\ By(n)
    <2>1. WellTold /\ Known = M /\ TurnTold /\ \A event : Awaited(event) <=> Attempts!Missed(event, M)
      BY <1>8, LandedIs DEF M
    <2>2. truth[M] = "running" => Attempts!Open(seen)
      BY <2>1 DEF TurnTold, M
    <2>3. Len(data) = M
      BY <1>2, <1>3, <1>5, <2>1, <2>2
    <2>4. \A n \in 1..M : data[n].started = seen.list[n].started /\ data[n].from = seen.list[n].from
      <3>1. CASE data = seen.list
        BY <3>1
      <3>2. CASE \A i \in 1..M - 1 : data[i] = seen.list[i]
        <4> TAKE n \in 1..M
        <4>1. n \in 1..M - 1 \/ n = M
          BY <1>2
        <4> QED BY <1>3, <1>5, <2>1, <2>2, <3>2, <4>1
      <3> QED BY <1>3, <1>5, <2>1, <2>2, <3>1, <3>2
    <2>5. \A n \in 1..M - 1 : data[n] = seen.list[n]
      BY <1>3, <1>5, <2>1, <2>2
    <2>6. ASSUME NEW n \in 1..M PROVE Stands(n)
      <3>1. page[n].state = data[n].state
        BY <1>1, <2>3
      <3>2. CASE n = M
        <4>1. Attempts!Last(page).state = truth[M]
          BY <1>7, <1>8 DEF Attempts!Reported
        <4> QED BY <1>4, <2>3, <3>2, <4>1
      <3>3. CASE n \in 1..M - 1
        <4>1. seen.list[n].ended # Attempts!NotYet
          <5>1. n \in 1..Known /\ n # Known
            BY <1>2, <2>1, <3>3
          <5>2. seen.list[n].ended <= now
            BY <5>1 DEF AttemptsInv, EndsKnown
          <5> QED BY <1>2, <5>2
        <4>2. Right(n)
          BY <2>1, <3>3, <4>1 DEF WellTold, M
        <4> QED BY <2>5, <3>1, <3>3, <4>2 DEF Right
      <3> QED BY <1>2, <3>2, <3>3
    <2>7. ASSUME NEW n \in 1..M PROVE From(n)
      <3> SUFFICES ASSUME n > 1, ~Attempts!Missed("resumed", n) PROVE page[n].from = n
        OBVIOUS
      <3>1. seen.list[n].from = n
        <4>1. CASE n = M
          BY <2>1, <4>1 DEF TurnTold, M
        <4>2. CASE n \in 1..M - 1
          BY <2>1, <4>2 DEF WellTold, Traced, M
        <4> QED BY <1>2, <4>1, <4>2
      <3>2. data[n].from = n /\ n # 0
        BY <2>4, <3>1
      <3> QED BY <1>1, <2>3, <3>2
    <2>8. ASSUME NEW n \in 1..M PROVE By(n)
      <3> SUFFICES ASSUME n > 1 PROVE \/ page[n].resumed_by = n
                                      \/ page[n].resumed_by = Attempts!None /\ Attempts!AskedBeforeEnd(n)
                                      \/ page[n].resumed_by > n /\ \E r \in requests : page[n].resumed_by = r.n
        OBVIOUS
      <3>1. n \in 2..M /\ n <= Known /\ n - 1 \in 1..Len(data)
        BY <1>2, <2>1, <2>3
      <3>2. data[n - 1].ended \in Nat /\ data[n].started = seen.list[n].started
        <4>1. data[n - 1] \in Attempt
          BY <1>3, <3>1
        <4> QED BY <2>4, <4>1, Fields
      <3>3. page[n].resumed_by = Attempts!Requester(data, n)
        BY <1>1, <2>3
      <3>4. \/ Attempts!Requester(data, n) = n
            \/ Attempts!Requester(data, n) = Attempts!None /\ \A r \in requests : r.n = n => r.at < data[n - 1].ended
            \/ Attempts!Requester(data, n) > n /\ \E r \in requests : Attempts!Requester(data, n) = r.n
        BY <3>1, <3>2, RequesterIs DEF M
      <3>5. (\A r \in requests : r.n = n => r.at < data[n - 1].ended) => Attempts!AskedBeforeEnd(n)
        BY DEF Attempts!AskedBeforeEnd, data
      <3> QED BY <3>3, <3>4, <3>5
    <2> QED BY <1>1, <2>3, <2>6, <2>7, <2>8
  <1> QED BY <1>6, <1>7, <1>8

-----------------------------------------------------------------------------
\* The check before a run.

\* No sub-team was left out yet.
Complete == ~failed /\ read_count # SUB_TEAM_CAP

\* The inductive invariant.  What was read is what the team's phases lead to, and
\* while nothing was left out all that its members hold was read or is next.
CheckInv ==
    /\ calls \in [Named \cup {Root} -> SUBSET Refs] /\ read_count \in Nat
    /\ map \subseteq Check!LedTo(calls[Root]) \cap Named /\ level \subseteq Check!LedTo(calls[Root])
    /\ check = "begun" => map = {}
    /\ check # "begun" /\ ~skipped /\ Complete =>
         \A team \in {Root} \cup map : calls[team] \cap Named \subseteq map \cup level
    /\ check \notin {"begun", "walking"} /\ ~skipped => Check!WalkEnded
    /\ refused \subseteq Check!used \cap missing
    /\ check = "refused" => refused # {}
    /\ check = "passed" /\ ~skipped => Check!used \cap missing = {}

LEMMA SizeIs == ASSUME NEW S PROVE Check!Cardinality(S) = Cardinality(S)
  BY DEF Check!Cardinality, Cardinality

\* References lead to themselves, to what the phases of the teams they name hold,
\* and to nothing else.
LEMMA LedStarts ==
    ASSUME NEW refs \in SUBSET Refs
    PROVE  refs \subseteq Check!LedTo(refs)
  BY DEF Check!LedTo

LEMMA LedOn ==
    ASSUME NEW refs, NEW team \in Check!LedTo(refs) \cap Named, calls[team] \subseteq Refs
    PROVE  calls[team] \subseteq Check!LedTo(refs)
  BY DEF Check!LedTo

LEMMA LedLeast ==
    ASSUME NEW refs, NEW some \in SUBSET Refs, refs \subseteq some,
           \A team \in some \cap Named : calls[team] \subseteq some
    PROVE  Check!LedTo(refs) \subseteq some
  BY DEF Check!LedTo

LEMMA CheckStart == ASSUME Check!Init PROVE CheckInv
  <1>1. calls \in [Named \cup {Root} -> SUBSET Refs]
    BY PreflightAssumption DEF Check!Init
  <1> QED BY <1>1 DEF Check!Init, Check!NotBegun, CheckInv

\* A walk that ended and left nothing out has read all there is.
LEMMA AllRead ==
    ASSUME CheckInv, check \notin {"begun", "walking"}, ~skipped, Complete
    PROVE  Check!LedTo(calls[Root]) \cap Named \subseteq map
  <1> DEFINE some == map \cup (Refs \ Named)
  <1>1. level \subseteq map
    <2>1. Check!Room # 0
      BY PreflightAssumption DEF CheckInv, Complete, Check!Room
    <2> QED BY <2>1 DEF CheckInv, Check!WalkEnded, Check!Left
  <1>2. \A team \in {Root} \cup map : calls[team] \subseteq Refs /\ calls[team] \cap Named \subseteq map
    BY <1>1 DEF CheckInv
  <1>3. some \in SUBSET Refs /\ some \cap Named \subseteq map
    BY PreflightAssumption DEF CheckInv
  <1>4. calls[Root] \subseteq some /\ \A team \in some \cap Named : calls[team] \subseteq some
    BY <1>2, <1>3
  <1> HIDE DEF some
  <1>5. Check!LedTo(calls[Root]) \subseteq some
    BY <1>3, <1>4, LedLeast
  <1> QED BY <1>3, <1>5

\* One level of the walk.
LEMMA WalkStep == ASSUME CheckInv, Check!sub_teams PROVE CheckInv'
  <1>1. PICK refs \in Check!Batches : \E dropped \in SUBSET (refs \cap Named) :
          LET read == (refs \cap Named) \ dropped
          IN  /\ read_count' = read_count + Check!Cardinality(refs)
              /\ map' = map \cup read
              /\ failed' = (failed \/ dropped # {})
              /\ level' = UNION {calls[ref] : ref \in read}
    BY DEF Check!sub_teams, Check!ReadLevel
  <1>2. PICK dropped \in SUBSET (refs \cap Named) :
          /\ read_count' = read_count + Check!Cardinality(refs)
          /\ map' = map \cup ((refs \cap Named) \ dropped)
          /\ failed' = (failed \/ dropped # {})
          /\ level' = UNION {calls[ref] : ref \in (refs \cap Named) \ dropped}
    BY <1>1
  <1> DEFINE read == (refs \cap Named) \ dropped
  <1>3. /\ check = "walking" /\ Check!Room > 0 /\ calls' = calls
        /\ agents' = agents /\ missing' = missing /\ check' = check /\ skipped' = skipped /\ refused' = refused
    <2>1. check = "walking" /\ Check!ReadLevel /\ UNCHANGED <<agents, missing, check, skipped, refused>>
      BY DEF Check!sub_teams
    <2>2. Check!Room > 0 /\ UNCHANGED calls
      BY <2>1 DEF Check!ReadLevel
    <2> QED BY <2>1, <2>2
  <1>4. refs \subseteq level /\ (refs = Check!Left \/ Check!Cardinality(refs) = Check!Room)
    <2>1. refs \in SUBSET Check!Left /\ (refs = Check!Left \/ Check!Cardinality(refs) = Check!Room)
      BY DEF Check!Batches
    <2>2. Check!Left \subseteq level
      BY DEF Check!Left
    <2> QED BY <2>1, <2>2
  <1>5. Check!Cardinality(refs) \in Nat
    <2>1. refs \subseteq Refs
      BY <1>4 DEF CheckInv, Check!LedTo
    <2> QED BY <2>1, PreflightAssumption, SizeIs, FS_Subset, FS_CardinalityType
  <1>6. read_count' \in Nat
    BY <1>2, <1>5 DEF CheckInv
  <1>7. read \subseteq Check!LedTo(calls[Root]) \cap Named
    BY <1>4 DEF CheckInv
  <1>8. \A team \in read : calls[team] \subseteq Check!LedTo(calls[Root])
    BY <1>7, LedOn DEF CheckInv
  <1>9. Check!LedTo(calls[Root])' = Check!LedTo(calls[Root])
    BY <1>3 DEF Check!LedTo
  <1>10. /\ map' \subseteq Check!LedTo(calls[Root]) \cap Named
         /\ level' \subseteq Check!LedTo(calls[Root])
    BY <1>2, <1>7, <1>8 DEF CheckInv
  <1>11. ASSUME ~skipped, Complete'
         PROVE  \A team \in {Root} \cup map' : calls[team] \cap Named \subseteq map' \cup level'
    <2>1. ~failed /\ dropped = {}
      BY <1>2, <1>11 DEF Complete
    <2>2. read_count # SUB_TEAM_CAP
      BY <1>3, PreflightAssumption DEF CheckInv, Check!Room
    <2>3. refs = Check!Left
      <3>1. Check!Cardinality(refs) # Check!Room
        BY <1>2, <1>11, PreflightAssumption DEF CheckInv, Complete, Check!Room
      <3> QED BY <1>4, <3>1
    <2>4. \A team \in {Root} \cup map : calls[team] \cap Named \subseteq map \cup level
      BY <1>3, <1>11, <2>1, <2>2 DEF CheckInv, Complete
    <2>5. (map \cup level) \cap Named \subseteq map'
      BY <1>2, <2>1, <2>3 DEF Check!Left
    <2>6. \A team \in read : calls[team] \subseteq level'
      BY <1>2
    <2> QED BY <1>2, <2>4, <2>5, <2>6
  <1>12. refused' \subseteq Check!used' \cap missing'
    BY <1>2, <1>3 DEF CheckInv, Check!used
  <1> QED BY <1>3, <1>6, <1>9, <1>10, <1>11, <1>12 DEF CheckInv

LEMMA CheckNext == ASSUME CheckInv, [Check!Next]_preflight PROVE CheckInv'
  <1> USE DEF preflight, walk
  <1>1. CASE UNCHANGED preflight
    BY <1>1 DEF CheckInv, Complete, Check!LedTo, Check!WalkEnded, Check!Left, Check!Room, Check!used
  <1>2. CASE Check!Skip
    BY <1>2 DEF Check!Skip, Check!walk, CheckInv, Check!LedTo, Check!used
  <1>3. CASE Check!Begin
    <2>1. /\ level' = calls[Root] /\ calls' = calls /\ map' = map /\ failed' = failed /\ read_count' = read_count
          /\ agents' = agents /\ missing' = missing /\ refused' = refused /\ check' = "walking" /\ skipped' = skipped
      BY <1>3 DEF Check!Begin
    <2>2. level' \subseteq Check!LedTo(calls[Root])
      BY <2>1, LedStarts DEF CheckInv
    <2>3. map = {} /\ Check!used' = Check!used
      BY <1>3, <2>1 DEF Check!Begin, CheckInv, Check!used
    <2>4. Check!LedTo(calls[Root])' = Check!LedTo(calls[Root])
      BY <2>1 DEF Check!LedTo
    <2> QED BY <2>1, <2>2, <2>3, <2>4 DEF CheckInv
  <1>4. CASE Check!sub_teams
    BY <1>4, WalkStep
  <1>5. CASE Check!agents_of
    BY <1>5 DEF Check!agents_of, Check!walk, CheckInv, Complete, Check!LedTo, Check!WalkEnded, Check!Left, Check!Room, Check!used
  <1>6. CASE Check!missing_settings
    BY <1>6 DEF Check!missing_settings, Check!walk, CheckInv, Complete, Check!LedTo, Check!WalkEnded, Check!Left, Check!Room, Check!used
  <1> QED BY <1>1, <1>2, <1>3, <1>4, <1>5, <1>6 DEF Check!Next

LEMMA CheckCorrect == ASSUME CheckInv PROVE RefusesOnlyMissing
  <1>1. Check!used \subseteq Check!Used
    BY DEF CheckInv, Check!used, Check!Used, Check!Led
  <1>2. ASSUME check = "passed", ~skipped, ~failed, read_count < SUB_TEAM_CAP
        PROVE  Check!Used \cap missing = {}
    <2>1. Complete
      BY <1>2 DEF CheckInv, Complete
    <2>2. Check!Led \subseteq {Root} \cup map
      BY <1>2, <2>1, AllRead DEF Check!Led
    <2>3. Check!Used \subseteq Check!used
      BY <2>2 DEF Check!Used, Check!used
    <2> QED BY <1>2, <2>3 DEF CheckInv
  <1> QED BY <1>1, <1>2 DEF CheckInv, RefusesOnlyMissing, Check!RefusesOnlyMissing

-----------------------------------------------------------------------------
\* The parts together.

\* A part that is not exercised has nothing to show.
ViewsInv ==
    /\ ListsInv /\ InboxInv /\ AttemptsInv
    /\ FailureInv \/ (failure = <<>> /\ part # "failures")
    /\ CheckInv \/ (check = "begun" /\ part # "preflight")

LEMMA ViewsStart == ASSUME PartsInit PROVE ViewsInv
  <1>1. ListsInv
    <2>1. CASE part = "lists"
      BY <2>1, ListsStart DEF PartsInit
    <2>2. CASE part # "lists"
      <3>1. /\ loop = "mine" /\ rows = <<>> /\ out = <<>> /\ offset = 0 /\ total = -1 /\ ended = "no"
            /\ kept = {} /\ shifted = {} /\ changes = 0
        BY <2>2 DEF PartsInit
      <3>2. rows \in Seq(Items) /\ out \in Seq(Items) /\ Len(rows) = 0 /\ Len(out) = 0 /\ DOMAIN out = {}
        BY <3>1
      <3> QED BY <3>1, <3>2 DEF ListsInv, ListsTyped, Begins, Told
    <2> QED BY <2>1, <2>2
  <1>2. InboxInv
    BY InboxStart DEF PartsInit
  <1>3. FailureInv \/ (failure = <<>> /\ part # "failures")
    BY FailureStart DEF PartsInit
  <1>4. AttemptsInv
    BY AttemptsStart DEF PartsInit
  <1>5. CheckInv \/ (check = "begun" /\ part # "preflight")
    BY CheckStart DEF PartsInit
  <1> QED BY <1>1, <1>2, <1>3, <1>4, <1>5 DEF ViewsInv

LEMMA ViewsStep ==
    ASSUME ViewsInv, [PartsNext]_<<part, vars, pages, lists, inbox, attempts, telemetry, times, failures, preflight>>
    PROVE  ViewsInv'
  <1>1. /\ [Lists!Next]_lists /\ [Inbox!Next]_inbox /\ [Attempts!Next]_attempts /\ [Failure!Next]_failures
        /\ [Check!Next]_preflight /\ UNCHANGED part
    BY DEF PartsNext
  <1>2. /\ part # "failures" => UNCHANGED failures
        /\ part # "preflight" => UNCHANGED preflight
    BY DEF PartsNext
  <1>3. ListsInv' /\ InboxInv' /\ AttemptsInv'
    BY <1>1, ListsNext, InboxNext, AttemptsNext DEF ViewsInv
  <1>4. (FailureInv \/ (failure = <<>> /\ part # "failures"))'
    <2>1. CASE FailureInv
      BY <1>1, <2>1, FailureNext
    <2>2. CASE failure = <<>> /\ part # "failures"
      BY <1>1, <1>2, <2>2 DEF failures
    <2> QED BY <2>1, <2>2 DEF ViewsInv
  <1>5. (CheckInv \/ (check = "begun" /\ part # "preflight"))'
    <2>1. CASE CheckInv
      BY <1>1, <2>1, CheckNext
    <2>2. CASE check = "begun" /\ part # "preflight"
      BY <1>1, <1>2, <2>2 DEF preflight
    <2> QED BY <2>1, <2>2 DEF ViewsInv
  <1> QED BY <1>3, <1>4, <1>5 DEF ViewsInv

\* No list read in pages misses what did not change meanwhile, and no inbox more
\* than what shares its millisecond with the end of a page or is of an org that
\* failed (_mine, all_realms, InboxService.get).
THEOREM MissedTheorem == PartsSpec => []NothingIsMissed
  <1>1. ViewsInv => NothingIsMissed
    BY ListsWhole, InboxWhole DEF ViewsInv, NothingIsMissed
  <1> QED BY <1>1, ViewsStart, ViewsStep, PTL DEF PartsSpec

\* The attempts shown of a run are those it made, as far as enough was reported, each
\* with its end, where it resumed from and who asked for it (the mapper's fold over the
\* history), and the reason of its failure is that of the deepest sub-run that was
\* read (read_failure).
THEOREM RunTheorem == PartsSpec => []RunIsTold
  <1>1. ViewsInv => Failure!WhyIsTheDeepest
    BY FailureExplained DEF ViewsInv, Failure!WhyIsTheDeepest
  <1>2. ViewsInv => Attempts!AttemptsAreTheRuns
    BY AttemptsTold DEF ViewsInv
  <1>3. ViewsInv => RunIsTold
    BY <1>1, <1>2 DEF RunIsTold
  <1> QED BY <1>3, ViewsStart, ViewsStep, PTL DEF PartsSpec

\* A run is refused only for agents that lack settings and are used by its team or by
\* a sub-team its phases lead to, and passes with one only when the check could not be
\* made or left a sub-team out, whatever the teams call (RunPreflightService.check and
\* TeamPageService.sub_teams).
THEOREM PreflightTheorem == PartsSpec => []RefusesOnlyMissing
  <1>1. check = "begun" => RefusesOnlyMissing
    BY DEF RefusesOnlyMissing, Check!RefusesOnlyMissing
  <1>2. ViewsInv => RefusesOnlyMissing
    BY <1>1, CheckCorrect DEF ViewsInv
  <1> QED BY <1>2, ViewsStart, ViewsStep, PTL DEF PartsSpec
================================================================================
