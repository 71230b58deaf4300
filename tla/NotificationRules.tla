-------------------------- MODULE NotificationRules --------------------------
(***************************************************************************)
(* services/notification_rules.ts: how the rules of an org and of one of   *)
(* its realms show in the three views of the notification center, while    *)
(* rules are saved, switched and removed, and channels switched.           *)
(*                                                                         *)
(* An event is a pair <<family, name>>; a rule's selector is an event, all *)
(* of a family, <<family, "*">>, or everything, <<"*">>.  The rules of a   *)
(* level are a set; the order in which Core lists them is that of ids.     *)
(* Core's list for a realm holds, beside the rules of the realm, those of  *)
(* its teams, which the notification center reads but does not write.      *)
(***************************************************************************)
EXTENDS FiniteSets, Integers, Sequences

CONSTANTS
    Catalog,        \* the event types Core lists
    Selectors,      \* what rules may name
    Channels,
    RuleIds         \* of each of Core's two lists

ASSUME RulesAssumption == RuleIds \subseteq Nat

VARIABLES
    rules,          \* of the org, of the realm and of its teams
    switched_off    \* the channels that are off

vars == <<rules, switched_off>>

Levels == {"org", "realm", "team"}

Rule == [id : RuleIds, event : Selectors, channel : Channels, enabled : BOOLEAN]

Init ==
    /\ rules = [l \in Levels |-> {}]
    /\ switched_off = {}

(***************************************************************************)
(* What Core does for the BFF's writes.                                    *)
(***************************************************************************)

\* realm_notification_rules: the rules of the realm and of its teams in it.
realm_rules == rules["realm"] \cup rules["team"]

ListOf(l) == IF l = "org" THEN rules["org"] ELSE realm_rules

NewIds(l) == RuleIds \ {r.id : r \in ListOf(l)}

Same(l, event, channel) == {r \in rules[l] : r.event = event /\ r.channel = channel}

\* Mutant: always a new rule.
SetNewRule(l, event, channel, enabled) ==
    \E id \in NewIds(l) :
        /\ rules' = [rules EXCEPT ![l] = rules[l] \cup
                        {[id |-> id, event |-> event, channel |-> channel, enabled |-> enabled]}]
        /\ UNCHANGED switched_off

\* set_notification_rules: one rule for each level, event and channel.
SetRule(l, event, channel, enabled) ==
    \E id \in IF Same(l, event, channel) = {} THEN NewIds(l)
              ELSE {r.id : r \in Same(l, event, channel)} :
        /\ rules' = [rules EXCEPT ![l] =
                        (rules[l] \ Same(l, event, channel)) \cup
                        {[id |-> id, event |-> event, channel |-> channel, enabled |-> enabled]}]
        /\ UNCHANGED switched_off

RemoveRule(l, rule) ==
    /\ rules' = [rules EXCEPT ![l] = rules[l] \ {rule}]
    /\ UNCHANGED switched_off

SwitchChannel(c) ==
    /\ switched_off' = IF c \in switched_off THEN switched_off \ {c} ELSE switched_off \cup {c}
    /\ UNCHANGED rules

Next ==
    \/ \E l \in Levels, event \in Selectors, channel \in Channels, enabled \in BOOLEAN :
           SetRule(l, event, channel, enabled)
    \/ \E l \in Levels : \E rule \in rules[l] : RemoveRule(l, rule)
    \/ \E c \in Channels : SwitchChannel(c)

Spec == Init /\ [][Next]_vars

(***************************************************************************)
(* The helpers.                                                            *)
(***************************************************************************)

matching_selectors(event) ==
    {event, <<"*">>} \cup (IF Len(event) > 1 THEN {<<event[1], "*">>} ELSE {})

covering(some, event) == {r \in some : r.event \in matching_selectors(event)}

SwitchedOn(some) == \E r \in some : r.enabled

\* find: the first in the list.
First(some) == CHOOSE r \in some : \A s \in some : r.id <= s.id

(***************************************************************************)
(* realm_events: a row of the realm's page.  This page and the Events page *)
(* take only the rules of the realm itself, not those of its teams.        *)
(***************************************************************************)

own(event) == {r \in rules["realm"] : r.event = event}

broader(event) ==
    IF own(event) = {} THEN covering(rules["realm"], event) ELSE {}

RealmRow(event) == own(event) \cup broader(event)

\* The rows of the page: each selector some rule names.
RealmRows == {r.event : r \in rules["org"] \cup rules["realm"]}

\* Mutant: with its own rules off, the row is off whatever the org's do.
StatusIgnoringOrg(event) ==
    LET org == covering(rules["org"], event)
        realm == RealmRow(event)
    IN  CASE realm # {} /\ SwitchedOn(realm) ->
                 IF org # {} THEN "both" ELSE "realm_only"
          [] realm # {} /\ ~SwitchedOn(realm) -> "off"
          [] realm = {} ->
                 IF SwitchedOn(org) THEN "default" ELSE "paused"

status(event) ==
    LET org == covering(rules["org"], event)
        realm == RealmRow(event)
    IN  CASE realm # {} /\ SwitchedOn(realm) ->
                 IF org # {} THEN "both" ELSE "realm_only"
          [] realm # {} /\ ~SwitchedOn(realm) ->
                 IF SwitchedOn(org) THEN "default" ELSE "off"
          [] realm = {} ->
                 IF SwitchedOn(org) THEN "default" ELSE "paused"

(***************************************************************************)
(* event_groups: a row of the Events page, of the org (no realm rules) or  *)
(* of the realm.                                                           *)
(***************************************************************************)

\* Mutant: any rule of the realm for the org rule's channel overrides it.
OverridingAny(org_rule, event) ==
    {r \in covering(rules["realm"], event) : r.channel = org_rule.channel}

\* The realm rules that switch an org rule off for this event.
Overriding(org_rule, event) ==
    {r \in covering(rules["realm"], event) : ~r.enabled /\ r.channel = org_rule.channel}

off_here(org_rule, event, level) ==
    level = "realm" /\ Overriding(org_rule, event) # {}

override_of(org_rule, event) == First(Overriding(org_rule, event))

overrides(event) ==
    {override_of(o, event) : o \in {o \in covering(rules["org"], event) : off_here(o, event, "realm")}}

ListedOrg(event) == covering(rules["org"], event)

ListedRealm(event, level) ==
    IF level = "realm" THEN covering(rules["realm"], event) \ overrides(event) ELSE {}

live(event, level) ==
    {o \in ListedOrg(event) : ~off_here(o, event, level)} \cup ListedRealm(event, level)

\* A rule sends only when it and its channel are on.
Sends(r) == r.enabled /\ r.channel \notin switched_off

sent(event, level) == \E r \in live(event, level) : Sends(r)

(***************************************************************************)
(* check, with resolve_event: who gets told in the realm.  Every rule of   *)
(* Core's list for the realm is of its tier, those of teams included.      *)
(***************************************************************************)

InPlay == {<<"org", r>> : r \in rules["org"]} \cup {<<"realm", r>> : r \in realm_rules}

\* Mutant: the realm's rules replace the org's.
WinnersOfRealm(event) ==
    LET all == {w \in InPlay : w[2].event \in matching_selectors(event)}
    IN  {w \in all : w[1] = "realm" \/ \A v \in all : v[1] = "org"}

winners(event) == {w \in InPlay : w[2].event \in matching_selectors(event)}

(***************************************************************************)
(* Properties.                                                             *)
(***************************************************************************)

\* Rules are well formed, one for each level, event and channel, each with its
\* number in Core's list; an org rule off in the realm names a rule of the realm
\* that turns it off.
TypeOK ==
    /\ rules \in [Levels -> SUBSET Rule]
    /\ \A l \in Levels : \A r, s \in rules[l] :
           r.event = s.event /\ r.channel = s.channel => r = s
    /\ \A l \in Levels : \A r, s \in ListOf(l) : r.id = s.id => r = s
    /\ switched_off \subseteq Channels
    /\ \A e \in Catalog : overrides(e) \subseteq rules["realm"]

\* What reaches the realm through channel c, whichever team it comes from, were
\* Core asked.
Delivers(event, c) ==
    /\ c \notin switched_off
    /\ \/ \E r \in covering(rules["realm"], event) : r.channel = c /\ r.enabled
       \/ /\ \E r \in covering(rules["org"], event) : r.channel = c /\ r.enabled
          /\ \A r \in covering(rules["realm"], event) : r.channel = c => r.enabled

(***************************************************************************)
(* The Events page of a realm says that an event is sent just when some    *)
(* channel delivers it: the org's rules and the realm's both apply, and a  *)
(* realm rule that is off takes only its own channel from the org's        *)
(* (notification_rules.ts lines 7-8 and 195-199).                          *)
(***************************************************************************)
SentIsDelivered ==
    \A e \in Catalog : sent(e, "realm") <=> \E c \in Channels : Delivers(e, c)

(***************************************************************************)
(* The two pages of a realm agree on an event but for what they say about  *)
(* it: the realm's page hides a broader rule behind the realm's own, and   *)
(* looks neither at channels nor at overridden org rules.                  *)
(***************************************************************************)
StatusExplained ==
    \A e \in Catalog \cap RealmRows :
        LET on == status(e) \in {"default", "both", "realm_only"}
        IN  /\ sent(e, "realm") /\ ~on =>
                   /\ own(e) # {} /\ ~SwitchedOn(own(e))
                   /\ \E r \in covering(rules["realm"], e) \ own(e) : Sends(r)
            /\ on /\ ~sent(e, "realm") =>
                   /\ \A r \in covering(rules["realm"], e) : ~Sends(r)
                   /\ \A o \in covering(rules["org"], e) :
                          Sends(o) => off_here(o, e, "realm")

(***************************************************************************)
(* The check of a realm names a rule that sends whenever the Events page   *)
(* says the event is sent.  If it names one and the page says not sent,    *)
(* that rule is a team's, which only the check takes for the realm's, or   *)
(* the org's, and the check also names the realm's rule that switched it   *)
(* off.  The tiers of what it names decide nothing.                        *)
(***************************************************************************)
CheckAgrees ==
    \A e \in Catalog :
        /\ sent(e, "realm") => \E w \in winners(e) : Sends(w[2])
        /\ ~sent(e, "realm") =>
               \A w \in winners(e) : Sends(w[2]) =>
                   \/ w[1] = "realm" /\ w[2] \in rules["team"] \ rules["realm"]
                   \/ /\ w[1] = "org"
                      /\ \E r \in rules["realm"] :
                             /\ <<"realm", r>> \in winners(e)
                             /\ r.channel = w[2].channel /\ ~r.enabled

(***************************************************************************)
(* No change silences an event in the realm but one that removes a rule,   *)
(* or saves one that is off, or switches a channel off: turning something  *)
(* on never takes a delivery away, although a realm's rules can override   *)
(* the org's, nor does any change to the rules of a team.                  *)
(***************************************************************************)
TurnsOff ==
    \/ \E l \in {"org", "realm"} : \E r \in rules[l] : r \notin rules'[l] /\ r.enabled
    \/ \E r \in rules'["realm"] : r \notin rules["realm"] /\ ~r.enabled
    \/ ~(switched_off' \subseteq switched_off)

SilencedOnlyByTurningOff ==
    [][TurnsOff \/ \A e \in Catalog : sent(e, "realm") => sent(e, "realm")']_vars

(***************************************************************************)
(* "off: this realm's rules for it are all switched off (nothing sends     *)
(* here)" (schemas/notification_center_types.ts).                          *)
(***************************************************************************)
OffSendsNothing ==
    \A e \in Catalog \cap RealmRows : status(e) = "off" => ~sent(e, "realm")
=============================================================================
