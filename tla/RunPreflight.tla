------------------------------ MODULE RunPreflight ------------------------------
(***************************************************************************)
(* services/run_preflight_service.ts: before a run is queued, whether the  *)
(* agents its team uses have the settings they require in the realm.  The  *)
(* answer is about the teams and settings as they are: nobody changes them *)
(* during the check.                                                       *)
(***************************************************************************)
EXTENDS SubTeams

CONSTANTS
    Root,           \* the team that is to run
    Workflows,      \* what the phases of Root and of each reference may hold
    Agents,
    AgentUses       \* which agents their phases and their support steps may use

VARIABLES
    agents,         \* those that the steps of each team use
    missing,        \* those whose row of the realm's settings lacks one they require
    check,          \* where the check is
    skipped,        \* whether it passed because it could not be made
    refused         \* the agents a refusal names

vars == <<walk, agents, missing, check, skipped, refused>>

TypeOK ==
    /\ calls \in Workflows /\ agents \in AgentUses /\ missing \subseteq Agents
    /\ WalkTypeOK
    /\ check \in {"begun", "walking", "settings", "passed", "refused"}
    /\ skipped \in BOOLEAN
    /\ refused \subseteq missing /\ (check = "refused" <=> refused # {})

Init ==
    /\ calls \in Workflows /\ agents \in AgentUses /\ missing \in SUBSET Agents
    /\ NotBegun /\ level = {}
    /\ check = "begun" /\ skipped = FALSE /\ refused = {}

\* The request names no realm or no team by scope and name, the viewer is not in
\* the realm's org, or one of the reads but those of sub-teams fails: Core decides.
Skip ==
    /\ check \in {"begun", "settings"}
    /\ check' = "passed" /\ skipped' = TRUE
    /\ UNCHANGED <<walk, agents, missing, refused>>

\* The realm, the viewer's orgs and the team are read.
Begin ==
    /\ check = "begun"
    /\ check' = "walking" /\ level' = calls[Root]
    /\ UNCHANGED <<calls, map, failed, read_count, agents, missing, skipped, refused>>

sub_teams ==
    /\ check = "walking" /\ ReadLevel
    /\ UNCHANGED <<agents, missing, check, skipped, refused>>

\* Mutant: the support steps of the team are forgotten.
UsedByPhases == UNION {agents[team].phases : team \in {Root} \cup map}

\* The agents of the team's steps and support steps and of the phases of the
\* sub-teams that could be read.
used == agents[Root].support \cup UNION {agents[team].phases : team \in {Root} \cup map}

agents_of ==
    /\ check = "walking" /\ WalkEnded
    /\ check' = IF used = {} THEN "passed" ELSE "settings"
    /\ UNCHANGED <<walk, agents, missing, skipped, refused>>

\* The settings are read.  An agent without a row lacks nothing.
missing_settings ==
    /\ check = "settings"
    /\ refused' = used \cap missing
    /\ check' = IF refused' = {} THEN "passed" ELSE "refused"
    /\ UNCHANGED <<walk, agents, missing, skipped>>

Next == Skip \/ Begin \/ sub_teams \/ agents_of \/ missing_settings

Spec == Init /\ [][Next]_vars

-----------------------------------------------------------------------------
\* The team and the sub-teams that its phases lead to.
Led == {Root} \cup (LedTo(calls[Root]) \cap Named)

Used == agents[Root].support \cup UNION {agents[team].phases : team \in Led}

\* A run is refused only for agents that lack a setting and that are used by a
\* step of its team or by a phase of a sub-team its phases lead to, at any depth;
\* and it passes with such an agent only when the check could not be made, a
\* sub-team could not be read or the cap was reached, however the calls run in
\* circles and whatever of them names no team (RunPreflightService.check,
\* sub_teams).
RefusesOnlyMissing ==
    /\ check = "refused" => refused # {} /\ refused \subseteq Used \cap missing
    /\ check = "passed" /\ ~skipped /\ ~failed /\ read_count < SUB_TEAM_CAP => Used \cap missing = {}

\* "does every agent the team uses (its own steps, support steps and every
\* sub-team's, at any depth) have its required settings in that realm?" (the
\* header of run_preflight_service.ts), where everything could be read.
EveryAgentIsChecked ==
    check = "passed" /\ ~skipped /\ ~failed /\ read_count < SUB_TEAM_CAP =>
        \A team \in Led : (agents[team].phases \cup agents[team].support) \cap missing = {}
=================================================================================
