----------------------------- MODULE TeamInstall -----------------------------
(***************************************************************************)
(* Installing a team into realms of one org: every realm is judged from    *)
(* what the BFF can read of the viewer's standing, any refusal stops the   *)
(* whole request, then Core is asked realm by realm                        *)
(* (services/team_install_service.ts).                                     *)
(***************************************************************************)
EXTENDS Naturals, Sequences

CONSTANT Realms     \* the realms of the request, in order, each once

VARIABLES
    site_admin,     \* whether the viewer is a site admin
    role,           \* the viewer's role in the org
    carried,        \* whether the org has the team on its list or owns its scope
    rank,           \* the viewer's place in each realm
    unread,         \* the reads of the org that failed
    pc,
    refused,        \* the realms the pre-flight refuses, or "unjudged"
    denied,         \* whether Core would refuse the realm as it stood then
    asked,          \* how many realms Core was asked to add the team to
    told,           \* what is told of each realm
    added           \* the realms Core added the team to

vars == <<site_admin, role, carried, rank, unread, pc, refused, denied, asked, told, added>>
Standing == <<site_admin, role, carried, rank>>

Places == DOMAIN Realms

\* The viewer in the realm's org: its system role, one called admin, three
\* others, a member without a role, and not of the org (or a realm of no org).
Roles == {"system", "admin", "manager", "adder", "plain", "unassigned", "guest"}
Outside == {"unassigned", "guest"}
OrgAdmin == {"system", "admin"}
ManagesRealmTeams == {"system", "manager", "adder"}
AddsOrgTeams == {"system", "adder"}

Ranks == {"owner", "operator", "member", "none", "hidden"}

TypeOK ==
    /\ role \in Roles /\ rank \in [Places -> Ranks]
    /\ unread \subseteq {"orgs", "detail", "teams"}
    /\ pc \in {"reading", "judging", "installing", "blocked", "installed", "incomplete", "failed"}
    /\ refused \in [Places -> {"unjudged", "yes", "no"}]
    /\ asked \in 0..Len(Realms)
    /\ told \in [Places -> {"nothing", "installed", "failed", "lost"}]
    /\ added \subseteq Places

Init ==
    /\ site_admin \in BOOLEAN /\ role \in Roles /\ carried \in BOOLEAN
    /\ rank \in [Places -> Ranks]
    /\ unread = {} /\ pc = "reading"
    /\ refused = [p \in Places |-> "unjudged"]
    /\ denied = [p \in Places |-> FALSE]
    /\ asked = 0 /\ told = [p \in Places |-> "nothing"] /\ added = {}

\* The team, the viewer's orgs and the org's detail and teams; only the first
\* must succeed.
ReadOrg ==
    /\ pc = "reading" /\ pc' = "judging"
    /\ unread' \in {{}, {"orgs"}, {"detail"}, {"teams"}, {"detail", "teams"}}
    /\ UNCHANGED <<Standing, refused, denied, asked, told, added>>

ReadTeamFails ==
    /\ pc = "reading" /\ pc' = "failed"
    /\ UNCHANGED <<Standing, unread, refused, denied, asked, told, added>>

\* Mutant: an org whose detail is not read counts as none.
KnownOrgDetail(missing) == IF "orgs" \in missing \/ "detail" \in missing THEN "guest" ELSE role

\* The viewer's role as far as the BFF knows: an org it did not find is none.
KnownRole(missing) == IF "orgs" \in missing THEN "guest" ELSE role

\* What is left to Core: a site admin, and what could not be read.
Undecided(p, missing) ==
    \/ site_admin
    \/ "realm" \in missing
    \/ KnownRole(missing) # "guest" /\ "detail" \in missing
    \/ KnownRole(missing) \notin OrgAdmin /\ rank[p] # "owner" /\ "members" \in missing

\* Why the viewer may not install in the realm, from what was read.
Obstacles(p, missing) ==
    LET known == KnownRole(missing) IN
    {reason \in {"not_a_member", "level_too_low", "missing_permission", "team_not_in_org"} :
        CASE reason = "not_a_member" -> known \notin OrgAdmin /\ rank[p] = "none"
          [] reason = "level_too_low" -> known \notin OrgAdmin /\ rank[p] = "member"
          [] reason = "missing_permission" -> known \notin Outside /\ known \notin ManagesRealmTeams
          [] OTHER -> known # "guest" /\ "teams" \notin missing /\ ~carried /\ known \notin AddsOrgTeams}

\* A realm the viewer cannot see is refused whoever asks.
_preflight(p, missing) ==
    IF rank[p] = "hidden" THEN "realm" \notin missing
    ELSE ~Undecided(p, missing) /\ Obstacles(p, missing) # {}

\* The realms are judged side by side; denied keeps what the same rules make of
\* a realm when every read succeeds.
Preflight(p) ==
    /\ pc = "judging" /\ refused[p] = "unjudged"
    /\ \E missing \in SUBSET {"realm", "members"} :
         refused' = [refused EXCEPT ![p] = IF _preflight(p, missing \cup unread) THEN "yes" ELSE "no"]
    /\ denied' = [denied EXCEPT ![p] = _preflight(p, {})]
    /\ UNCHANGED <<Standing, unread, pc, asked, told, added>>

Judge ==
    /\ pc = "judging" /\ \A p \in Places : refused[p] # "unjudged"
    /\ pc' = IF \E p \in Places : refused[p] = "yes" THEN "blocked" ELSE "installing"
    /\ UNCHANGED <<Standing, unread, refused, denied, asked, told, added>>

\* Core's answer for one realm; its own view of the viewer may have changed, and
\* a reply that is lost says nothing of what Core did.
AddTeam ==
    /\ pc = "installing" /\ asked < Len(Realms)
    /\ asked' = asked + 1
    /\ \/ told' = [told EXCEPT ![asked + 1] = "installed"] /\ added' = added \cup {asked + 1}
       \/ told' = [told EXCEPT ![asked + 1] = "failed"] /\ UNCHANGED added
       \/ told' = [told EXCEPT ![asked + 1] = "lost"] /\ added' \in {added, added \cup {asked + 1}}
    /\ UNCHANGED <<Standing, unread, pc, refused, denied>>

Install ==
    /\ pc = "installing" /\ asked = Len(Realms)
    /\ pc' = IF \E p \in Places : told[p] \in {"failed", "lost"} THEN "incomplete" ELSE "installed"
    /\ UNCHANGED <<Standing, unread, refused, denied, asked, told, added>>

Next ==
    \/ ReadOrg \/ ReadTeamFails \/ Judge \/ AddTeam \/ Install
    \/ \E p \in Places : Preflight(p)

Spec == Init /\ [][Next]_vars

-----------------------------------------------------------------------------
\* A blocked request has added the team nowhere; a finished one tells of each
\* realm whether Core added it, and only a lost reply leaves that open; and no
\* realm that Core would take is refused, whichever reads failed, as long as
\* the viewer's orgs were read (install, _preflight).
ReportIsCore ==
    /\ pc = "blocked" => added = {}
    /\ pc \in {"installed", "incomplete"} => \A p \in Places :
         /\ told[p] # "nothing"
         /\ told[p] = "installed" => p \in added
         /\ told[p] = "failed" => p \notin added
    /\ pc = "installed" => added = Places
    /\ "orgs" \notin unread => \A p \in Places : refused[p] = "yes" => denied[p]

\* What could not be read never blocks: a realm is refused only for what Core
\* said of the viewer ("Unknown org standing (a read failed): Core decides").
UnreadNeverBlocks == \A p \in Places : refused[p] = "yes" => denied[p]
=============================================================================
