------------------------------- MODULE PageReads -------------------------------
(***************************************************************************)
(* The composed pages: one request reads Core several times, some reads    *)
(* need what earlier ones brought, and a page decides read by read what a  *)
(* failure does to its answer.  Reads that go side by side settle in one   *)
(* step: no page looks at which of them came first.  A read made once per  *)
(* org, realm, row or team stands for all of its kind, and fails when one  *)
(* of them does.                                                           *)
(***************************************************************************)
LOCAL INSTANCE TLC

VARIABLES
    reads,      \* the page: for each read what it needs and what its failure does
    pc,
    got,        \* the reads that came back
    failed,     \* those that did not
    partial,    \* whether the answer says that something failed
    unknown     \* what the answer shows as not known

vars == <<reads, pc, got, failed, partial, unknown>>

\* A failed read ends the page; is told (a flag, or the section's status); shows
\* as not known; or is passed over.
Reads(fails, after, names) == [r \in names |-> [fails |-> fails, after |-> after]]
Ends(after, names) == Reads("ends", after, names)
Tells(after, names) == Reads("tells", after, names)
Unknown(after, names) == Reads("unknown", after, names)
Quiet(after, names) == Reads("quiet", after, names)

RealmGate == Ends({}, {"realm"})

-----------------------------------------------------------------------------
\* The user's own pages.

Overview == Ends({}, {"orgs"}) @@ Tells({"orgs"}, {"summary", "realms", "inbox"})

Inbox == Ends({}, {"orgs"}) @@ Tells({"orgs"}, {"notifications"})

GettingStarted ==
    Ends({}, {"orgs"}) @@ Tells({"orgs"}, {"realms", "runs"}) @@ Tells({"realms"}, {"team probes"})

\* One org.

OrgPage == Tells({}, {"invites", "permissions"}) @@ Ends({}, {"org"})

RealmsList == Ends({}, {"realms"}) @@ Unknown({"realms"}, {"missing agents"})

NotificationCenter ==
    Ends({}, {"orgs"}) @@ Tells({"orgs"}, {"org rules", "org channels", "realm page"})
    @@ Quiet({"orgs"}, {"org permissions"}) @@ Quiet({"realm page"}, {"realm admin"})
    @@ Tells({"realm page"}, {"realm rules", "realm channels"})
    @@ Tells({"orgs"}, {"all realms", "event types"}) @@ Tells({"all realms"}, {"other channels"})

NotificationCheck ==
    RealmGate @@ Ends({"realm"}, {"orgs"})
    @@ Tells({"orgs"}, {"org rules", "realm rules", "org channels", "realm channels", "event types"})

\* With a realm the settings are the realm's own; without one they are read for
\* each realm of the org.
AgentList(one) ==
    (IF one THEN RealmGate @@ Ends({"realm"}, {"agents"})
     ELSE Ends({}, {"agents"}) @@ Tells({"realms"}, {"realm settings"}))
    @@ Tells({"agents"}, {"settings", "realms"})

AgentPage(one, every) ==
    (IF one THEN RealmGate @@ Ends({"realm"}, {"details"}) @@ Tells({"details"}, {"realm settings"})
     ELSE Ends({}, {"details"}) @@ IF every THEN Tells({"realms"}, {"realm settings"}) ELSE <<>>)
    @@ Ends({"details"}, {"agents"}) @@ Tells({"details"}, {"realms", "settings"})

\* One realm.

RealmInbox == RealmGate @@ Tells({"realm"}, {"hugs", "awaiting input", "failed", "running"})

RealmRuns ==
    RealmGate @@ Ends({"realm"}, {"page"}) @@ Tells({"realm"}, {"all", "running", "awaiting input", "failed"})
    @@ Quiet({"realm"}, {"open hugs", "daemon names"}) @@ Quiet({"page"}, {"parent names"})

RealmDaemons == RealmGate @@ Ends({"realm"}, {"daemons"}) @@ Tells({"realm"}, {"running", "coverage"})

RealmSettings == RealmGate @@ Tells({"realm"}, {"members", "invites", "tokens"})

\* The whole list makes the tree and the counts; one page of it is read when it
\* is searched, too long or could not be read.
RealmTeams ==
    RealmGate @@ Unknown({"realm"}, {"whole list"}) @@ Ends({"realm"}, {"page"}) @@ Quiet({"page"}, {"latest versions"})

\* The summary calls the pages of its three sections and drops their flags.
RealmSummary ==
    RealmGate @@ Unknown({"realm"}, {"teams", "daemons", "members"}) @@ Unknown({"members"}, {"invites"})
    @@ Quiet({"teams"}, {"descriptions"})

DaemonPage ==
    RealmGate @@ Ends({"realm"}, {"daemon"}) @@ Tells({"realm"}, {"installed", "roster", "workspaces", "runs"})

WorkspacePage == RealmGate @@ Ends({"realm"}, {"workspace"}) @@ Tells({"realm"}, {"runs"})

\* One team.

TeamList ==
    Tells({}, {"realms"}) @@ Tells({"realms"}, {"installs"}) @@ Ends({}, {"mine"}) @@ Ends({"mine"}, {"org teams"})
    @@ Quiet({"org teams"}, {"team details"}) @@ Unknown({"org teams"}, {"phases"})

TeamHeader == Ends({}, {"team"}) @@ Unknown({"team"}, {"runs total"})

\* Mutant: files that cannot be read show as none.
TeamOverviewQuietFiles ==
    TeamHeader @@ Tells({"team"}, {"sub-teams", "realms"}) @@ Tells({"realms"}, {"installs"})
    @@ Quiet({"team"}, {"realm tree", "files"})

TeamOverview ==
    TeamHeader @@ Tells({"team"}, {"sub-teams", "realms", "files"}) @@ Tells({"realms"}, {"installs"})
    @@ Quiet({"team"}, {"realm tree"})

TeamWorkflow ==
    TeamHeader @@ Tells({"team"}, {"sub-teams", "recent runs"}) @@ Quiet({"team"}, {"realm names", "overlay run"})
    @@ Quiet({"overlay run"}, {"overlay phases", "overlay workflow"})

TeamFiles == TeamHeader @@ Tells({"team"}, {"files"})

TeamRuns ==
    TeamHeader @@ Ends({"team"}, {"page"}) @@ Tells({"team"}, {"realms", "all", "running", "awaiting input", "failed"})

TeamInstalls == TeamHeader @@ Ends({"team"}, {"realms"}) @@ Tells({"realms"}, {"installs"})

TeamVersions == TeamHeader @@ Tells({"team"}, {"comparison"})

\* One run.

\* A run outside a realm has fewer sections; the history comes with the run.
RunDetail(placed) ==
    Ends({}, {"run"}) @@ Tells({"run"}, {"phases", "artifacts", "children", "parent"})
    @@ (IF placed THEN Tells({"run"}, {"labels", "realm", "hugs"}) ELSE <<>>)
    @@ Unknown({"artifacts"}, {"full outputs"}) @@ Quiet({"parent"}, {"ancestors"})
    @@ Quiet({"phases", "children"}, {"failed sub-runs", "failed review"})

RunTelemetry ==
    Ends({}, {"run"}) @@ Ends({"run"}, {"realm"}) @@ Tells({"realm"}, {"usage", "spans", "phases", "workflow"})
    @@ Quiet({"realm"}, {"sub-runs"})

\* The run beside a Hug: its workflow as far as it can be read.
WorkflowSummary ==
    Unknown({"hug"}, {"run"}) @@ Unknown({"run"}, {"realm"}) @@ Quiet({"realm"}, {"phases", "workflow"})

HugPage == Ends({}, {"hug"}) @@ WorkflowSummary

\* The site admin's pages; a Core older than version 3 is asked less.

NewCounts ==
    {"suspended", "admins", "realms", "daemons online", "daemons", "daemons offline", "runs", "failed runs"}

AdminHome(v3) == Tells({}, {"accounts", "orgs", "audit", "listed teams"} \cup (IF v3 THEN NewCounts ELSE {}))

\* The chips of each list with a count of their own.
Chips == [accounts |-> {"all", "admins", "suspended"}, daemons |-> {"all", "online", "stale", "offline"},
          runs |-> {"all", "running", "awaiting input", "failed", "completed"}, teams |-> {"listed", "unlisted"},
          audit |-> {}, realms |-> {}, workspaces |-> {}, logs |-> {}, scopes |-> {}]

\* Before version 3, accounts have no chips.
AdminList(kind, v3) == Ends({}, {"rows"}) @@ Unknown({}, IF kind = "accounts" /\ ~v3 THEN {} ELSE Chips[kind])

Pages ==
    {Overview, Inbox, GettingStarted, OrgPage, RealmsList, NotificationCenter, NotificationCheck, RealmInbox, RealmRuns,
     RealmDaemons, RealmSettings, RealmTeams, RealmSummary, DaemonPage, WorkspacePage, TeamList, TeamOverview,
     TeamWorkflow, TeamFiles, TeamRuns, TeamInstalls, TeamVersions, RunTelemetry, HugPage}
    \cup {AgentList(one) : one \in BOOLEAN} \cup {AgentPage(one, every) : one, every \in BOOLEAN}
    \cup {RunDetail(placed) : placed \in BOOLEAN} \cup {AdminHome(v3) : v3 \in BOOLEAN}
    \cup {AdminList(kind, v3) : kind \in DOMAIN Chips, v3 \in BOOLEAN}

-----------------------------------------------------------------------------
TypeOK ==
    /\ reads \in Pages /\ pc \in {"reading", "answered", "error"}
    /\ got \cup failed \subseteq DOMAIN reads /\ got \cap failed = {}
    /\ partial \in BOOLEAN /\ unknown \subseteq DOMAIN reads

Init == reads \in Pages /\ pc = "reading" /\ got = {} /\ failed = {} /\ partial = FALSE /\ unknown = {}

\* What can be asked now: all a read needs is there.
Ready == {r \in DOMAIN reads \ (got \cup failed) : reads[r].after \subseteq got}

\* One wave of reads.
Read ==
    /\ pc = "reading" /\ Ready # {}
    /\ \E broken \in SUBSET Ready :
         /\ failed' = failed \cup broken /\ got' = got \cup (Ready \ broken)
         /\ pc' = IF \E r \in broken : reads[r].fails = "ends" THEN "error" ELSE pc
    /\ UNCHANGED <<reads, partial, unknown>>

Answer ==
    /\ pc = "reading" /\ Ready = {}
    /\ pc' = "answered"
    /\ partial' = \E r \in failed : reads[r].fails = "tells"
    /\ unknown' = {r \in DOMAIN reads \ got : reads[r].fails = "unknown"}
    /\ UNCHANGED <<reads, got, failed>>

Next == Read \/ Answer

Spec == Init /\ [][Next]_vars

-----------------------------------------------------------------------------
\* What decorates a row or repeats what the page shows otherwise.
Decorations ==
    {"org permissions", "realm admin", "open hugs", "daemon names", "parent names", "latest versions", "descriptions",
     "team details", "realm tree", "realm names", "overlay run", "overlay phases", "overlay workflow", "ancestors",
     "failed sub-runs", "failed review"}

\* What a page may not do without.
Subjects ==
    {"realm", "orgs", "org", "realms", "agents", "details", "page", "daemons", "daemon", "workspace", "mine", "org teams",
     "team", "run", "hug", "rows"}

Shown(r) == r \in got \/ r \in unknown \/ (partial /\ r \in failed /\ reads[r].fails = "tells")

\* An answered page never passes a failure off as emptiness: what is missing is
\* told or shown as not known, or it was not asked for because of a read that
\* is, decorations aside; a page gives up only over its own subject, and one
\* that is not partial and knows everything lacks at most decorations (the page
\* services).  The sub-runs of a run's telemetry and the parts of a Hug's run
\* are the exceptions: they go missing without a word.
FailedReadIsTold ==
    LET silent == Decorations \cup (IF reads = RunTelemetry THEN {"sub-runs"} ELSE IF reads = HugPage THEN {"phases", "workflow"} ELSE {})
    IN  /\ pc = "answered" => \A r \in DOMAIN reads \ silent :
             Shown(r) \/ \E needed \in reads[r].after \ silent : needed \notin got
        /\ pc = "error" => failed \cap Subjects # {}
=============================================================================
