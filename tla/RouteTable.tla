------------------------------ MODULE RouteTable ------------------------------
(***************************************************************************)
(* The routes of the BFF, twice: the credential rule of each, from         *)
(* routes/route_auth.ts, and what its handler really takes, from the       *)
(* controllers.  Two files that know nothing of each other must agree.     *)
(* A route is named by its path after /v1; the forwarded paths of          *)
(* passthrough_paths.ts, all alike, are represented by two.                *)
(***************************************************************************)

\* Tables of which no two have a route in common, as one.
Together(tables) ==
    [r \in UNION {DOMAIN t : t \in tables} |-> (CHOOSE t \in tables : r \in DOMAIN t)[r]]

\* A rule for every body.
For(routes, rule) == [r \in routes |-> [told |-> rule, plain |-> rule]]

(* Routes and rules *)

PASSTHROUGH_PATHS == Together({
    For({"realms/create", "runs/claim"}, "token"), For({"settings/set", "settings/remove"}, "site_admin")})

PublicRoutes == {
    "bff-health", "a2a/card", "a2a/send", "session/create", "session/delete", "auth/signup",
    "teams/get", "teams/get_by_id", "teams/get_versions", "teams/get_phases", "teams/build",
    "invitations/get_by_token", "invitations/accept"}

TokenRoutes == {
    "auth/generate_token", "auth/get_tokens", "auth/revoke_token", "auth/rotate_token",
    "auth/get_dispatch_public_key", "auth/rotate_dispatch_key", "realms/add_team", "runs/enqueue",
    "realms/get", "teams/download", "notification_channels/update", "runs/stream",
    "artifacts/upload", "teams/files/upload", "GET artifacts/download", "artifacts/download"}

SessionRoutes == {
    "session/get", "session/update", "teams/create", "teams/update", "teams/publish",
    "teams/unpublish", "teams/delete", "orgs/get", "orgs/get_by_id", "orgs/update", "orgs/leave",
    "orgs/remove_member", "orgs/list_roles", "orgs/get_role", "orgs/create_role",
    "orgs/update_role", "orgs/delete_role", "orgs/new_scope", "orgs/update_scope",
    "orgs/delete_scope", "orgs/assign_scope_member", "orgs/unassign_scope_member",
    "orgs/get_scopes", "invitations/create", "invitations/get", "invitations/get_by_id",
    "invitations/revoke", "users/update_profile", "users/update_role", "users/get",
    "users/get_by_id", "users/update", "overview/get", "getting_started/get", "inbox/get",
    "notification_center/get", "notification_center/check", "notification_center/set_rules",
    "org_page/get", "realm_inbox/get", "realm_runs/get", "realm_teams/get", "realm_daemons/get",
    "realm_settings/get", "run_detail/get", "run_telemetry/get", "daemon_page/get",
    "workspace_page/get", "team_list/get", "team_page/get", "agent_list/get", "agent_page/get",
    "hug_page/get"}

AdminRoutes == {
    "orgs/new", "orgs/delete", "users/new", "users/suspend", "users/unsuspend", "users/delete",
    "users/set_role", "reports/audit", "admin_home/get", "admin_list/get"}

\* One route, two bodies: public when the body tells its field.
BodyRoutes == [r \in {"users/change_password", "users/reset_password"} |->
    [told |-> "public", plain |-> IF r = "users/change_password" THEN "session" ELSE "site_admin"]]

\* Mutant: creating a team is open to any token, a daemon's too.
ROUTE_AUTH_Moved == Together({
    For(PublicRoutes, "public"), For(TokenRoutes \cup {"teams/create"}, "token"),
    For(SessionRoutes \ {"teams/create"}, "session"), For(AdminRoutes, "site_admin"), BodyRoutes, PASSTHROUGH_PATHS})

ROUTE_AUTH == Together({
    For(PublicRoutes, "public"), For(TokenRoutes, "token"), For(SessionRoutes, "session"),
    For(AdminRoutes, "site_admin"), BodyRoutes, PASSTHROUGH_PATHS})

(* Handlers: the credential each takes, and how it asks Core.             *)
(*   session   this.session(req).target_token, 401 without a session      *)
(*   bearer    checked_token: the bearer, else the session's; 500 without *)
(*   optional  session_data?.target_token, or none                        *)
(*   forward   forward_token: the bearer, else the session's, or none     *)
(*   header    the Authorization header as it came                        *)
(*   none      no credential                                              *)

Takes(cred, via) == [cred |-> cred, via |-> via]

Handler(routes, cred, via) == For(routes, Takes(cred, via))

Signed(routes) == Handler(routes, "session", "post")

HealthController == Handler({"bff-health"}, "none", "nothing")
A2aController == Together({
    Handler({"a2a/card"}, "none", "get_json"), Handler({"a2a/send"}, "header", "relay")})
AuthController == Handler({"auth/signup"}, "none", "post")
SessionController == Together({
    Signed({"session/get", "session/update"}), Handler({"session/create"}, "none", "post"),
    Handler({"session/delete"}, "optional", "post")})
TokensController == Handler(
    {"auth/generate_token", "auth/get_tokens", "auth/revoke_token", "auth/rotate_token"}, "bearer", "post")
DispatchKeyController == Handler({"auth/get_dispatch_public_key", "auth/rotate_dispatch_key"}, "bearer", "post")
TeamsController == Together({
    Handler({"teams/get", "teams/get_by_id", "teams/get_versions", "teams/get_phases", "teams/build"}, "optional", "post"),
    Signed({"teams/create", "teams/update", "teams/publish", "teams/unpublish", "teams/delete"}),
    Handler({"teams/download"}, "bearer", "post")})
RealmsListController == Handler({"realms/get"}, "bearer", "post_body")
\* realm_ids: installed by the BFF for a signed-in user; otherwise forwarded.
TeamInstallController ==
    [r \in {"realms/add_team"} |-> [told |-> Takes("session", "post"), plain |-> Takes("bearer", "post_body")]]
OrgsController == Signed(
    {"orgs/get", "orgs/new", "orgs/delete", "orgs/get_by_id", "orgs/update", "orgs/leave",
     "orgs/remove_member", "orgs/list_roles", "orgs/get_role", "orgs/create_role"})
OrgsControllerScopes == Signed(
    {"orgs/update_role", "orgs/delete_role", "orgs/new_scope", "orgs/update_scope", "orgs/delete_scope",
     "orgs/assign_scope_member", "orgs/unassign_scope_member", "orgs/get_scopes"})
InvitationsController == Together({
    Signed({"invitations/create", "invitations/get", "invitations/get_by_id", "invitations/revoke"}),
    Handler({"invitations/get_by_token", "invitations/accept"}, "optional", "post")})
UsersController == Signed(
    {"users/get", "users/get_by_id", "users/new", "users/update", "users/suspend",
     "users/unsuspend", "users/delete", "users/set_role"})
\* A reset link's request and its use are public; the same routes signed in are not.
UsersControllerLinks == Together({
    Signed({"users/update_role", "users/update_profile"}),
    [r \in {"users/reset_password", "users/change_password"} |-> [told |-> Takes("none", "post"), plain |-> Takes("session", "post")]]})
ReportsController == Signed({"reports/audit"})
OverviewController == Signed({"overview/get"})
GettingStartedController == Signed({"getting_started/get"})
InboxController == Signed({"inbox/get"})
\* add_destinations, remove_destination: the BFF's own; otherwise forwarded.
NotificationCenterController == Together({
    Signed({"notification_center/get", "notification_center/check", "notification_center/set_rules"}),
    [r \in {"notification_channels/update"} |-> [told |-> Takes("session", "post"), plain |-> Takes("bearer", "post_body")]]})
OrgPageController == Signed({"org_page/get"})
RealmInboxController == Signed({"realm_inbox/get"})
RealmRunsController == Signed({"realm_runs/get"})
RealmTeamsController == Signed({"realm_teams/get"})
RealmDaemonsController == Signed({"realm_daemons/get"})
RealmSettingsController == Signed({"realm_settings/get"})
RunDetailController == Signed({"run_detail/get"})
RunTelemetryController == Signed({"run_telemetry/get"})
DaemonPageController == Signed({"daemon_page/get"})
WorkspacePageController == Signed({"workspace_page/get"})
TeamListController == Signed({"team_list/get"})
TeamPageController == Signed({"team_page/get"})
AgentListController == Signed({"agent_list/get"})
AgentPageController == Signed({"agent_page/get"})
HugPageController == Signed({"hug_page/get"})
AdminHomeController == Signed({"admin_home/get"})
AdminListController == Signed({"admin_list/get"})
RunEnqueueController == Handler({"runs/enqueue"}, "bearer", "post_body")
PassthroughController == Handler(DOMAIN PASSTHROUGH_PATHS, "bearer", "post_body")
StreamsController == Handler({"runs/stream"}, "forward", "stream")
ArtifactFilesController == Handler(
    {"artifacts/upload", "teams/files/upload", "GET artifacts/download", "artifacts/download"}, "bearer", "relay")

(* Mounting: each file of routes/ gives every handler of its controllers a path. *)

register_health_routes == HealthController
register_a2a_routes == A2aController
register_auth_routes == Together({SessionController, AuthController, TokensController, DispatchKeyController})
register_teams_routes == Together({TeamsController, TeamInstallController, RealmsListController})
register_orgs_routes == Together({OrgsController, OrgsControllerScopes})
register_invitations_routes == InvitationsController
register_users_routes == Together({UsersController, UsersControllerLinks})
register_reports_routes == ReportsController
register_pages_routes == Together({
    OverviewController, GettingStartedController, InboxController, NotificationCenterController,
    OrgPageController, RealmInboxController, RunDetailController, RealmRunsController, RealmTeamsController,
    RealmDaemonsController, RealmSettingsController, RunTelemetryController, DaemonPageController,
    WorkspacePageController, TeamListController, TeamPageController, AgentListController, AgentPageController,
    HugPageController, AdminHomeController, AdminListController})
register_runs_routes == RunEnqueueController
register_passthrough_routes == Together({PassthroughController, StreamsController, ArtifactFilesController})

register_routes == Together({
    register_health_routes, register_a2a_routes, register_auth_routes, register_teams_routes,
    register_orgs_routes, register_invitations_routes, register_users_routes, register_reports_routes,
    register_pages_routes, register_runs_routes, register_passthrough_routes})

\* Routes served without a line in the table, which keep the BFF from starting.
check_route_auth == DOMAIN register_routes \ DOMAIN ROUTE_AUTH

\* Routes asked for with GET; all others with POST.
GetRoutes == {"bff-health", "a2a/card", "runs/stream", "GET artifacts/download"}

\* Routes a limiter answers before the handler is through: the builder, and the
\* request for a reset link.
Limited(route, told) == route = "teams/build" \/ (route = "users/reset_password" /\ told = "told")

\* Handlers that check what they are sent; the others forward it or take nothing.
Parses(route, told) ==
    /\ register_routes[route][told].via \in {"post", "stream"}
    /\ route \notin {"session/get", "session/delete"}

Uploads == {"artifacts/upload", "teams/files/upload"}
=============================================================================
