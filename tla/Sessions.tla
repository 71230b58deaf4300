------------------------------ MODULE Sessions ------------------------------
(***************************************************************************)
(* BFF sessions: SessionService (services/session_service.ts) over the     *)
(* session table (repositories/session_store.ts), Core's PATs, and the     *)
(* user operations that end sessions (services/users_service.ts).          *)
(*                                                                         *)
(* A session row holds two tokens.  user_token is the PAT of the person    *)
(* who signed in, target_token the PAT of the user the session acts as:    *)
(* it is the bearer sent to Core.  Every await of a handler is a point     *)
(* where other requests run, so a handler is a sequence of steps, one per  *)
(* call to Core or to the table, over the row it read when it began.       *)
(* Each r in Requests is one request: it runs once and its last state      *)
(* stays, so an invariant can say which request explains a row.            *)
(*                                                                         *)
(* Time is left to SessionLifetime.tla: here a row may lapse (expire, go   *)
(* idle, be pruned) at any moment.                                         *)
(***************************************************************************)
EXTENDS Naturals, FiniteSets

CONSTANTS
    Users,
    Admins,        \* the users whose hub-wide role is admin
    Tokens,        \* PATs Core can mint, numbered
    Sids,          \* random session ids (the cookie values)
    Requests,
    Ops,           \* the operations clients ask for, among AllOps
    Faults,        \* what may go wrong, among AllFaults
    MaxConcurrent, \* how many requests may be in flight at once
    None

SignInOps == {"password", "signup", "invite"}
SessionOps == {"read", "enter", "exit", "signout"}
EndOps == {"suspend", "reset"}
AccountOps == {"change_password", "revoke_token"}
AllOps == SignInOps \cup SessionOps \cup EndOps \cup AccountOps

\* The operations that take a session cookie.
CookieRoutes == SessionOps \cup {"change_password"}

\* "core": a call to Core fails; "store": a session table statement fails;
\* "lapse": a row expires or goes idle.
AllFaults == {"core", "store", "lapse"}

Roles == {"admin", "user"}
RoleOf(u) == IF u \in Admins THEN "admin" ELSE "user"

(***************************************************************************)
(* Whose data the row shows: email, access for the scope slugs (None: the  *)
(* empty list), role for the role the site_admin routes test.  username    *)
(* always changes with act_as, org_slugs with one of these.                *)
(***************************************************************************)
Identity == [email : Users, access : Users \cup {None}, role : Roles]

\* realm is whose default realm the SPA redirects to.
Row == [user : Users, act_as : Users, user_token : Tokens, target_token : Tokens,
        actor_role : Roles, actor_realm : Users \cup {None},
        realm : Users \cup {None}, identity : Identity]

PCs == {"new", "identify", "persist",
        "issue", "revoke_previous", "read_target", "write_act_as",
        "revoke_act_as", "read_actor", "restore",
        "revoke_user", "revoke_target", "destroy", "change_password",
        "end_sessions", "sign_in", "done", "failed"}

(***************************************************************************)
(* One request: snap is the row session_auth read (req.session_data),      *)
(* user the user signing in, acted as or ended, token the PAT Core minted  *)
(* for this request, seen the identity its handler has put together,       *)
(* revoked the PAT its client named to auth/revoke_token.                  *)
(***************************************************************************)
Request == [pc : PCs, op : AllOps \cup {None}, user : Users \cup {None},
            sid : Sids \cup {None}, snap : Row \cup {None},
            token : Tokens \cup {None}, seen : Identity \cup {None},
            revoked : Tokens \cup {None}]

ASSUME SessionsAssumption ==
    /\ Admins \subseteq Users
    /\ Ops \subseteq AllOps
    /\ Faults \subseteq AllFaults
    /\ MaxConcurrent \in Nat
    /\ Tokens \subseteq Nat
    /\ None \notin Users /\ None \notin Tokens /\ None \notin Sids
    /\ None \notin AllOps /\ None \notin Row /\ None \notin Identity
    /\ None \notin [actor : Users, as : Users]

VARIABLES
    owner, \* Core: the user of each PAT, None while not minted
    live,  \* Core: the PATs that are not revoked
    rows,  \* bff.sessions: the row of each session id, None when there is none
    ids,   \* the session ids ever handed out
    req    \* the requests

vars == <<owner, live, rows, ids, req>>

NewRequest == [pc |-> "new", op |-> None, user |-> None, sid |-> None,
               snap |-> None, token |-> None, seen |-> None, revoked |-> None]

Init ==
    /\ owner = [t \in Tokens |-> None]
    /\ live = {}
    /\ rows = [s \in Sids |-> None]
    /\ ids = {}
    /\ req = [r \in Requests |-> NewRequest]

(***************************************************************************)
(* Core and the request slots.                                             *)
(***************************************************************************)
CoreMayFail == "core" \in Faults
StoreMayFail == "store" \in Faults

InFlight == {r \in Requests : req[r].pc \notin {"new", "done", "failed"}}

\* A client sends request r asking for op.
Arrives(r, op) ==
    /\ req[r].pc = "new"
    /\ op \in Ops
    /\ Cardinality(InFlight) < MaxConcurrent

\* users/suspend or users/delete has been applied to u in Core.
Suspended(u) == \E r \in Requests : req[r].op = "suspend" /\ req[r].user = u

GoTo(r, pc) == req' = [req EXCEPT ![r].pc = pc]

\* Request r goes on, having read what identity to show.
Learn(r, pc, seen) == req' = [req EXCEPT ![r] = [@ EXCEPT !.pc = pc, !.seen = seen]]

\* Core mints PAT t for user u.  PATs are only ever compared for equality, so
\* numbering them in the order of minting loses nothing.
Mint(t, u) ==
    /\ owner[t] = None
    /\ \A x \in Tokens : owner[x] = None => t <= x
    /\ owner' = [owner EXCEPT ![t] = u]
    /\ live' = live \cup {t}

\* _safe_revoke: a failure is logged and ignored.
Revoke(t) == live' = live \ {t} \/ (CoreMayFail /\ live' = live)

(***************************************************************************)
(* Signing in.                                                             *)
(***************************************************************************)
IdentityOf(u) == [email |-> u, access |-> u, role |-> RoleOf(u)]

\* Password sign-in, also the last step of setting a password from a link.
Authenticate(r, u, t) ==
    /\ \/ Arrives(r, "password")
       \/ req[r].pc = "sign_in" /\ u = req[r].user
    /\ ~Suspended(u)
    /\ Mint(t, u)
    /\ req' = [req EXCEPT ![r] = [@ EXCEPT
           !.pc = "persist", !.user = u, !.token = t, !.seen = IdentityOf(u),
           !.op = IF req[r].pc = "new" THEN "password" ELSE req[r].op]]
    /\ UNCHANGED <<rows, ids>>

\* The sign-in after a link reset is best effort.
SignInFails(r) ==
    /\ req[r].pc = "sign_in"
    /\ CoreMayFail \/ Suspended(req[r].user)
    /\ GoTo(r, "done")
    /\ UNCHANGED <<owner, live, rows, ids>>

\* Core creates an account (sign-up) or accepts an invite: both answer a PAT.
Join(r, u, t, op) ==
    /\ op \in {"signup", "invite"}
    /\ Arrives(r, op)
    /\ \A x \in Tokens : owner[x] # u
    /\ Mint(t, u)
    /\ req' = [req EXCEPT ![r] = [@ EXCEPT
           !.pc = "identify", !.op = op, !.user = u, !.token = t]]
    /\ UNCHANGED <<rows, ids>>

Identify(r) ==
    /\ req[r].pc = "identify"
    /\ req[r].token \in live
    /\ Learn(r, "persist", IdentityOf(req[r].user))
    /\ UNCHANGED <<owner, live, rows, ids>>

\* A sign-up goes on with empty scopes; an accepted invite answers an error.
IdentifyFails(r) ==
    /\ req[r].pc = "identify"
    /\ CoreMayFail \/ req[r].token \notin live
    /\ \/ /\ req[r].op = "signup"
          /\ Learn(r, "persist", [IdentityOf(req[r].user) EXCEPT !.access = None])
       \/ /\ req[r].op = "invite"
          /\ GoTo(r, "failed")
    /\ UNCHANGED <<owner, live, rows, ids>>

\* Only the sign-in and sign-up replies name the account's default realm.
LoginRealm(r) == IF req[r].op = "invite" THEN None ELSE req[r].user

Persist(r, s) ==
    /\ req[r].pc = "persist"
    /\ s \notin ids
    /\ ids' = ids \cup {s}
    /\ rows' = [rows EXCEPT ![s] =
           [user |-> req[r].user, act_as |-> req[r].user,
            user_token |-> req[r].token, target_token |-> req[r].token,
            actor_role |-> RoleOf(req[r].user), actor_realm |-> LoginRealm(r),
            realm |-> LoginRealm(r), identity |-> req[r].seen]]
    /\ req' = [req EXCEPT ![r] = [@ EXCEPT !.pc = "done", !.sid = s]]
    /\ UNCHANGED <<owner, live>>

PersistFails(r) ==
    /\ req[r].pc = "persist"
    /\ StoreMayFail
    /\ GoTo(r, IF req[r].op = "reset" THEN "done" ELSE "failed")
    /\ UNCHANGED <<owner, live, rows, ids>>

(***************************************************************************)
(* A request with a session cookie: session_auth finds the row and the     *)
(* handler keeps it, however the table changes afterwards.                 *)
(***************************************************************************)
Begin(r, s, op, to, pc) ==
    /\ Arrives(r, op)
    /\ s \in ids
    /\ req' = [req EXCEPT ![r] = [@ EXCEPT
           !.pc = pc, !.op = op, !.sid = s, !.user = to, !.snap = rows[s]]]
    /\ UNCHANGED <<owner, live, rows, ids>>

\* No row: signing out answers the same, everything else is a 401.
BeginSignedOut(r, s, op) ==
    /\ op \in CookieRoutes
    /\ rows[s] = None
    /\ Begin(r, s, op, None, IF op = "signout" THEN "done" ELSE "failed")

\* Every route that only forwards snap.target_token to Core.
BeginRead(r, s) ==
    /\ rows[s] # None
    /\ Begin(r, s, "read", None, "done")

(***************************************************************************)
(* Act as another user.                                                    *)
(***************************************************************************)
BeginEnter(r, s, to) ==
    /\ rows[s] # None
    /\ Begin(r, s, "enter", to,
             IF rows[s].actor_role # "admin" \/ to = rows[s].user
             THEN "failed" ELSE "issue")

\* Mutant: target_token is revoked although it is the admin's own.
IssueAlwaysRevokes(r, t) ==
    /\ req[r].pc = "issue"
    /\ req[r].snap.user_token \in live
    /\ owner[req[r].snap.user_token] \in Admins
    /\ ~Suspended(req[r].user)
    /\ Mint(t, req[r].user)
    /\ req' = [req EXCEPT ![r] = [@ EXCEPT !.token = t, !.pc = "revoke_previous"]]
    /\ UNCHANGED <<rows, ids>>

Issue(r, t) ==
    /\ req[r].pc = "issue"
    /\ req[r].snap.user_token \in live
    /\ owner[req[r].snap.user_token] \in Admins
    /\ ~Suspended(req[r].user)
    /\ Mint(t, req[r].user)
    /\ req' = [req EXCEPT ![r] = [@ EXCEPT
           !.token = t,
           !.pc = IF req[r].snap.target_token # req[r].snap.user_token
                     THEN "revoke_previous" ELSE "read_target"]]
    /\ UNCHANGED <<rows, ids>>

\* Mutant: the previous target is revoked before a new PAT is asked for.
IssueFailsAfterRevoke(r) ==
    /\ req[r].pc = "issue"
    /\ \/ CoreMayFail
       \/ req[r].snap.user_token \notin live
       \/ Suspended(req[r].user)
    /\ live' = live \ {req[r].snap.target_token}
    /\ GoTo(r, "failed")
    /\ UNCHANGED <<owner, rows, ids>>

IssueFails(r) ==
    /\ req[r].pc = "issue"
    /\ \/ CoreMayFail
       \/ req[r].snap.user_token \notin live
       \/ Suspended(req[r].user)
    /\ GoTo(r, "failed")
    /\ UNCHANGED <<owner, live, rows, ids>>

RevokePrevious(r) ==
    /\ req[r].pc = "revoke_previous"
    /\ Revoke(req[r].snap.target_token)
    /\ GoTo(r, "read_target")
    /\ UNCHANGED <<owner, rows, ids>>

\* The target user must be read; its scopes are best effort.
ReadTarget(r) ==
    /\ req[r].pc = "read_target"
    /\ req[r].snap.user_token \in live
    /\ \E access \in {req[r].user, None} :
        /\ access = None => CoreMayFail \/ req[r].token \notin live
        /\ access # None => req[r].token \in live
        /\ Learn(r, "write_act_as", [IdentityOf(req[r].user) EXCEPT !.access = access])
    /\ UNCHANGED <<owner, live, rows, ids>>

ReadTargetFails(r) ==
    /\ req[r].pc = "read_target"
    /\ CoreMayFail \/ req[r].snap.user_token \notin live
    /\ GoTo(r, "failed")
    /\ UNCHANGED <<owner, live, rows, ids>>

\* Mutant: UPDATE ... WHERE user_id.
UpdateRowsOfUser(s, row) ==
    rows' = [x \in Sids |-> IF rows[x] # None /\ rows[s] # None /\ rows[x].user = rows[s].user
                            THEN row ELSE rows[x]]

\* UPDATE ... WHERE session_id: a row that is gone stays gone.
UpdateRow(s, row) == rows' = IF rows[s] = None THEN rows ELSE [rows EXCEPT ![s] = row]

\* Mutant: the issued PAT is saved as the session's own too.
WriteActAsBothTokens(r) ==
    /\ req[r].pc = "write_act_as"
    /\ UpdateRow(req[r].sid, [rows[req[r].sid] EXCEPT
           !.act_as = req[r].user, !.target_token = req[r].token, !.user_token = req[r].token,
           !.realm = req[r].user, !.identity = req[r].seen])
    /\ GoTo(r, "done")
    /\ UNCHANGED <<owner, live, ids>>

WriteActAs(r) ==
    /\ req[r].pc = "write_act_as"
    /\ UpdateRow(req[r].sid, [rows[req[r].sid] EXCEPT
           !.act_as = req[r].user, !.target_token = req[r].token,
           !.realm = req[r].user, !.identity = req[r].seen])
    /\ GoTo(r, "done")
    /\ UNCHANGED <<owner, live, ids>>

(***************************************************************************)
(* Back to the actor.                                                      *)
(***************************************************************************)
BeginExit(r, s) ==
    /\ rows[s] # None
    /\ Begin(r, s, "exit", None,
             IF rows[s].act_as = rows[s].user THEN "done" ELSE "revoke_act_as")

RevokeActAs(r) ==
    /\ req[r].pc = "revoke_act_as"
    /\ \/ req[r].snap.target_token # req[r].snap.user_token
          /\ Revoke(req[r].snap.target_token)
       \/ req[r].snap.target_token = req[r].snap.user_token
          /\ UNCHANGED live
    /\ GoTo(r, "read_actor")
    /\ UNCHANGED <<owner, rows, ids>>

ReadActor(r) ==
    /\ req[r].pc = "read_actor"
    /\ req[r].snap.user_token \in live
    /\ Learn(r, "restore", IdentityOf(req[r].snap.user))
    /\ UNCHANGED <<owner, live, rows, ids>>

\* Mutant: no fallback, nothing is put in place of the identity.
ReadActorFailsEmpty(r) ==
    /\ req[r].pc = "read_actor"
    /\ CoreMayFail \/ req[r].snap.user_token \notin live
    /\ GoTo(r, "restore")
    /\ UNCHANGED <<owner, live, rows, ids>>

\* Mutant: the fallback forgets actor_role.
ReadActorFailsKeepsRole(r) ==
    /\ req[r].pc = "read_actor"
    /\ CoreMayFail \/ req[r].snap.user_token \notin live
    /\ Learn(r, "restore", req[r].snap.identity)
    /\ UNCHANGED <<owner, live, rows, ids>>

\* Mutant: the error of the identity read ends the request.
ReadActorFailsGivesUp(r) ==
    /\ req[r].pc = "read_actor"
    /\ CoreMayFail \/ req[r].snap.user_token \notin live
    /\ GoTo(r, "failed")
    /\ UNCHANGED <<owner, live, rows, ids>>

\* The fallback keeps the email and scopes of the row the request read.
ReadActorFails(r) ==
    /\ req[r].pc = "read_actor"
    /\ CoreMayFail \/ req[r].snap.user_token \notin live
    /\ Learn(r, "restore", [req[r].snap.identity EXCEPT !.role = req[r].snap.actor_role])
    /\ UNCHANGED <<owner, live, rows, ids>>

\* Mutant: act_as_user_id is cleared and target_token kept.
RestoreActorKeepsBearer(r) ==
    /\ req[r].pc = "restore"
    /\ LET row == rows[req[r].sid] IN
       UpdateRow(req[r].sid, [row EXCEPT
           !.act_as = row.user, !.realm = row.actor_realm, !.identity = req[r].seen])
    /\ GoTo(r, "done")
    /\ UNCHANGED <<owner, live, ids>>

\* Mutant: the email and scopes of the row are not restored.
RestoreActorKeepsProfile(r) ==
    /\ req[r].pc = "restore"
    /\ LET row == rows[req[r].sid] IN
       UpdateRow(req[r].sid, [row EXCEPT
           !.act_as = row.user, !.target_token = row.user_token, !.realm = row.actor_realm])
    /\ GoTo(r, "done")
    /\ UNCHANGED <<owner, live, ids>>

\* The statement copies user_id and user_token within the row.
RestoreActor(r) ==
    /\ req[r].pc = "restore"
    /\ LET row == rows[req[r].sid] IN
       UpdateRow(req[r].sid, [row EXCEPT
           !.act_as = row.user, !.target_token = row.user_token,
           !.realm = row.actor_realm, !.identity = req[r].seen])
    /\ GoTo(r, "done")
    /\ UNCHANGED <<owner, live, ids>>

\* update_act_as or restore_actor throws: the request answers 500.
UpdateFails(r) ==
    /\ req[r].pc \in {"write_act_as", "restore"}
    /\ StoreMayFail
    /\ GoTo(r, "failed")
    /\ UNCHANGED <<owner, live, rows, ids>>

(***************************************************************************)
(* Signing out, and sessions ended from elsewhere.                         *)
(***************************************************************************)
BeginSignOut(r, s) ==
    /\ rows[s] # None
    /\ Begin(r, s, "signout", None, "revoke_user")

\* Mutant: only user_token is revoked.
RevokeUserOnly(r) ==
    /\ req[r].pc = "revoke_user"
    /\ Revoke(req[r].snap.user_token)
    /\ GoTo(r, "destroy")
    /\ UNCHANGED <<owner, rows, ids>>

RevokeUser(r) ==
    /\ req[r].pc = "revoke_user"
    /\ Revoke(req[r].snap.user_token)
    /\ GoTo(r, IF req[r].snap.target_token # req[r].snap.user_token
               THEN "revoke_target" ELSE "destroy")
    /\ UNCHANGED <<owner, rows, ids>>

RevokeTarget(r) ==
    /\ req[r].pc = "revoke_target"
    /\ Revoke(req[r].snap.target_token)
    /\ GoTo(r, "destroy")
    /\ UNCHANGED <<owner, rows, ids>>

Destroy(r) ==
    /\ req[r].pc = "destroy"
    /\ rows' = [rows EXCEPT ![req[r].sid] = None]
    /\ GoTo(r, "done")
    /\ UNCHANGED <<owner, live, ids>>

DestroyFails(r) ==
    /\ req[r].pc = "destroy"
    /\ StoreMayFail
    /\ GoTo(r, "failed")
    /\ UNCHANGED <<owner, live, rows, ids>>

\* Core suspends or deletes u, or sets a new password from a link: every PAT
\* of u is revoked.
EndAtCore(r, u, op) ==
    /\ op \in EndOps
    /\ Arrives(r, op)
    /\ \E t \in Tokens : owner[t] = u
    /\ op = "reset" => ~Suspended(u)
    /\ live' = {t \in live : owner[t] # u}
    /\ req' = [req EXCEPT ![r] = [@ EXCEPT !.pc = "end_sessions", !.op = op, !.user = u]]
    /\ UNCHANGED <<owner, rows, ids>>

AfterEnd(r) == IF req[r].op = "reset" THEN "sign_in" ELSE "done"

\* Mutant: DELETE ... WHERE act_as_user_id.
DestroyUserActedAs(r) ==
    /\ req[r].pc = "end_sessions"
    /\ rows' = [s \in Sids |-> IF rows[s] # None /\ rows[s].act_as = req[r].user
                               THEN None ELSE rows[s]]
    /\ GoTo(r, AfterEnd(r))
    /\ UNCHANGED <<owner, live, ids>>

DestroyUser(r) ==
    /\ req[r].pc = "end_sessions"
    /\ rows' = [s \in Sids |-> IF rows[s] # None /\ rows[s].user = req[r].user
                               THEN None ELSE rows[s]]
    /\ GoTo(r, AfterEnd(r))
    /\ UNCHANGED <<owner, live, ids>>

\* _end_sessions is best effort.
DestroyUserFails(r) ==
    /\ req[r].pc = "end_sessions"
    /\ StoreMayFail
    /\ GoTo(r, AfterEnd(r))
    /\ UNCHANGED <<owner, live, rows, ids>>

(***************************************************************************)
(* PATs revoked by their own user.  The BFF forwards the call and touches  *)
(* no row, whatever bearers the rows of other sessions hold.               *)
(***************************************************************************)
BeginChangePassword(r, s) ==
    /\ rows[s] # None
    /\ Begin(r, s, "change_password", None, "change_password")

\* Mutant: the admin's own PAT is sent while the session acts as somebody.
ChangePasswordAsActor(r) ==
    /\ req[r].pc = "change_password"
    /\ LET own == req[r].snap.user_token IN
       /\ own \in live
       /\ live' = {t \in live : owner[t] = owner[own] => t = own}
    /\ GoTo(r, "done")
    /\ UNCHANGED <<owner, rows, ids>>

\* Core signs out the other sessions of the user whose bearer it was sent.
ChangePassword(r) ==
    /\ req[r].pc = "change_password"
    /\ LET own == req[r].snap.target_token IN
       /\ own \in live
       /\ live' = {t \in live : owner[t] = owner[own] => t = own}
    /\ GoTo(r, "done")
    /\ UNCHANGED <<owner, rows, ids>>

\* A wrong current password, a bearer Core no longer accepts, Core failing.
ChangePasswordFails(r) ==
    /\ req[r].pc = "change_password"
    /\ GoTo(r, "failed")
    /\ UNCHANGED <<owner, live, rows, ids>>

\* auth/revoke_token, and auth/rotate_token, whose new secret goes to the
\* client only.  Any bearer of t's user will do.
RevokeToken(r, t) ==
    /\ Arrives(r, "revoke_token")
    /\ t \in live
    /\ live' = live \ {t}
    /\ req' = [req EXCEPT ![r] = [@ EXCEPT !.pc = "done", !.op = "revoke_token", !.revoked = t]]
    /\ UNCHANGED <<owner, rows, ids>>

\* The row expires or goes idle and find or prune_expired deletes it.
Lapse(s) ==
    /\ "lapse" \in Faults
    /\ rows[s] # None
    /\ rows' = [rows EXCEPT ![s] = None]
    /\ UNCHANGED <<owner, live, ids, req>>

(***************************************************************************)
(* The specification.                                                      *)
(***************************************************************************)

\* What a client or an administrator may ask for.
Arrival(r) ==
    \/ \E u \in Users, t \in Tokens :
        \/ req[r].pc = "new" /\ Authenticate(r, u, t)
        \/ \E op \in SignInOps : Join(r, u, t, op)
    \/ \E t \in Tokens : RevokeToken(r, t)
    \/ \E s \in Sids :
        \/ BeginRead(r, s) \/ BeginExit(r, s) \/ BeginSignOut(r, s)
        \/ BeginChangePassword(r, s)
        \/ \E u \in Users : BeginEnter(r, s, u)
        \/ \E op \in CookieRoutes : BeginSignedOut(r, s, op)
    \/ \E u \in Users, op \in EndOps : EndAtCore(r, u, op)

\* The next step of a handler that has begun.
Continue(r) ==
    \/ \E t \in Tokens :
        \/ \E u \in Users : req[r].pc = "sign_in" /\ Authenticate(r, u, t)
        \/ Issue(r, t)
    \/ \E s \in Sids : Persist(r, s)
    \/ SignInFails(r) \/ Identify(r) \/ IdentifyFails(r) \/ PersistFails(r)
    \/ IssueFails(r) \/ RevokePrevious(r) \/ ReadTarget(r) \/ ReadTargetFails(r)
    \/ WriteActAs(r) \/ UpdateFails(r)
    \/ RevokeActAs(r) \/ ReadActor(r) \/ ReadActorFails(r) \/ RestoreActor(r)
    \/ RevokeUser(r) \/ RevokeTarget(r) \/ Destroy(r) \/ DestroyFails(r)
    \/ DestroyUser(r) \/ DestroyUserFails(r)
    \/ ChangePassword(r) \/ ChangePasswordFails(r)

Next ==
    \/ \E r \in Requests : Arrival(r) \/ Continue(r)
    \/ \E s \in Sids : Lapse(s)

Spec == Init /\ [][Next]_vars

\* Node keeps running a handler, and every call it awaits settles.
FairSpec == Spec /\ \A r \in Requests : WF_vars(Continue(r))

(***************************************************************************)
(* Properties.                                                             *)
(***************************************************************************)

TypeOK ==
    /\ owner \in [Tokens -> Users \cup {None}]
    /\ live \in SUBSET Tokens
    /\ rows \in [Sids -> Row \cup {None}]
    /\ ids \in SUBSET Sids
    /\ req \in [Requests -> Request]

\* The rows there are, and those a request still holds with their session id.
RowOf(s) == IF rows[s] = None THEN {} ELSE {rows[s]}
SnapsOf(s) == {req[r].snap : r \in {x \in Requests : req[x].sid = s}} \ {None}
Versions(s) == RowOf(s) \cup SnapsOf(s)
TokensOf(s) == {row.user_token : row \in Versions(s)}
               \cup {row.target_token : row \in Versions(s)}

(***************************************************************************)
(* The bearer of a session, in the table and in the copy any request still *)
(* works with, belongs in Core to the user the session acts as, and only a *)
(* site admin's session acts as somebody else (session_service.ts 5-11):   *)
(* concurrent act-as, stop and sign-out never mix the two up.              *)
(***************************************************************************)
BearerIsActingUser ==
    \A s \in Sids : \A row \in Versions(s) :
        /\ owner[row.user_token] = row.user
        /\ owner[row.target_token] = row.act_as
        /\ (row.target_token = row.user_token) <=> (row.act_as = row.user)
        /\ row.act_as # row.user => row.user \in Admins

(***************************************************************************)
(* No PAT serves two sessions, whichever copies of their rows requests     *)
(* hold, so revoking a session's tokens never ends another one (delete,    *)
(* _enter_act_as and _exit_act_as revoke from the copy they hold).         *)
(***************************************************************************)
OneSessionPerToken ==
    \A s1, s2 \in Sids : s1 # s2 => TokensOf(s1) \cap TokensOf(s2) = {}

\* r is a request to sign session s out.
SignsOut(r, s) == req[r].op = "signout" /\ req[r].sid = s

\* Core ended user u's PATs.
Ended(u) == \E r \in Requests : req[r].op \in EndOps /\ req[r].user = u

\* The user of PAT t changed the password in another session, or named t to
\* auth/revoke_token.
RevokedByUser(t) ==
    \E r \in Requests :
        \/ /\ req[r].op = "change_password" /\ req[r].pc = "done"
           /\ req[r].snap.act_as = owner[t] /\ req[r].snap.target_token # t
        \/ req[r].revoked = t

(***************************************************************************)
(* While a row is there, its user_token is dead only because this session  *)
(* is being signed out, Core ended its user, or the user changed the       *)
(* password elsewhere or revoked that very PAT (their row is left, and     *)
(* answers Core's 401): acting as somebody, stopping, other sessions'      *)
(* sign-outs, a password changed here or by somebody else, and failures    *)
(* along the way leave "the admin stays signed in"                         *)
(* (session_controller.ts 62-63).                                          *)
(***************************************************************************)
SignedInUntilSignedOut ==
    \A s \in Sids : rows[s] # None /\ rows[s].user_token \notin live =>
        \/ Ended(rows[s].user)
        \/ RevokedByUser(rows[s].user_token)
        \/ \E r \in Requests : SignsOut(r, s)

\* r works on the bearer row s has now, to stop, or to act as somebody else with
\* the replacement in hand.
Replaces(r, s) ==
    /\ req[r].sid = s
    /\ req[r].snap # None
    /\ req[r].snap.target_token = rows[s].target_token
    /\ \/ req[r].op = "exit"
       \/ req[r].op = "enter" /\ req[r].token # None

(***************************************************************************)
(* A row whose bearer Core no longer accepts is explained: the session is  *)
(* being signed out, the user it acts as was ended, changed the password   *)
(* in another session or revoked that PAT, or it was acting as somebody    *)
(* and asked to stop, or to act as somebody else when Core had already     *)
(* issued the replacement.  A refused act-as never costs the session its   *)
(* bearer (_enter_act_as issues before it revokes), nor does changing the  *)
(* password in this session.                                               *)
(***************************************************************************)
DeadBearerExplained ==
    \A s \in Sids : rows[s] # None /\ rows[s].target_token \notin live =>
        \/ Ended(rows[s].act_as)
        \/ RevokedByUser(rows[s].target_token)
        \/ \E r \in Requests : SignsOut(r, s)
        \/ /\ rows[s].target_token # rows[s].user_token
           /\ \E r \in Requests : Replaces(r, s)

(***************************************************************************)
(* A session's row goes away only because that session was signed out, it  *)
(* lapsed, or its own user was ended; never because of somebody else's     *)
(* account, the acted-as user's included (destroy_user).                   *)
(***************************************************************************)
SessionsEndForAReason ==
    [][\A s \in Sids : rows[s] # None /\ rows'[s] = None =>
           \/ \E r \in Requests : SignsOut(r, s)
           \/ Ended(rows[s].user)
           \/ "lapse" \in Faults /\ UNCHANGED req]_vars

(***************************************************************************)
(* The role the site_admin routes test and the realm the SPA redirects to  *)
(* are those of the user the session speaks as, also when stopping could   *)
(* not ask Core (session_service.ts 285-312).                              *)
(***************************************************************************)
RoleFollowsIdentity ==
    \A s \in Sids : rows[s] # None =>
        /\ rows[s].identity.role = RoleOf(rows[s].act_as)
        /\ rows[s].realm \in {rows[s].act_as, None}

(***************************************************************************)
(* "Back to the actor: revokes the act-as PAT and restores the actor's     *)
(* identity" (session_service.ts 275): a session that acts as nobody shows *)
(* its own user's email and scopes.                                        *)
(***************************************************************************)
OwnProfileAfterStop ==
    \A s \in Sids : rows[s] # None /\ rows[s].act_as = rows[s].user =>
        /\ rows[s].identity.email = rows[s].user
        /\ rows[s].identity.access \in {rows[s].user, None}

(***************************************************************************)
(* Every PAT Core still accepts is one the BFF can still revoke: it is in  *)
(* a row or in the hands of a request in flight ("revoke the previous      *)
(* target", "Sign-out: revoke both", session_service.ts 10-12).            *)
(***************************************************************************)
NoOrphanToken ==
    \A t \in live :
        \/ \E s \in Sids : rows[s] # None
               /\ t \in {rows[s].user_token, rows[s].target_token}
        \/ \E r \in InFlight : \/ req[r].token = t
                               \/ req[r].snap # None /\ t \in {req[r].snap.user_token,
                                                               req[r].snap.target_token}

(***************************************************************************)
(* "Core has already applied the change and rejects the user's token on    *)
(* every request, so a leftover row cannot act" (users_service.ts 53-55).  *)
(***************************************************************************)
LeftoverRowCannotAct ==
    \A r \in Requests : req[r].op = "suspend" /\ req[r].pc = "done" =>
        \A s \in Sids : rows[s] # None /\ rows[s].user = req[r].user =>
            rows[s].target_token \notin live

(***************************************************************************)
(* An admin who asks to stop gets back to their own identity, "even when   *)
(* Core can't be asked" (session_service.ts 296-297), unless the session   *)
(* is gone.                                                                *)
(***************************************************************************)
StopAlwaysWorks ==
    \A r \in Requests, s \in Sids :
        (req[r].pc = "revoke_act_as" /\ req[r].sid = s) ~>
            (rows[s] = None \/ rows[s].act_as = rows[s].user)

(***************************************************************************)
(* Core sees the session promise of SessionIdentity: the actor is the      *)
(* holder of user_token, and the session speaks as the holder of           *)
(* target_token.                                                           *)
(***************************************************************************)
SpeaksAs == [s \in Sids |-> IF rows[s] = None THEN None
                            ELSE [actor |-> owner[rows[s].user_token],
                                  as |-> owner[rows[s].target_token]]]

Abstract == INSTANCE SessionIdentity WITH session <- SpeaksAs

ImplementsPromise == Abstract!Promise
==============================================================================
