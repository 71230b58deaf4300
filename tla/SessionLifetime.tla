--------------------------- MODULE SessionLifetime ---------------------------
(***************************************************************************)
(* How long a session row serves requests: SessionStore over time          *)
(* (repositories/session_store.ts), with its callers session_auth and the  *)
(* pruning timer of server.ts.                                             *)
(*                                                                         *)
(* Every statement is sent at one moment and takes effect at a later one:  *)
(* the pool has several connections, so statements overtake each other.    *)
(* The current time a statement carries is read when it is sent.  Tokens   *)
(* and identities are left to Sessions.tla.                                *)
(***************************************************************************)
EXTENDS Naturals, FiniteSets

CONSTANTS
    Sids,      \* random session ids
    Requests,  \* numbered in the order they come; each runs once
    Ttl,       \* session_ttl_seconds
    Idle,      \* session_idle_seconds
    MaxTime,   \* bound on the clock
    MaxPrunes, \* bound on the prunes under way at once
    None

ASSUME LifetimeAssumption ==
    /\ Requests \subseteq Nat
    /\ Ttl \in Nat /\ Idle \in Nat /\ MaxTime \in Nat /\ MaxPrunes \in Nat
    /\ None \notin Nat /\ None \notin Sids
    /\ None \notin {"sign_in", "use", "switch"}
    /\ None \notin [last_active : Nat, expires_at : Nat]

Row == [last_active : Nat, expires_at : Nat]

\* insert: an INSERT is under way; judge: find has read the row; delete: find
\* has sent a DELETE; touch: an UPDATE of last_active is under way.
PCs == {"new", "insert", "judge", "delete", "touch", "done", "lost", "failed"}

(***************************************************************************)
(* at is the time the request's statement carries (for a request that was  *)
(* served, when it was), asked when its SELECT was answered, landed when   *)
(* its INSERT or UPDATE took effect, row the row its SELECT read.          *)
(***************************************************************************)
Request == [pc : PCs, op : {"sign_in", "use", "switch", None}, sid : Sids \cup {None},
            at : Nat, asked : Nat, landed : Nat, row : Row \cup {None}]

VARIABLES
    clock,  \* seconds
    rows,   \* bff.sessions
    req,
    prunes  \* the times the DELETEs of prune_expired under way carry

vars == <<clock, rows, req, prunes>>

NewRequest == [pc |-> "new", op |-> None, sid |-> None, at |-> 0, asked |-> 0,
               landed |-> 0, row |-> None]

Init ==
    /\ clock = 0
    /\ rows = [s \in Sids |-> None]
    /\ req = [r \in Requests |-> NewRequest]
    /\ prunes = {}

Tick ==
    /\ clock < MaxTime
    /\ clock' = clock + 1
    /\ UNCHANGED <<rows, req, prunes>>

\* r is the next request to come.
Comes(r) == req[r].pc = "new" /\ \A x \in Requests : req[x].pc = "new" => r <= x

Move(r, pc) == req' = [req EXCEPT ![r].pc = pc]

\* The ids a sign-in has been given.
Given == {req[r].sid : r \in {x \in Requests : req[x].op = "sign_in"}}

\* Mutant: last_active is left to the column's default, which is none.
SignInWithoutLastActive(r, s) ==
    /\ Comes(r)
    /\ s \notin Given
    /\ req' = [req EXCEPT ![r] = [@ EXCEPT !.pc = "insert", !.op = "sign_in", !.sid = s,
                                           !.at = None]]
    /\ UNCHANGED <<clock, rows, prunes>>

\* _persist_login_session reads the time, create draws the id.
SignIn(r, s) ==
    /\ Comes(r)
    /\ s \notin Given
    /\ req' = [req EXCEPT ![r] = [@ EXCEPT !.pc = "insert", !.op = "sign_in", !.sid = s,
                                           !.at = clock]]
    /\ UNCHANGED <<clock, rows, prunes>>

Insert(r) ==
    /\ req[r].pc = "insert"
    /\ rows' = [rows EXCEPT ![req[r].sid] =
                   [last_active |-> req[r].at, expires_at |-> req[r].at + Ttl]]
    /\ req' = [req EXCEPT ![r] = [@ EXCEPT !.pc = "done", !.landed = clock]]
    /\ UNCHANGED <<clock, prunes>>

\* find's SELECT is answered; without a row the request is signed out.
Find(r, s) ==
    /\ Comes(r)
    /\ s \in Given
    /\ req' = [req EXCEPT ![r] = [@ EXCEPT
           !.pc = IF rows[s] = None THEN "failed" ELSE "judge",
           !.op = "use", !.sid = s, !.asked = clock, !.row = rows[s]]]
    /\ UNCHANGED <<clock, rows, prunes>>

Expired(row, now) == row.expires_at < now
IdleTooLong(row, now) == now > row.last_active + Idle

\* find goes on with the row it read and the time it is by then.
Reject(r) ==
    /\ req[r].pc = "judge"
    /\ Expired(req[r].row, clock) \/ IdleTooLong(req[r].row, clock)
    /\ req' = [req EXCEPT ![r] = [@ EXCEPT !.pc = "delete", !.at = clock]]
    /\ UNCHANGED <<clock, rows, prunes>>

\* session_auth lets the request through and touches the session in the
\* background; no I/O is awaited in between.
Serve(r) ==
    /\ req[r].pc = "judge"
    /\ ~Expired(req[r].row, clock)
    /\ ~IdleTooLong(req[r].row, clock)
    /\ req' = [req EXCEPT ![r] = [@ EXCEPT !.pc = "touch", !.at = clock]]
    /\ UNCHANGED <<clock, rows, prunes>>

Delete(r) ==
    /\ req[r].pc = "delete"
    /\ rows' = [rows EXCEPT ![req[r].sid] = None]
    /\ Move(r, "failed")
    /\ UNCHANGED <<clock, prunes>>

\* The requests find has served.
Served == {r \in Requests : req[r].op = "use" /\ req[r].pc \in {"touch", "done", "lost"}}

\* The handler of x, an act-as or a stop, sends update_act_as or restore_actor,
\* which set last_active too (r is this statement).
Switch(r, x) ==
    /\ Comes(r)
    /\ x \in Served
    /\ req' = [req EXCEPT ![r] = [@ EXCEPT !.pc = "touch", !.op = "switch",
                                           !.sid = req[x].sid, !.at = clock]]
    /\ UNCHANGED <<clock, rows, prunes>>

\* Mutant: a touch also extends expires_at.
TouchSlidesExpiry(r) ==
    /\ req[r].pc = "touch"
    /\ rows' = IF rows[req[r].sid] = None THEN rows
               ELSE [rows EXCEPT ![req[r].sid] =
                        [last_active |-> req[r].at, expires_at |-> req[r].at + Ttl]]
    /\ req' = [req EXCEPT ![r] = [@ EXCEPT !.pc = "done", !.landed = clock]]
    /\ UNCHANGED <<clock, prunes>>

\* Mutant: SET last_active = now() of the database.
TouchOnLanding(r) ==
    /\ req[r].pc = "touch"
    /\ rows' = IF rows[req[r].sid] = None THEN rows
               ELSE [rows EXCEPT ![req[r].sid].last_active = clock]
    /\ req' = [req EXCEPT ![r] = [@ EXCEPT !.pc = "done", !.landed = clock]]
    /\ UNCHANGED <<clock, prunes>>

\* Mutant: the time written is the one the record had.
TouchWritesRecord(r) ==
    /\ req[r].pc = "touch"
    /\ rows' = IF rows[req[r].sid] = None \/ req[r].row = None THEN rows
               ELSE [rows EXCEPT ![req[r].sid].last_active = req[r].row.last_active]
    /\ req' = [req EXCEPT ![r] = [@ EXCEPT !.pc = "done", !.landed = clock]]
    /\ UNCHANGED <<clock, prunes>>

\* UPDATE ... SET last_active WHERE session_id: a row that is gone stays gone.
Touch(r) ==
    /\ req[r].pc = "touch"
    /\ rows' = IF rows[req[r].sid] = None THEN rows
               ELSE [rows EXCEPT ![req[r].sid].last_active = req[r].at]
    /\ req' = [req EXCEPT ![r] = [@ EXCEPT !.pc = "done", !.landed = clock]]
    /\ UNCHANGED <<clock, prunes>>

\* A statement fails; a lost touch is only logged.
StatementFails(r) ==
    /\ req[r].pc \in {"insert", "delete", "touch"}
    /\ Move(r, IF req[r].pc = "touch" THEN "lost" ELSE "failed")
    /\ UNCHANGED <<clock, rows, prunes>>

\* Sign-out, or destroy_user.
SignOut(s) ==
    /\ rows[s] # None
    /\ rows' = [rows EXCEPT ![s] = None]
    /\ UNCHANGED <<clock, req, prunes>>

\* Mutant: the time is read once, when the timer is set up.
PruneSinceStart ==
    /\ Cardinality(prunes) < MaxPrunes
    /\ prunes' = prunes \cup {0}
    /\ UNCHANGED <<clock, rows, req>>

\* The timer fires; it does not wait for an earlier DELETE.
Prune ==
    /\ Cardinality(prunes) < MaxPrunes
    /\ prunes' = prunes \cup {clock}
    /\ UNCHANGED <<clock, rows, req>>

PruneLands(now) ==
    /\ now \in prunes
    /\ prunes' = prunes \ {now}
    /\ rows' = [s \in Sids |-> IF rows[s] # None /\ Expired(rows[s], now)
                               THEN None ELSE rows[s]]
    /\ UNCHANGED <<clock, req>>

PruneFails(now) ==
    /\ now \in prunes
    /\ prunes' = prunes \ {now}
    /\ UNCHANGED <<clock, rows, req>>

Next ==
    \/ Tick
    \/ \E r \in Requests :
        \/ \E s \in Sids : SignIn(r, s) \/ Find(r, s)
        \/ \E x \in Requests : Switch(r, x)
        \/ Insert(r) \/ Reject(r) \/ Serve(r) \/ Delete(r) \/ Touch(r) \/ StatementFails(r)
    \/ \E s \in Sids : SignOut(s)
    \/ Prune
    \/ \E now \in prunes : PruneLands(now) \/ PruneFails(now)

Spec == Init /\ [][Next]_vars

\* setInterval keeps firing, and the database is not down for ever.
FairSpec ==
    /\ Spec
    /\ WF_vars(Prune)
    /\ SF_vars(\E now \in prunes : PruneLands(now))

(***************************************************************************)
(* Properties.                                                             *)
(***************************************************************************)
TypeOK ==
    /\ clock \in Nat
    /\ rows \in [Sids -> Row \cup {None}]
    /\ req \in [Requests -> Request]
    /\ prunes \in SUBSET Nat

\* What counts as use of a session: signing in, a request served, and the
\* switch a served request makes.
Uses(s) == {r \in Requests : req[r].sid = s /\ \/ req[r].op \in {"sign_in", "switch"}
                                               \/ r \in Served}

(***************************************************************************)
(* No request is served more than session_ttl_seconds after its session    *)
(* was signed in, whatever touches, switches and prunes do, and however    *)
(* late they land (expires_at is fixed at sign-in).                        *)
(***************************************************************************)
AbsoluteLifetime ==
    \A r \in Served : \E x \in Requests :
        req[x].op = "sign_in" /\ req[x].sid = req[r].sid /\ req[r].at <= req[x].at + Ttl

(***************************************************************************)
(* A request is served only if the session was in use at most              *)
(* session_idle_seconds before: delayed, overtaken and lost touches may    *)
(* shorten the idle period but never extend it.                            *)
(***************************************************************************)
IdleTimeoutEnforced ==
    [][\A r \in Served' \ Served :
           \E x \in Uses(req[r].sid) : clock <= req[x].at + Idle]_vars

(***************************************************************************)
(* find ends a session in use less than session_idle_seconds ago only when *)
(* that use's background touch had not landed by the time find read the    *)
(* row, or an older touch landed after it.                                 *)
(***************************************************************************)
IdleReapExplained ==
    \A r \in Requests : req[r].pc = "delete" /\ ~Expired(req[r].row, req[r].at) =>
        \A x \in Uses(req[r].sid) : req[r].at <= req[x].at + Idle =>
            \/ req[x].pc # "done"
            \/ req[x].landed >= req[r].asked
            \/ \E y \in Uses(req[r].sid) :
                /\ req[y].at < req[x].at
                /\ req[y].pc = "done" /\ req[y].landed >= req[x].landed

(***************************************************************************)
(* Rows past their expiry go away in the end, also when no request ever    *)
(* comes for them (the timer of server.ts 33-41).                          *)
(***************************************************************************)
ExpiredRowsGo ==
    \A s \in Sids : (rows[s] # None /\ Expired(rows[s], clock)) ~> rows[s] = None
==============================================================================
