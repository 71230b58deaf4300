--------------------------- MODULE SessionsProofs ---------------------------
(***************************************************************************)
(* Theorems about Sessions, for every set of users, tokens, session ids    *)
(* and requests.                                                           *)
(***************************************************************************)
EXTENDS Sessions, FiniteSetTheorems, TLAPS

SignInPCs == {"identify", "persist"}
EnterPCs == {"issue", "revoke_previous", "read_target", "write_act_as"}
HoldingPCs == SignInPCs \cup (EnterPCs \ {"issue"})
CookiePCs == EnterPCs \cup {"revoke_act_as", "read_actor", "restore",
                            "revoke_user", "revoke_target", "destroy",
                            "change_password"}

\* A copy of a row agrees with Core about whose tokens it holds.
Sound(row) ==
    /\ owner[row.user_token] = row.user
    /\ owner[row.target_token] = row.act_as
    /\ (row.target_token = row.user_token) <=> (row.act_as = row.user)
    /\ row.act_as # row.user => row.user \in Admins
    /\ row.actor_role = RoleOf(row.user)

Disjoint(row1, row2) ==
    /\ row1.user_token # row2.user_token
    /\ row1.user_token # row2.target_token
    /\ row1.target_token # row2.user_token
    /\ row1.target_token # row2.target_token

\* Token t is in neither field of the row.
NotIn(t, row) == t # row.user_token /\ t # row.target_token

\* What a request has in hand at each of its steps.
RequestInv(r) ==
    /\ req[r].pc = "new" => req[r].snap = None /\ req[r].op = None
    /\ req[r].pc \in SignInPCs =>
        /\ req[r].snap = None
        /\ req[r].token \in Tokens /\ req[r].user \in Users
        /\ owner[req[r].token] = req[r].user
    /\ req[r].pc \in {"end_sessions", "sign_in"} =>
        req[r].snap = None /\ req[r].user \in Users
    /\ req[r].pc \in {"persist", "write_act_as", "restore"} => req[r].seen \in Identity
    /\ req[r].pc \in CookiePCs => req[r].snap \in Row
    /\ req[r].pc \in EnterPCs =>
        /\ req[r].user \in Users
        /\ req[r].user # req[r].snap.user
        /\ req[r].snap.user \in Admins
    /\ req[r].pc \in EnterPCs \ {"issue"} =>
        /\ req[r].token \in Tokens
        /\ owner[req[r].token] = req[r].user

\* The row a request read is of a session that once began, and whoever owns
\* the session now is who owned it then.
SnapInv(r) ==
    req[r].snap # None =>
        /\ req[r].sid \in ids
        /\ Sound(req[r].snap)
        /\ rows[req[r].sid] # None =>
            /\ rows[req[r].sid].user = req[r].snap.user
            /\ rows[req[r].sid].user_token = req[r].snap.user_token

RowInv(s) == rows[s] # None => s \in ids /\ Sound(rows[s])

\* Copies of different sessions share no token.
SeparateInv ==
    /\ \A s1, s2 \in Sids :
        s1 # s2 /\ rows[s1] # None /\ rows[s2] # None => Disjoint(rows[s1], rows[s2])
    /\ \A s \in Sids, r \in Requests :
        rows[s] # None /\ req[r].snap # None /\ req[r].sid # s =>
            Disjoint(rows[s], req[r].snap)
    /\ \A r1, r2 \in Requests :
        req[r1].snap # None /\ req[r2].snap # None /\ req[r1].sid # req[r2].sid =>
            Disjoint(req[r1].snap, req[r2].snap)

\* A PAT just minted is nowhere but in the hands of the request it is for.
HeldInv ==
    \A r \in Requests : req[r].pc \in HoldingPCs =>
        /\ \A s \in Sids : rows[s] # None => NotIn(req[r].token, rows[s])
        /\ \A x \in Requests : req[x].snap # None => NotIn(req[r].token, req[x].snap)
        /\ \A x \in Requests : x # r /\ req[x].pc \in HoldingPCs =>
            req[x].token # req[r].token

IInv ==
    /\ TypeOK
    /\ \A r \in Requests : RequestInv(r) /\ SnapInv(r)
    /\ \A s \in Sids : RowInv(s)
    /\ SeparateInv
    /\ HeldInv

(***************************************************************************)
(* Type correctness of each step, given the invariant.                     *)
(***************************************************************************)
LEMMA RequestTyped ==
    ASSUME TypeOK, NEW r \in Requests
    PROVE  req[r] \in Request
  BY DEF TypeOK

LEMMA PcTyped ==
    ASSUME TypeOK, NEW r \in Requests, NEW pc \in PCs, GoTo(r, pc)
    PROVE  req' \in [Requests -> Request]
  BY DEF TypeOK, GoTo, Request

LEMMA IdentityTyped ==
    ASSUME NEW u \in Users
    PROVE  /\ IdentityOf(u) \in Identity
           /\ [IdentityOf(u) EXCEPT !.access = None] \in Identity
  BY SessionsAssumption DEF IdentityOf, Identity, RoleOf, Roles

LEMMA InitInv == Init => IInv
  <1> SUFFICES ASSUME Init PROVE IInv
    OBVIOUS
  <1>1. TypeOK
    BY SessionsAssumption DEF Init, TypeOK, NewRequest, Request, PCs
  <1>2. \A r \in Requests : RequestInv(r) /\ SnapInv(r)
    BY DEF Init, NewRequest, RequestInv, SnapInv, SignInPCs, EnterPCs, CookiePCs
  <1>3. \A s \in Sids : RowInv(s)
    BY DEF Init, RowInv
  <1>4. SeparateInv /\ HeldInv
    BY DEF Init, NewRequest, SeparateInv, HeldInv, HoldingPCs, SignInPCs, EnterPCs
  <1> QED
    BY <1>1, <1>2, <1>3, <1>4 DEF IInv

(***************************************************************************)
(* Steps that mint nothing and write no row: they may move a request on,   *)
(* revoke PATs and delete rows.                                            *)
(***************************************************************************)
Quiet ==
    /\ UNCHANGED <<owner, ids>>
    /\ \A s \in Sids : rows'[s] = rows[s] \/ rows'[s] = None
    /\ \A x \in Requests :
        /\ req'[x].snap = req[x].snap
        /\ req[x].snap # None => req'[x].sid = req[x].sid
        /\ req'[x].pc \in HoldingPCs =>
            req[x].pc \in HoldingPCs /\ req'[x].token = req[x].token

LEMMA QuietPreserves ==
    ASSUME IInv, Quiet
    PROVE  /\ \A r \in Requests : SnapInv(r)'
           /\ \A s \in Sids : RowInv(s)'
           /\ SeparateInv'
           /\ HeldInv'
  <1>1. \A r \in Requests : SnapInv(r)'
    <2> SUFFICES ASSUME NEW r \in Requests, req'[r].snap # None
                 PROVE  SnapInv(r)'
      BY DEF SnapInv
    <2>1. req'[r].sid = req[r].sid /\ req'[r].snap = req[r].snap /\ req[r].snap # None
      BY DEF Quiet
    <2>2. req[r].sid \in Sids
      BY <2>1 DEF IInv, SnapInv, TypeOK
    <2> QED
      BY <2>1, <2>2 DEF IInv, SnapInv, Sound, Quiet
  <1>2. \A s \in Sids : RowInv(s)'
    BY DEF IInv, RowInv, Sound, Quiet
  <1>3. SeparateInv'
    BY DEF IInv, SeparateInv, Disjoint, Quiet
  <1>4. HeldInv'
    BY DEF IInv, HeldInv, NotIn, Quiet
  <1> QED
    BY <1>1, <1>2, <1>3, <1>4

LEMMA QuietInv ==
    ASSUME IInv, Quiet, TypeOK', \A r \in Requests : RequestInv(r)'
    PROVE  IInv'
  BY QuietPreserves DEF IInv

\* The steps of a handler that only move it on.
LEMMA AdvanceInv ==
    ASSUME IInv, NEW r \in Requests, NEW pc \in PCs, GoTo(r, pc),
           UNCHANGED <<owner, ids>>,
           live' \in SUBSET Tokens,
           rows' \in [Sids -> Row \cup {None}],
           \A s \in Sids : rows'[s] = rows[s] \/ rows'[s] = None,
           \/ pc \in {"done", "failed"}
           \/ req[r].pc = "revoke_previous" /\ pc = "read_target"
           \/ req[r].pc \in CookiePCs /\ pc \in {"read_actor", "revoke_target", "destroy"}
           \/ req[r].pc = "end_sessions" /\ pc = "sign_in"
    PROVE  IInv'
  <1>1. Quiet
    BY DEF Quiet, GoTo, IInv, TypeOK, HoldingPCs, SignInPCs, EnterPCs
  <1>2. TypeOK'
    BY PcTyped DEF IInv, TypeOK
  <1>3. \A x \in Requests : RequestInv(x)'
    BY DEF GoTo, IInv, TypeOK, RequestInv, SignInPCs, EnterPCs, CookiePCs
  <1> QED
    BY <1>1, <1>2, <1>3, QuietInv

\* The steps that also put together the identity to show.
LEMMA LearnInv ==
    ASSUME IInv, NEW r \in Requests, NEW pc, NEW seen \in Identity,
           Learn(r, pc, seen),
           UNCHANGED <<owner, live, rows, ids>>,
           \/ req[r].pc = "identify" /\ pc = "persist"
           \/ req[r].pc = "read_target" /\ pc = "write_act_as"
           \/ req[r].pc = "read_actor" /\ pc = "restore"
    PROVE  IInv'
  <1>1. Quiet
    BY DEF Quiet, Learn, IInv, TypeOK, HoldingPCs, SignInPCs, EnterPCs
  <1>2. TypeOK'
    <2> DEFINE next == [req[r] EXCEPT !.pc = pc, !.seen = seen]
    <2>1. pc \in PCs
      BY DEF PCs
    <2>2. next \in Request
      BY <2>1, RequestTyped DEF IInv, Request
    <2>3. req' = [req EXCEPT ![r] = next]
      BY DEF Learn
    <2> HIDE DEF next
    <2> QED
      BY <2>2, <2>3 DEF IInv, TypeOK
  <1>3. \A x \in Requests : RequestInv(x)'
    BY DEF Learn, IInv, TypeOK, RequestInv, SignInPCs, EnterPCs, CookiePCs
  <1> QED
    BY <1>1, <1>2, <1>3, QuietInv

(***************************************************************************)
(* Steps in which Core mints a PAT for the request.                        *)
(***************************************************************************)
LEMMA UnmintedIsNowhere ==
    ASSUME IInv, NEW t \in Tokens, owner[t] = None
    PROVE  /\ \A s \in Sids : rows[s] # None => NotIn(t, rows[s])
           /\ \A x \in Requests : req[x].snap # None => NotIn(t, req[x].snap)
           /\ \A x \in Requests : req[x].pc \in HoldingPCs => req[x].token # t
  <1>1. ASSUME NEW row \in Row, Sound(row)
        PROVE  NotIn(t, row)
    BY <1>1, SessionsAssumption DEF Sound, NotIn, Row
  <1>2. \A s \in Sids : rows[s] # None => NotIn(t, rows[s])
    BY <1>1 DEF IInv, TypeOK, RowInv
  <1>3. \A x \in Requests : req[x].snap # None => NotIn(t, req[x].snap)
    BY <1>1, RequestTyped DEF IInv, SnapInv, Request
  <1>4. \A x \in Requests : req[x].pc \in HoldingPCs => req[x].token # t
    BY SessionsAssumption DEF IInv, RequestInv, HoldingPCs
  <1> QED
    BY <1>2, <1>3, <1>4

LEMMA MintInv ==
    ASSUME IInv, NEW r \in Requests, NEW t \in Tokens, NEW u \in Users, Mint(t, u),
           UNCHANGED <<rows, ids>>,
           NEW next \in Request, req' = [req EXCEPT ![r] = next],
           next.snap = req[r].snap, next.sid = req[r].sid,
           next.token = t, next.user = u,
           req[r].pc \notin HoldingPCs,
           \/ next.pc = "identify" /\ req[r].snap = None
           \/ next.pc = "persist" /\ req[r].snap = None /\ next.seen \in Identity
           \/ next.pc \in {"revoke_previous", "read_target"} /\ req[r].pc = "issue"
              /\ u = req[r].user
    PROVE  IInv'
  <1>1. TypeOK'
    BY DEF IInv, TypeOK, Mint
  <1>2. \A x \in Tokens : owner[x] # None => owner'[x] = owner[x]
    BY DEF IInv, TypeOK, Mint
  <1>3. owner'[t] = u
    BY DEF IInv, TypeOK, Mint
  <1>4. owner[t] = None
    BY DEF Mint
  <1>5. ASSUME NEW row \in Row, Sound(row)
        PROVE  Sound(row)'
    <2>1. /\ row.user \in Users /\ row.act_as \in Users
          /\ row.user_token \in Tokens /\ row.target_token \in Tokens
      BY DEF Row
    <2>2. None \notin Users
      BY SessionsAssumption
    <2> QED
      BY <1>2, <1>5, <2>1, <2>2 DEF Sound
  <1>6. \A s \in Sids : RowInv(s)'
    BY <1>5 DEF IInv, TypeOK, RowInv
  <1>7. \A x \in Requests : req'[x].snap = req[x].snap /\ req'[x].sid = req[x].sid
    BY DEF IInv, TypeOK
  <1>8. \A x \in Requests : SnapInv(x)'
    BY <1>5, <1>7, RequestTyped DEF IInv, SnapInv, Request
  <1>9. SeparateInv'
    BY <1>7 DEF IInv, SeparateInv, Disjoint
  <1>10. HeldInv'
    BY <1>4, <1>7, UnmintedIsNowhere DEF IInv, TypeOK, HeldInv, NotIn
  <1>11. \A x \in Requests : RequestInv(x)'
    <2> SUFFICES ASSUME NEW x \in Requests PROVE RequestInv(x)'
      OBVIOUS
    <2>1. CASE x = r
      BY <2>1, <1>3 DEF IInv, TypeOK, RequestInv, SignInPCs, EnterPCs, CookiePCs
    <2>2. CASE x # r
      <3>1. req'[x] = req[x] /\ RequestInv(x)
        BY <2>2 DEF IInv, TypeOK
      <3>2. None \notin Users
        BY SessionsAssumption
      <3> QED
        BY <3>1, <3>2, <1>2 DEF RequestInv
    <2> QED
      BY <2>1, <2>2
  <1> QED
    BY <1>1, <1>6, <1>8, <1>9, <1>10, <1>11 DEF IInv

(***************************************************************************)
(* A new row.                                                              *)
(***************************************************************************)
LEMMA NewRow ==
    ASSUME IInv, NEW r \in Requests, NEW s \in Sids, Persist(r, s)
    PROVE  \E row \in Row :
              /\ rows' = [rows EXCEPT ![s] = row]
              /\ row.user = req[r].user /\ row.act_as = req[r].user
              /\ row.user_token = req[r].token /\ row.target_token = req[r].token
              /\ row.actor_role = RoleOf(req[r].user)
  <1> DEFINE row == [user |-> req[r].user, act_as |-> req[r].user,
                     user_token |-> req[r].token, target_token |-> req[r].token,
                     actor_role |-> RoleOf(req[r].user), actor_realm |-> LoginRealm(r),
                     realm |-> LoginRealm(r), identity |-> req[r].seen]
  <1>1. req[r].token \in Tokens /\ req[r].user \in Users /\ req[r].seen \in Identity
    BY DEF IInv, Persist, RequestInv, SignInPCs
  <1>2. LoginRealm(r) \in Users \cup {None} /\ RoleOf(req[r].user) \in Roles
    BY <1>1 DEF LoginRealm, RoleOf, Roles
  <1>3. rows' = [rows EXCEPT ![s] = row]
    BY DEF Persist
  <1>4. row \in Row
    BY <1>1, <1>2 DEF Row
  <1> QED
    BY <1>3, <1>4

LEMMA PersistInv ==
    ASSUME IInv, NEW r \in Requests, NEW s \in Sids, Persist(r, s)
    PROVE  IInv'
  <1> DEFINE next == [req[r] EXCEPT !.pc = "done", !.sid = s]
  <1>1. /\ req[r].token \in Tokens
        /\ req[r].user \in Users
        /\ owner[req[r].token] = req[r].user
        /\ req[r].snap = None
    BY DEF IInv, Persist, RequestInv, SignInPCs
  <1>3. PICK row \in Row :
           /\ rows' = [rows EXCEPT ![s] = row]
           /\ row.user = req[r].user /\ row.act_as = req[r].user
           /\ row.user_token = req[r].token /\ row.target_token = req[r].token
           /\ row.actor_role = RoleOf(req[r].user)
    BY NewRow
  <1>4. next \in Request /\ next.snap = None /\ next.pc = "done"
    <2>1. req[r] \in Request
      BY RequestTyped DEF IInv
    <2>2. "done" \in PCs
      BY DEF PCs
    <2>3. next \in Request
      BY <2>1, <2>2 DEF Request
    <2>4. next.snap = None /\ next.pc = "done"
      BY <1>1, <2>1 DEF Request
    <2> QED
      BY <2>3, <2>4
  <1>5. req' = [req EXCEPT ![r] = next] /\ rows' = [rows EXCEPT ![s] = row]
    BY <1>3 DEF Persist, IInv, TypeOK
  <1>6. UNCHANGED <<owner, live>> /\ ids' = ids \cup {s} /\ s \notin ids
        /\ req[r].pc = "persist"
    BY DEF Persist
  <1> HIDE DEF next
  <1>7. TypeOK'
    BY <1>3, <1>4, <1>5, <1>6 DEF IInv, TypeOK
  <1>8. Sound(row)
    BY <1>1, <1>3, <1>6 DEF Sound
  <1>9. \A x \in Sids : RowInv(x)'
    BY <1>5, <1>6, <1>8 DEF IInv, TypeOK, RowInv, Sound
  <1>10. /\ \A x \in Requests : req'[x].snap = req[x].snap
         /\ \A x \in Requests : x # r => req'[x] = req[x]
         /\ req'[r].snap = None
    BY <1>1, <1>4, <1>5 DEF IInv, TypeOK
  <1>11. \A x \in Requests : SnapInv(x)'
    <2> SUFFICES ASSUME NEW x \in Requests, req'[x].snap # None PROVE SnapInv(x)'
      BY DEF SnapInv
    <2>1. x # r
      BY <1>10
    <2> req'[x] = req[x]
      BY <2>1, <1>10
    <2>2. req[x].sid \in ids /\ req[x].sid # s
      BY <2>1, <1>6 DEF IInv, SnapInv
    <2>3. req[x].sid \in Sids
      BY <2>2 DEF IInv, TypeOK
    <2> QED
      BY <2>1, <2>2, <2>3, <1>5, <1>6 DEF IInv, TypeOK, SnapInv, Sound
  <1>12. /\ \A x \in Sids : rows[x] # None => NotIn(req[r].token, rows[x])
         /\ \A x \in Requests : req[x].snap # None => NotIn(req[r].token, req[x].snap)
         /\ \A x \in Requests : x # r /\ req[x].pc \in HoldingPCs =>
                req[x].token # req[r].token
    BY <1>6 DEF IInv, HeldInv, HoldingPCs, SignInPCs
  <1>13. SeparateInv'
    <2>1. \A x \in Sids : rows'[x] = IF x = s THEN row ELSE rows[x]
      BY <1>5 DEF IInv, TypeOK
    <2>2. \A other : NotIn(req[r].token, other) =>
              Disjoint(row, other) /\ Disjoint(other, row)
      BY <1>3 DEF NotIn, Disjoint
    <2>3. ASSUME NEW s1 \in Sids, NEW s2 \in Sids, s1 # s2,
                 rows'[s1] # None, rows'[s2] # None
          PROVE  Disjoint(rows'[s1], rows'[s2])
      BY <2>1, <2>2, <2>3, <1>12 DEF IInv, SeparateInv
    <2>4. ASSUME NEW x \in Sids, NEW y \in Requests,
                 rows'[x] # None, req'[y].snap # None, req'[y].sid # x
          PROVE  Disjoint(rows'[x], req'[y].snap)
      <3>1. y # r
        BY <2>4, <1>10
      <3>2. req'[y] = req[y]
        BY <3>1, <1>10
      <3> QED
        BY <2>1, <2>2, <2>4, <3>2, <1>12 DEF IInv, SeparateInv
    <2>5. ASSUME NEW x \in Requests, NEW y \in Requests,
                 req'[x].snap # None, req'[y].snap # None, req'[x].sid # req'[y].sid
          PROVE  Disjoint(req'[x].snap, req'[y].snap)
      <3>1. x # r /\ y # r
        BY <2>5, <1>10
      <3>2. req'[x] = req[x] /\ req'[y] = req[y]
        BY <3>1, <1>10
      <3> QED
        BY <2>5, <3>2 DEF IInv, SeparateInv
    <2>6. /\ \A s1, s2 \in Sids :
              s1 # s2 /\ rows'[s1] # None /\ rows'[s2] # None =>
                  Disjoint(rows'[s1], rows'[s2])
          /\ \A x \in Sids, y \in Requests :
              rows'[x] # None /\ req'[y].snap # None /\ req'[y].sid # x =>
                  Disjoint(rows'[x], req'[y].snap)
          /\ \A x, y \in Requests :
              req'[x].snap # None /\ req'[y].snap # None /\ req'[x].sid # req'[y].sid =>
                  Disjoint(req'[x].snap, req'[y].snap)
      BY <2>3, <2>4, <2>5
    <2> QED
      BY <2>6 DEF SeparateInv, Disjoint
  <1>14. HeldInv'
    BY <1>3, <1>4, <1>5, <1>10, <1>12
       DEF IInv, TypeOK, HeldInv, NotIn, HoldingPCs, SignInPCs, EnterPCs
  <1>15. \A x \in Requests : RequestInv(x)'
    BY <1>4, <1>5, <1>6 DEF IInv, TypeOK, RequestInv, SignInPCs, EnterPCs, CookiePCs
  <1> QED
    BY <1>7, <1>9, <1>11, <1>13, <1>14, <1>15 DEF IInv

(***************************************************************************)
(* A request that begins takes a copy of the row of its session.           *)
(***************************************************************************)
LEMMA BeginInv ==
    ASSUME IInv, NEW r \in Requests, NEW s \in Sids, NEW op \in CookieRoutes,
           NEW to \in Users \cup {None}, NEW pc, Begin(r, s, op, to, pc),
           \/ pc \in {"done", "failed"}
           \/ rows[s] # None /\ pc \in {"revoke_act_as", "revoke_user", "change_password"}
           \/ /\ rows[s] # None /\ pc = "issue"
              /\ to \in Users /\ to # rows[s].user /\ rows[s].user \in Admins
    PROVE  IInv'
  <1> DEFINE next == [req[r] EXCEPT !.pc = pc, !.op = op, !.sid = s,
                                    !.user = to, !.snap = rows[s]]
  <1>1. /\ req' = [req EXCEPT ![r] = next]
        /\ UNCHANGED <<owner, live, rows, ids>>
        /\ s \in ids
        /\ req[r].pc = "new"
    BY DEF Begin, Arrives, IInv, TypeOK
  <1>2. rows[s] \in Row \cup {None}
    BY DEF IInv, TypeOK
  <1>3. pc \in PCs /\ op \in AllOps
    BY DEF PCs, AllOps, CookieRoutes, AccountOps
  <1>4. /\ next \in Request
        /\ next.pc = pc /\ next.op = op /\ next.sid = s
        /\ next.user = to /\ next.snap = rows[s]
    BY <1>2, <1>3, RequestTyped DEF IInv, Request
  <1> HIDE DEF next
  <1>5. TypeOK'
    BY <1>1, <1>4 DEF IInv, TypeOK
  <1>6. /\ req'[r] = next
        /\ \A x \in Requests : x # r => req'[x] = req[x]
    BY <1>1 DEF IInv, TypeOK
  <1>7. \A x \in Requests : RequestInv(x)'
    BY <1>1, <1>2, <1>4, <1>6
       DEF IInv, RequestInv, SignInPCs, EnterPCs, CookiePCs
  <1>8. \A x \in Requests : SnapInv(x)'
    BY <1>1, <1>4, <1>6 DEF IInv, SnapInv, RowInv, Sound
  <1>9. \A x \in Sids : RowInv(x)'
    BY <1>1 DEF IInv, RowInv, Sound
  <1>10. SeparateInv'
    BY <1>1, <1>4, <1>6 DEF IInv, SeparateInv, Disjoint
  <1>11. HeldInv'
    <2>1. pc \notin HoldingPCs
      BY DEF HoldingPCs, SignInPCs, EnterPCs
    <2> QED
      BY <2>1, <1>1, <1>4, <1>6 DEF IInv, HeldInv, NotIn
  <1> QED
    BY <1>5, <1>7, <1>8, <1>9, <1>10, <1>11 DEF IInv

(***************************************************************************)
(* A session whose row is rewritten: the actor and user_token stay, and    *)
(* target_token becomes the PAT the request holds, or user_token.          *)
(***************************************************************************)
LEMMA UpdateInv ==
    ASSUME IInv, NEW r \in Requests, NEW s \in Sids, NEW row \in Row,
           rows[s] # None, rows' = [rows EXCEPT ![s] = row],
           GoTo(r, "done"), UNCHANGED <<owner, live, ids>>,
           Sound(row),
           row.user = rows[s].user, row.user_token = rows[s].user_token,
           \/ row.target_token = row.user_token
           \/ req[r].pc = "write_act_as" /\ row.target_token = req[r].token
    PROVE  IInv'
  <1>1. TypeOK'
    BY PcTyped DEF IInv, TypeOK, PCs
  <1>2. \A x \in Sids : rows'[x] = IF x = s THEN row ELSE rows[x]
    BY DEF IInv, TypeOK
  <1>3. \A x \in Requests :
            /\ req'[x].snap = req[x].snap /\ req'[x].sid = req[x].sid
            /\ req'[x].token = req[x].token
            /\ req'[x].pc \in HoldingPCs => x # r /\ req[x].pc \in HoldingPCs
    BY DEF GoTo, IInv, TypeOK, HoldingPCs, SignInPCs, EnterPCs
  <1>4. \A x \in Requests : RequestInv(x)'
    BY DEF GoTo, IInv, TypeOK, RequestInv, SignInPCs, EnterPCs, CookiePCs
  <1>5. \A x \in Sids : RowInv(x)'
    BY <1>2 DEF IInv, RowInv, Sound
  <1>6. \A x \in Requests : SnapInv(x)'
    <2> SUFFICES ASSUME NEW x \in Requests, req[x].snap # None PROVE SnapInv(x)'
      BY <1>3 DEF SnapInv
    <2>1. req[x].sid \in Sids /\ req[x].sid \in ids
      BY DEF IInv, TypeOK, SnapInv
    <2> QED
      BY <1>2, <1>3, <2>1 DEF IInv, SnapInv, Sound
  <1>7. /\ \A x \in Sids : rows[x] # None /\ x # s => Disjoint(row, rows[x])
        /\ \A x \in Requests : req[x].snap # None /\ req[x].sid # s =>
               Disjoint(row, req[x].snap)
        /\ \A x \in Requests : x # r /\ req[x].pc \in HoldingPCs =>
               NotIn(req[x].token, row)
    <2>1. CASE row.target_token = row.user_token
      BY <2>1 DEF IInv, SeparateInv, HeldInv, Disjoint, NotIn
    <2>2. CASE req[r].pc = "write_act_as" /\ row.target_token = req[r].token
      <3>1. req[r].pc \in HoldingPCs
        BY <2>2 DEF HoldingPCs, EnterPCs
      <3> QED
        BY <2>2, <3>1 DEF IInv, SeparateInv, HeldInv, Disjoint, NotIn
    <2> QED
      BY <2>1, <2>2
  <1>8. SeparateInv'
    <2>1. \A row1, row2 : Disjoint(row1, row2) => Disjoint(row2, row1)
      BY DEF Disjoint
    <2>2. /\ \A x, y \in Sids :
              x # y /\ rows'[x] # None /\ rows'[y] # None =>
                  Disjoint(rows'[x], rows'[y])
          /\ \A x \in Sids, y \in Requests :
              rows'[x] # None /\ req'[y].snap # None /\ req'[y].sid # x =>
                  Disjoint(rows'[x], req'[y].snap)
          /\ \A x, y \in Requests :
              req'[x].snap # None /\ req'[y].snap # None /\ req'[x].sid # req'[y].sid =>
                  Disjoint(req'[x].snap, req'[y].snap)
      BY <1>2, <1>3, <1>7, <2>1 DEF IInv, SeparateInv
    <2> QED
      BY <2>2 DEF SeparateInv, Disjoint
  <1>9. HeldInv'
    BY <1>2, <1>3, <1>7 DEF IInv, HeldInv, NotIn
  <1> QED
    BY <1>1, <1>4, <1>5, <1>6, <1>8, <1>9 DEF IInv

(***************************************************************************)
(* The actions, in the order of Sessions.                                  *)
(***************************************************************************)
LEMMA SignInSteps ==
    ASSUME IInv, NEW r \in Requests, NEW u \in Users, NEW t \in Tokens
    PROVE  /\ Authenticate(r, u, t) => IInv'
           /\ \A op \in SignInOps : Join(r, u, t, op) => IInv'
  <1>1. req[r] \in Request
    BY RequestTyped DEF IInv
  <1>2. ASSUME Authenticate(r, u, t) PROVE IInv'
    <2> DEFINE next == [req[r] EXCEPT
                           !.pc = "persist", !.user = u, !.token = t, !.seen = IdentityOf(u),
                           !.op = IF req[r].pc = "new" THEN "password" ELSE req[r].op]
    <2>1. /\ req' = [req EXCEPT ![r] = next]
          /\ Mint(t, u)
          /\ UNCHANGED <<rows, ids>>
          /\ req[r].pc \in {"new", "sign_in"}
      BY <1>2 DEF Authenticate, Arrives, IInv, TypeOK
    <2>2. "persist" \in PCs /\ "password" \in AllOps
      BY DEF PCs, AllOps, SignInOps
    <2>3. IdentityOf(u) \in Identity
      BY IdentityTyped
    <2>4. req[r].snap = None /\ req[r].pc \notin HoldingPCs
      BY <2>1 DEF IInv, RequestInv, HoldingPCs, SignInPCs, EnterPCs
    <2>5. /\ next \in Request
          /\ next.snap = req[r].snap /\ next.sid = req[r].sid
          /\ next.token = t /\ next.user = u
          /\ next.pc = "persist" /\ next.seen \in Identity
      BY <1>1, <2>2, <2>3 DEF Request
    <2> HIDE DEF next
    <2> QED
      BY <2>1, <2>4, <2>5, MintInv
  <1>3. ASSUME NEW op \in SignInOps, Join(r, u, t, op) PROVE IInv'
    <2> DEFINE next == [req[r] EXCEPT !.pc = "identify", !.op = op, !.user = u,
                                      !.token = t]
    <2>1. /\ req' = [req EXCEPT ![r] = next]
          /\ Mint(t, u)
          /\ UNCHANGED <<rows, ids>>
          /\ req[r].pc = "new"
      BY <1>3 DEF Join, Arrives, IInv, TypeOK
    <2>2. "identify" \in PCs /\ op \in AllOps
      BY DEF PCs, AllOps
    <2>3. req[r].snap = None /\ req[r].pc \notin HoldingPCs
      BY <2>1 DEF IInv, RequestInv, HoldingPCs, SignInPCs, EnterPCs
    <2>4. /\ next \in Request
          /\ next.snap = req[r].snap /\ next.sid = req[r].sid
          /\ next.token = t /\ next.user = u
          /\ next.pc = "identify"
      BY <1>1, <2>2 DEF Request
    <2> HIDE DEF next
    <2> QED
      BY <2>1, <2>3, <2>4, MintInv
  <1> QED
    BY <1>2, <1>3

LEMMA IdentifySteps ==
    ASSUME IInv, NEW r \in Requests, Identify(r) \/ IdentifyFails(r)
    PROVE  IInv'
  <1>1. req[r].pc = "identify" /\ UNCHANGED <<owner, live, rows, ids>>
    BY DEF Identify, IdentifyFails
  <1>2. req[r].user \in Users
    BY <1>1 DEF IInv, RequestInv, SignInPCs
  <1>3. ASSUME NEW seen \in Identity, Learn(r, "persist", seen) PROVE IInv'
    BY <1>1, <1>3, LearnInv
  <1>4. ASSUME GoTo(r, "failed") PROVE IInv'
    <2>1. "failed" \in PCs /\ live' \in SUBSET Tokens /\ rows' \in [Sids -> Row \cup {None}]
      BY <1>1 DEF PCs, IInv, TypeOK
    <2> QED
      BY <1>1, <1>4, <2>1, AdvanceInv
  <1> QED
    BY <1>2, <1>3, <1>4, IdentityTyped DEF Identify, IdentifyFails

\* The steps that only move their handler on, with what they do to live and rows.
LEMMA PlainSteps ==
    ASSUME IInv, NEW r \in Requests,
           \/ SignInFails(r) \/ PersistFails(r)
           \/ IssueFails(r) \/ RevokePrevious(r) \/ ReadTargetFails(r) \/ UpdateFails(r)
           \/ RevokeActAs(r)
           \/ RevokeUser(r) \/ RevokeTarget(r) \/ Destroy(r) \/ DestroyFails(r)
           \/ DestroyUser(r) \/ DestroyUserFails(r)
           \/ ChangePassword(r) \/ ChangePasswordFails(r)
    PROVE  IInv'
  <1>1. /\ UNCHANGED <<owner, ids>>
        /\ live' \in SUBSET Tokens
    BY DEF SignInFails, PersistFails, IssueFails, RevokePrevious, ReadTargetFails,
           UpdateFails, RevokeActAs, RevokeUser, RevokeTarget, Destroy, DestroyFails,
           DestroyUser, DestroyUserFails,
           ChangePassword, ChangePasswordFails, Revoke, IInv, TypeOK
  <1>2. /\ rows' \in [Sids -> Row \cup {None}]
        /\ \A s \in Sids : rows'[s] = rows[s] \/ rows'[s] = None
    BY DEF SignInFails, PersistFails, IssueFails, RevokePrevious, ReadTargetFails,
           UpdateFails, RevokeActAs, RevokeUser, RevokeTarget, Destroy, DestroyFails,
           DestroyUser, DestroyUserFails,
           ChangePassword, ChangePasswordFails, IInv, TypeOK
  <1>3. \E pc \in PCs :
           /\ GoTo(r, pc)
           /\ \/ pc \in {"done", "failed"}
              \/ req[r].pc = "revoke_previous" /\ pc = "read_target"
              \/ req[r].pc \in CookiePCs /\ pc \in {"read_actor", "revoke_target", "destroy"}
              \/ req[r].pc = "end_sessions" /\ pc = "sign_in"
    BY DEF SignInFails, PersistFails, IssueFails, RevokePrevious, ReadTargetFails,
           UpdateFails, RevokeActAs, RevokeUser, RevokeTarget, Destroy, DestroyFails,
           DestroyUser, DestroyUserFails,
           ChangePassword, ChangePasswordFails, AfterEnd, PCs, CookiePCs, EnterPCs
  <1> QED
    BY <1>1, <1>2, <1>3, AdvanceInv

LEMMA BeginSteps ==
    ASSUME IInv, NEW r \in Requests, NEW s \in Sids,
           \/ BeginRead(r, s) \/ BeginExit(r, s) \/ BeginSignOut(r, s)
           \/ BeginChangePassword(r, s)
           \/ \E u \in Users : BeginEnter(r, s, u)
           \/ \E op \in CookieRoutes : BeginSignedOut(r, s, op)
    PROVE  IInv'
  <1>1. {"read", "enter", "exit", "signout", "change_password"} \subseteq CookieRoutes
    BY DEF CookieRoutes, SessionOps
  <1>2. CASE BeginRead(r, s)
    BY <1>1, <1>2, BeginInv DEF BeginRead
  <1>3. CASE BeginExit(r, s)
    BY <1>1, <1>3, BeginInv DEF BeginExit
  <1>4. CASE BeginSignOut(r, s)
    BY <1>1, <1>4, BeginInv DEF BeginSignOut
  <1>5. ASSUME NEW u \in Users, BeginEnter(r, s, u) PROVE IInv'
    <2>1. rows[s] # None
      BY <1>5 DEF BeginEnter
    <2>2. rows[s].actor_role = "admin" => rows[s].user \in Admins
      BY <2>1 DEF IInv, RowInv, Sound, RoleOf
    <2> QED
      BY <1>1, <1>5, <2>1, <2>2, BeginInv DEF BeginEnter
  <1>6. ASSUME NEW op \in CookieRoutes, BeginSignedOut(r, s, op) PROVE IInv'
    BY <1>6, BeginInv DEF BeginSignedOut
  <1>7. CASE BeginChangePassword(r, s)
    BY <1>1, <1>7, BeginInv DEF BeginChangePassword
  <1> QED
    BY <1>2, <1>3, <1>4, <1>5, <1>6, <1>7

LEMMA IssueInv ==
    ASSUME IInv, NEW r \in Requests, NEW t \in Tokens, Issue(r, t)
    PROVE  IInv'
  <1> DEFINE next == [req[r] EXCEPT
                         !.token = t,
                         !.pc = IF req[r].snap.target_token # req[r].snap.user_token
                                   THEN "revoke_previous" ELSE "read_target"]
  <1>1. /\ req' = [req EXCEPT ![r] = next]
        /\ Mint(t, req[r].user)
        /\ UNCHANGED <<rows, ids>>
        /\ req[r].pc = "issue"
    BY DEF Issue, IInv, TypeOK
  <1>2. req[r].user \in Users /\ req[r].pc \notin HoldingPCs
    BY <1>1 DEF IInv, RequestInv, HoldingPCs, SignInPCs, EnterPCs
  <1>3. "revoke_previous" \in PCs /\ "read_target" \in PCs
    BY DEF PCs
  <1>4. /\ next \in Request
        /\ next.snap = req[r].snap /\ next.sid = req[r].sid
        /\ next.token = t /\ next.user = req[r].user
        /\ next.pc \in {"revoke_previous", "read_target"}
    BY <1>3, RequestTyped DEF IInv, Request
  <1> HIDE DEF next
  <1> QED
    BY <1>1, <1>2, <1>4, MintInv

LEMMA ReadSteps ==
    ASSUME IInv, NEW r \in Requests, ReadTarget(r) \/ ReadActor(r) \/ ReadActorFails(r)
    PROVE  IInv'
  <1>1. ASSUME ReadTarget(r) PROVE IInv'
    <2>1. req[r].pc = "read_target" /\ UNCHANGED <<owner, live, rows, ids>>
      BY <1>1 DEF ReadTarget
    <2>2. req[r].user \in Users
      BY <2>1 DEF IInv, RequestInv, EnterPCs
    <2>3. PICK access \in {req[r].user, None} :
              Learn(r, "write_act_as", [IdentityOf(req[r].user) EXCEPT !.access = access])
      BY <1>1 DEF ReadTarget
    <2>4. [IdentityOf(req[r].user) EXCEPT !.access = access] \in Identity
      BY <2>2, IdentityTyped DEF Identity
    <2> QED
      BY <2>1, <2>3, <2>4, LearnInv
  <1>2. ASSUME ReadActor(r) \/ ReadActorFails(r) PROVE IInv'
    <2>1. req[r].pc = "read_actor" /\ UNCHANGED <<owner, live, rows, ids>>
      BY <1>2 DEF ReadActor, ReadActorFails
    <2>2. req[r].snap \in Row
      BY <2>1 DEF IInv, RequestInv, CookiePCs
    <2>3. /\ IdentityOf(req[r].snap.user) \in Identity
          /\ [req[r].snap.identity EXCEPT !.role = req[r].snap.actor_role] \in Identity
      BY <2>2, IdentityTyped DEF Row, Identity
    <2> QED
      BY <1>2, <2>1, <2>3, LearnInv DEF ReadActor, ReadActorFails
  <1> QED
    BY <1>1, <1>2

\* update_act_as and restore_actor change nothing when the row is gone.
LEMMA LateUpdateInv ==
    ASSUME IInv, NEW r \in Requests, GoTo(r, "done"), UNCHANGED <<owner, live, rows, ids>>
    PROVE  IInv'
  BY AdvanceInv DEF IInv, TypeOK, PCs

LEMMA WriteActAsInv ==
    ASSUME IInv, NEW r \in Requests, WriteActAs(r)
    PROVE  IInv'
  <1> DEFINE s == req[r].sid
  <1> DEFINE row == [rows[s] EXCEPT !.act_as = req[r].user, !.target_token = req[r].token,
                                    !.realm = req[r].user, !.identity = req[r].seen]
  <1>1. /\ req[r].pc = "write_act_as"
        /\ GoTo(r, "done") /\ UNCHANGED <<owner, live, ids>>
        /\ rows' = IF rows[s] = None THEN rows ELSE [rows EXCEPT ![s] = row]
    BY DEF WriteActAs, UpdateRow
  <1>2. CASE rows[s] = None
    BY <1>1, <1>2, LateUpdateInv
  <1>3. CASE rows[s] # None
    <2>1. /\ req[r].user \in Users /\ req[r].token \in Tokens
          /\ req[r].seen \in Identity /\ req[r].snap \in Row
          /\ req[r].user # req[r].snap.user /\ req[r].snap.user \in Admins
          /\ owner[req[r].token] = req[r].user
      BY <1>1 DEF IInv, RequestInv, EnterPCs, CookiePCs
    <2>2. /\ s \in Sids
          /\ rows[s].user = req[r].snap.user
      BY <1>3, <2>1, SessionsAssumption DEF IInv, TypeOK, SnapInv
    <2>3. rows[s] \in Row /\ Sound(rows[s])
      BY <1>3, <2>2 DEF IInv, TypeOK, RowInv
    <2>4. req[r].token # rows[s].user_token
      BY <1>1, <1>3, <2>2 DEF IInv, HeldInv, NotIn, HoldingPCs, EnterPCs
    <2>5. /\ row \in Row
          /\ row.user = rows[s].user /\ row.user_token = rows[s].user_token
          /\ row.act_as = req[r].user /\ row.target_token = req[r].token
          /\ row.actor_role = rows[s].actor_role
      BY <2>1, <2>3 DEF Row
    <2> HIDE DEF row
    <2>6. Sound(row)
      BY <2>1, <2>2, <2>3, <2>4, <2>5 DEF Sound
    <2> QED
      BY <1>1, <1>3, <2>2, <2>5, <2>6, UpdateInv
  <1> QED
    BY <1>2, <1>3

LEMMA RestoreActorInv ==
    ASSUME IInv, NEW r \in Requests, RestoreActor(r)
    PROVE  IInv'
  <1> DEFINE s == req[r].sid
  <1> DEFINE row == [rows[s] EXCEPT !.act_as = rows[s].user,
                                    !.target_token = rows[s].user_token,
                                    !.realm = rows[s].actor_realm, !.identity = req[r].seen]
  <1>1. /\ req[r].pc = "restore"
        /\ GoTo(r, "done") /\ UNCHANGED <<owner, live, ids>>
        /\ rows' = IF rows[s] = None THEN rows ELSE [rows EXCEPT ![s] = row]
    BY DEF RestoreActor, UpdateRow
  <1>2. CASE rows[s] = None
    BY <1>1, <1>2, LateUpdateInv
  <1>3. CASE rows[s] # None
    <2>1. req[r].seen \in Identity /\ req[r].snap \in Row
      BY <1>1 DEF IInv, RequestInv, CookiePCs
    <2>2. s \in Sids
      BY <2>1, SessionsAssumption DEF IInv, TypeOK, SnapInv
    <2>3. rows[s] \in Row /\ Sound(rows[s])
      BY <1>3, <2>2 DEF IInv, TypeOK, RowInv
    <2>4. /\ row \in Row
          /\ row.user = rows[s].user /\ row.user_token = rows[s].user_token
          /\ row.act_as = rows[s].user /\ row.target_token = rows[s].user_token
          /\ row.actor_role = rows[s].actor_role
      BY <2>1, <2>3 DEF Row
    <2> HIDE DEF row
    <2>5. Sound(row)
      BY <2>3, <2>4 DEF Sound
    <2> QED
      BY <1>1, <1>3, <2>2, <2>4, <2>5, UpdateInv
  <1> QED
    BY <1>2, <1>3

LEMMA EndAtCoreInv ==
    ASSUME IInv, NEW r \in Requests, NEW u \in Users, NEW op \in EndOps, EndAtCore(r, u, op)
    PROVE  IInv'
  <1> DEFINE next == [req[r] EXCEPT !.pc = "end_sessions", !.op = op, !.user = u]
  <1>1. /\ req' = [req EXCEPT ![r] = next]
        /\ live' = {t \in live : owner[t] # u}
        /\ UNCHANGED <<owner, rows, ids>>
        /\ req[r].pc = "new"
    BY DEF EndAtCore, Arrives, IInv, TypeOK
  <1>2. "end_sessions" \in PCs /\ op \in AllOps
    BY DEF PCs, AllOps
  <1>3. /\ next \in Request
        /\ next.snap = req[r].snap /\ next.sid = req[r].sid
        /\ next.pc = "end_sessions" /\ next.user = u
    BY <1>2, RequestTyped DEF IInv, Request
  <1> HIDE DEF next
  <1>4. req[r].snap = None
    BY <1>1 DEF IInv, RequestInv
  <1>5. TypeOK'
    BY <1>1, <1>3 DEF IInv, TypeOK
  <1>6. Quiet
    BY <1>1, <1>3 DEF Quiet, IInv, TypeOK, HoldingPCs, SignInPCs, EnterPCs
  <1>7. \A x \in Requests : RequestInv(x)'
    BY <1>1, <1>3, <1>4 DEF IInv, TypeOK, RequestInv, SignInPCs, EnterPCs, CookiePCs
  <1> QED
    BY <1>5, <1>6, <1>7, QuietInv

LEMMA RevokeTokenInv ==
    ASSUME IInv, NEW r \in Requests, NEW t \in Tokens, RevokeToken(r, t)
    PROVE  IInv'
  <1> DEFINE next == [req[r] EXCEPT !.pc = "done", !.op = "revoke_token", !.revoked = t]
  <1>1. /\ req' = [req EXCEPT ![r] = next]
        /\ live' = live \ {t}
        /\ UNCHANGED <<owner, rows, ids>>
        /\ req[r].pc = "new"
    BY DEF RevokeToken, Arrives, IInv, TypeOK
  <1>2. "done" \in PCs /\ "revoke_token" \in AllOps
    BY DEF PCs, AllOps, AccountOps
  <1>3. /\ next \in Request
        /\ next.snap = req[r].snap /\ next.sid = req[r].sid
        /\ next.pc = "done"
    BY <1>2, RequestTyped DEF IInv, Request
  <1> HIDE DEF next
  <1>4. TypeOK'
    BY <1>1, <1>3 DEF IInv, TypeOK
  <1>5. Quiet
    BY <1>1, <1>3 DEF Quiet, IInv, TypeOK, HoldingPCs, SignInPCs, EnterPCs
  <1>6. \A x \in Requests : RequestInv(x)'
    BY <1>1, <1>3 DEF IInv, TypeOK, RequestInv, SignInPCs, EnterPCs, CookiePCs
  <1> QED
    BY <1>4, <1>5, <1>6, QuietInv

LEMMA LapseInv ==
    ASSUME IInv, NEW s \in Sids, Lapse(s)
    PROVE  IInv'
  <1>1. Quiet
    BY DEF Lapse, Quiet, IInv, TypeOK
  <1>2. TypeOK' /\ \A x \in Requests : RequestInv(x)'
    BY DEF Lapse, IInv, TypeOK, RequestInv
  <1> QED
    BY <1>1, <1>2, QuietInv

\* Every step keeps the invariant.
LEMMA NextInv == IInv /\ [Next]_vars => IInv'
  <1> SUFFICES ASSUME IInv, [Next]_vars PROVE IInv'
    OBVIOUS
  <1>1. ASSUME NEW r \in Requests, Arrival(r) PROVE IInv'
    BY <1>1, SignInSteps, BeginSteps, EndAtCoreInv, RevokeTokenInv DEF Arrival
  <1>2. ASSUME NEW r \in Requests, Continue(r) PROVE IInv'
    BY <1>2, SignInSteps, IssueInv, PersistInv, IdentifySteps, PlainSteps, ReadSteps,
       WriteActAsInv, RestoreActorInv DEF Continue
  <1>3. ASSUME NEW s \in Sids, Lapse(s) PROVE IInv'
    BY <1>3, LapseInv
  <1>4. CASE UNCHANGED vars
    BY <1>4 DEF vars, IInv, TypeOK, RequestInv, SnapInv, RowInv, Sound, SeparateInv,
                Disjoint, HeldInv, NotIn
  <1> QED
    BY <1>1, <1>2, <1>3, <1>4 DEF Next

(***************************************************************************)
(* The theorems.                                                           *)
(***************************************************************************)

\* What the requests hold and what the table holds agree in every reachable
\* state: the inductive invariant of the session handlers.
THEOREM Invariance == Spec => []IInv
  BY InitInv, NextInv, PTL DEF Spec

\* Every handler keeps the table, Core's tokens and the requests well formed.
THEOREM TypeCorrect == Spec => []TypeOK
  <1>1. IInv => TypeOK
    BY DEF IInv
  <1> QED
    BY <1>1, Invariance, PTL

\* A row is a version of session s when it is in the table or in a request's
\* hands: every version is sound, and versions of two sessions are disjoint.
LEMMA VersionsOf ==
    ASSUME IInv, NEW s \in Sids, NEW row \in Versions(s)
    PROVE  /\ row \in Row
           /\ Sound(row)
           /\ \A z \in Sids : \A other \in Versions(z) : s # z => Disjoint(row, other)
  <1>1. \A z \in Sids : \A x \in Versions(z) :
            \/ rows[z] # None /\ x = rows[z]
            \/ \E r \in Requests : req[r].sid = z /\ req[r].snap # None /\ x = req[r].snap
    BY DEF Versions, RowOf, SnapsOf
  <1>2. row \in Row /\ Sound(row)
    BY <1>1, RequestTyped DEF IInv, TypeOK, RowInv, SnapInv, Request
  <1>3. ASSUME NEW z \in Sids, NEW other \in Versions(z), s # z
        PROVE  Disjoint(row, other)
    <2>1. \A row1, row2 : Disjoint(row1, row2) => Disjoint(row2, row1)
      BY DEF Disjoint
    <2> QED
      BY <1>1, <1>3, <2>1 DEF IInv, SeparateInv
  <1> QED
    BY <1>2, <1>3

\* However act-as, stop and sign-out interleave and fail, the bearer of a
\* session is a PAT of the user it acts as, and only admins act as others.
THEOREM BearerTheorem == Spec => []BearerIsActingUser
  <1>1. IInv => BearerIsActingUser
    BY VersionsOf DEF BearerIsActingUser, Sound
  <1> QED
    BY <1>1, Invariance, PTL

\* Revoking the tokens of one session never touches another.
THEOREM OneSessionTheorem == Spec => []OneSessionPerToken
  <1>1. ASSUME IInv, NEW x \in Sids, NEW y \in Sids, x # y
        PROVE  TokensOf(x) \cap TokensOf(y) = {}
    <2>1. ASSUME NEW row1 \in Versions(x), NEW row2 \in Versions(y)
          PROVE  {row1.user_token, row1.target_token}
                     \cap {row2.user_token, row2.target_token} = {}
      <3>1. Disjoint(row1, row2)
        BY <1>1, <2>1, VersionsOf
      <3> QED
        BY <3>1 DEF Disjoint
    <2> QED
      BY <2>1 DEF TokensOf
  <1>2. IInv => OneSessionPerToken
    BY <1>1 DEF OneSessionPerToken
  <1> QED
    BY <1>2, Invariance, PTL

(***************************************************************************)
(* Sessions implements SessionIdentity: each step of a handler is a step   *)
(* of the promise or changes nothing Core can see of a session.            *)
(***************************************************************************)
LEMMA PromiseStutters ==
    ASSUME IInv, UNCHANGED <<rows, ids>>,
           \A t \in Tokens : owner[t] # None => owner'[t] = owner[t]
    PROVE  UNCHANGED Abstract!promise
  <1>1. ASSUME NEW s \in Sids, rows[s] # None
        PROVE  /\ owner'[rows[s].user_token] = owner[rows[s].user_token]
               /\ owner'[rows[s].target_token] = owner[rows[s].target_token]
    <2>1. rows[s] \in Row /\ Sound(rows[s])
      BY <1>1 DEF IInv, TypeOK, RowInv
    <2> QED
      BY <2>1, SessionsAssumption DEF Sound, Row
  <1>2. SpeaksAs' = SpeaksAs
    BY <1>1 DEF SpeaksAs
  <1> QED
    BY <1>2 DEF Abstract!promise

LEMMA PromiseStarts ==
    ASSUME IInv, NEW r \in Requests, NEW s \in Sids, Persist(r, s)
    PROVE  \E u \in Users : Abstract!Start(s, u)
  <1>1. /\ req[r].user \in Users
        /\ owner[req[r].token] = req[r].user
    BY DEF IInv, Persist, RequestInv, SignInPCs
  <1>2. /\ s \notin ids /\ ids' = ids \cup {s}
        /\ UNCHANGED owner
        /\ \A x \in Sids : x # s => rows'[x] = rows[x]
    BY DEF Persist, IInv, TypeOK
  <1>3. /\ rows'[s].user_token = req[r].token
        /\ rows'[s].target_token = req[r].token
        /\ rows'[s] # None
    BY NewRow, SessionsAssumption DEF IInv, TypeOK
  <1>4. SpeaksAs' = [SpeaksAs EXCEPT ![s] = [actor |-> req[r].user, as |-> req[r].user]]
    BY <1>1, <1>2, <1>3 DEF SpeaksAs
  <1> QED
    BY <1>1, <1>2, <1>4 DEF Abstract!Start

\* Rewriting the row of session s.
LEMMA PromiseUpdates ==
    ASSUME NEW s \in Sids, NEW row, row # None, rows[s] # None,
           rows \in [Sids -> Row \cup {None}],
           rows' = [rows EXCEPT ![s] = row], UNCHANGED owner,
           row.user_token = rows[s].user_token
    PROVE  /\ SpeaksAs[s] # None => SpeaksAs[s].actor = owner[rows[s].user_token]
           /\ SpeaksAs' = [SpeaksAs EXCEPT ![s].as = owner[row.target_token]]
  BY DEF SpeaksAs

\* Deleting rows.
LEMMA PromiseEnds ==
    ASSUME IInv, UNCHANGED <<owner, ids>>, rows' \in [Sids -> Row \cup {None}],
           \A s \in Sids : rows'[s] = rows[s] \/ rows'[s] = None
    PROVE  \E S \in SUBSET Sids : Abstract!End(S)
  <1> DEFINE S == {s \in Sids : rows'[s] = None}
  <1>1. SpeaksAs' = [s \in Sids |-> IF s \in S THEN None ELSE SpeaksAs[s]]
    BY DEF SpeaksAs
  <1> QED
    BY <1>1 DEF Abstract!End

LEMMA PromiseActsAs ==
    ASSUME IInv, NEW r \in Requests, WriteActAs(r)
    PROVE  \/ UNCHANGED Abstract!promise
           \/ \E s \in Sids, u \in Users : Abstract!ActAs(s, u)
  <1> DEFINE s == req[r].sid
  <1> DEFINE row == [rows[s] EXCEPT !.act_as = req[r].user, !.target_token = req[r].token,
                                    !.realm = req[r].user, !.identity = req[r].seen]
  <1>1. /\ req[r].pc = "write_act_as"
        /\ UNCHANGED <<owner, live, ids>>
        /\ rows' = IF rows[s] = None THEN rows ELSE [rows EXCEPT ![s] = row]
    BY DEF WriteActAs, UpdateRow
  <1>2. CASE rows[s] = None
    BY <1>1, <1>2, PromiseStutters
  <1>3. CASE rows[s] # None
    <2>1. /\ req[r].user \in Users /\ req[r].token \in Tokens /\ req[r].seen \in Identity
          /\ req[r].snap \in Row
          /\ req[r].user # req[r].snap.user /\ req[r].snap.user \in Admins
          /\ owner[req[r].token] = req[r].user
      BY <1>1 DEF IInv, RequestInv, EnterPCs, CookiePCs
    <2>2. s \in Sids /\ rows[s].user = req[r].snap.user
      BY <1>3, <2>1, SessionsAssumption DEF IInv, TypeOK, SnapInv
    <2>3. /\ rows[s] \in Row
          /\ owner[rows[s].user_token] = rows[s].user
          /\ owner[rows[s].target_token] = rows[s].act_as
      BY <1>3, <2>2 DEF IInv, TypeOK, RowInv, Sound
    <2>4. /\ row \in Row
          /\ row.user_token = rows[s].user_token /\ row.target_token = req[r].token
      BY <2>1, <2>3 DEF Row
    <2> HIDE DEF row
    <2>5. SpeaksAs[s] # None
      BY <1>3, <2>2, <2>3, SessionsAssumption DEF SpeaksAs, Row
    <2>6. rows \in [Sids -> Row \cup {None}] /\ row # None
      BY <2>4, SessionsAssumption DEF IInv, TypeOK
    <2>7. UNCHANGED owner /\ rows' = [rows EXCEPT ![s] = row]
      BY <1>1, <1>3
    <2> HIDE DEF s
    <2>8. /\ SpeaksAs[s].actor = owner[rows[s].user_token]
          /\ SpeaksAs' = [SpeaksAs EXCEPT ![s].as = owner[row.target_token]]
      BY <1>3, <2>2, <2>4, <2>5, <2>6, <2>7, PromiseUpdates
    <2> QED
      BY <1>1, <2>1, <2>2, <2>3, <2>4, <2>5, <2>8 DEF Abstract!ActAs
  <1> QED
    BY <1>2, <1>3

LEMMA PromiseStops ==
    ASSUME IInv, NEW r \in Requests, RestoreActor(r)
    PROVE  \/ UNCHANGED Abstract!promise
           \/ \E s \in Sids : Abstract!Stop(s)
  <1> DEFINE s == req[r].sid
  <1> DEFINE row == [rows[s] EXCEPT !.act_as = rows[s].user,
                                    !.target_token = rows[s].user_token,
                                    !.realm = rows[s].actor_realm, !.identity = req[r].seen]
  <1>1. /\ req[r].pc = "restore"
        /\ UNCHANGED <<owner, live, ids>>
        /\ rows' = IF rows[s] = None THEN rows ELSE [rows EXCEPT ![s] = row]
    BY DEF RestoreActor, UpdateRow
  <1>2. CASE rows[s] = None
    BY <1>1, <1>2, PromiseStutters
  <1>3. CASE rows[s] # None
    <2>1. req[r].snap \in Row /\ req[r].seen \in Identity
      BY <1>1 DEF IInv, RequestInv, CookiePCs
    <2>2. s \in Sids
      BY <2>1, SessionsAssumption DEF IInv, TypeOK, SnapInv
    <2>3. /\ rows[s] \in Row
          /\ owner[rows[s].user_token] = rows[s].user
          /\ owner[rows[s].target_token] = rows[s].act_as
      BY <1>3, <2>2 DEF IInv, TypeOK, RowInv, Sound
    <2>4. /\ row \in Row
          /\ row.user_token = rows[s].user_token
          /\ row.target_token = rows[s].user_token
      BY <2>1, <2>3 DEF Row
    <2> HIDE DEF row
    <2>5. SpeaksAs[s] # None
      BY <1>3, <2>2, <2>3, SessionsAssumption DEF SpeaksAs, Row
    <2>6. rows \in [Sids -> Row \cup {None}] /\ row # None
      BY <2>4, SessionsAssumption DEF IInv, TypeOK
    <2>7. UNCHANGED owner /\ rows' = [rows EXCEPT ![s] = row]
      BY <1>1, <1>3
    <2> HIDE DEF s
    <2>8. /\ SpeaksAs[s].actor = owner[rows[s].user_token]
          /\ SpeaksAs' = [SpeaksAs EXCEPT ![s].as = owner[row.target_token]]
      BY <1>3, <2>2, <2>4, <2>5, <2>6, <2>7, PromiseUpdates
    <2> QED
      BY <1>1, <2>2, <2>4, <2>5, <2>8 DEF Abstract!Stop
  <1> QED
    BY <1>2, <1>3

\* Requests that begin change nothing the promise mentions.
LEMMA PromiseArrivals ==
    ASSUME IInv, NEW r \in Requests, Arrival(r)
    PROVE  UNCHANGED Abstract!promise
  <1>1. UNCHANGED <<rows, ids>>
    BY DEF Arrival, Authenticate, Join, BeginRead, BeginExit, BeginSignOut, BeginEnter,
           BeginSignedOut, BeginChangePassword, Begin, EndAtCore, RevokeToken
  <1>2. UNCHANGED owner \/ \E u \in Users, t \in Tokens : Mint(t, u)
    BY DEF Arrival, Authenticate, Join, BeginRead, BeginExit, BeginSignOut, BeginEnter,
           BeginSignedOut, BeginChangePassword, Begin, EndAtCore, RevokeToken
  <1>3. \A t \in Tokens : owner[t] # None => owner'[t] = owner[t]
    BY <1>2 DEF Mint, IInv, TypeOK
  <1> QED
    BY <1>1, <1>3, PromiseStutters

\* The next step of a handler starts, switches or ends sessions, or changes
\* nothing the promise mentions.
LEMMA PromiseSteps ==
    ASSUME IInv, NEW r \in Requests, Continue(r)
    PROVE  Abstract!PromiseNext \/ UNCHANGED Abstract!promise
  <1>1. CASE \E t \in Tokens : \/ \E u \in Users : Authenticate(r, u, t)
                              \/ Issue(r, t)
    <2>1. UNCHANGED <<rows, ids>>
      BY <1>1 DEF Authenticate, Issue
    <2>2. \A t \in Tokens : owner[t] # None => owner'[t] = owner[t]
      BY <1>1 DEF Authenticate, Issue, Mint, IInv, TypeOK
    <2> QED
      BY <2>1, <2>2, PromiseStutters
  <1>2. CASE \E s \in Sids : Persist(r, s)
    BY <1>2, PromiseStarts DEF Abstract!PromiseNext
  <1>3. CASE WriteActAs(r)
    BY <1>3, PromiseActsAs DEF Abstract!PromiseNext
  <1>4. CASE RestoreActor(r)
    BY <1>4, PromiseStops DEF Abstract!PromiseNext
  <1>5. CASE Destroy(r) \/ DestroyUser(r)
    <2>1. /\ UNCHANGED <<owner, ids>> /\ rows' \in [Sids -> Row \cup {None}]
          /\ \A s \in Sids : rows'[s] = rows[s] \/ rows'[s] = None
      BY <1>5 DEF Destroy, DestroyUser, IInv, TypeOK
    <2> QED
      BY <2>1, PromiseEnds DEF Abstract!PromiseNext
  <1>6. CASE \/ SignInFails(r) \/ Identify(r) \/ IdentifyFails(r) \/ PersistFails(r)
             \/ IssueFails(r) \/ RevokePrevious(r) \/ ReadTarget(r) \/ ReadTargetFails(r)
             \/ UpdateFails(r) \/ RevokeActAs(r) \/ ReadActor(r) \/ ReadActorFails(r)
             \/ RevokeUser(r) \/ RevokeTarget(r) \/ DestroyFails(r) \/ DestroyUserFails(r)
             \/ ChangePassword(r) \/ ChangePasswordFails(r)
    <2>1. UNCHANGED <<owner, rows, ids>>
      BY <1>6 DEF SignInFails, Identify, IdentifyFails, PersistFails, IssueFails,
                  RevokePrevious, ReadTarget, ReadTargetFails, UpdateFails, RevokeActAs,
                  ReadActor, ReadActorFails, RevokeUser, RevokeTarget, DestroyFails,
                  DestroyUserFails, ChangePassword, ChangePasswordFails
    <2> QED
      BY <2>1, PromiseStutters
  <1> QED
    BY <1>1, <1>2, <1>3, <1>4, <1>5, <1>6 DEF Continue

\* Whatever requests interleave and fail, Core sees each session start as the
\* person who signed in, switch only for a site admin, and end for good.
THEOREM Refinement == Spec => ImplementsPromise
  <1>1. Init => Abstract!PromiseInit
    BY DEF Init, Abstract!PromiseInit, SpeaksAs
  <1>2. IInv /\ [Next]_vars => [Abstract!PromiseNext]_(Abstract!promise)
    <2> SUFFICES ASSUME IInv, [Next]_vars
                 PROVE  Abstract!PromiseNext \/ UNCHANGED Abstract!promise
      OBVIOUS
    <2>1. ASSUME NEW r \in Requests, Arrival(r) \/ Continue(r)
          PROVE  Abstract!PromiseNext \/ UNCHANGED Abstract!promise
      BY <2>1, PromiseArrivals, PromiseSteps
    <2>2. ASSUME NEW s \in Sids, Lapse(s)
          PROVE  Abstract!PromiseNext
      <3>1. /\ UNCHANGED <<owner, ids>> /\ rows' \in [Sids -> Row \cup {None}]
            /\ \A x \in Sids : rows'[x] = rows[x] \/ rows'[x] = None
        BY <2>2 DEF Lapse, IInv, TypeOK
      <3> QED
        BY <3>1, PromiseEnds DEF Abstract!PromiseNext
    <2>3. CASE UNCHANGED vars
      BY <2>3, PromiseStutters DEF vars
    <2> QED
      BY <2>1, <2>2, <2>3 DEF Next
  <1> QED
    BY <1>1, <1>2, Invariance, PTL DEF Spec, ImplementsPromise, Abstract!Promise

(***************************************************************************)
(* How requests move: what each step changes of its request, and which     *)
(* operation a request is for at each of its steps.                        *)
(***************************************************************************)
ExitPCs == {"revoke_act_as", "read_actor", "restore"}
SignOutPCs == {"revoke_user", "revoke_target", "destroy"}

\* Which operation a request is at each of its steps for.
OpInv(r) ==
    /\ req[r].pc \in {"new", "issue"} => req[r].token = None
    /\ req[r].pc \in SignInPCs => req[r].op \in SignInOps \cup {"reset"}
    /\ req[r].pc \in EnterPCs => req[r].op = "enter"
    /\ req[r].pc \in ExitPCs => req[r].op = "exit"
    /\ req[r].pc \in SignOutPCs => req[r].op = "signout"
    /\ req[r].pc = "end_sessions" => req[r].op \in EndOps
    /\ req[r].pc = "sign_in" => req[r].op = "reset"
    /\ req[r].pc = "revoke_previous" => req[r].snap.target_token # req[r].snap.user_token
    /\ req[r].pc = "change_password" => req[r].op = "change_password" /\ req[r].op \in Ops
    /\ req[r].revoked # None => req[r].pc = "done"

\* A step of one request leaves the others as they are.
LEMMA OthersWait ==
    ASSUME TypeOK, NEW r \in Requests, Arrival(r) \/ Continue(r)
    PROVE  \A x \in Requests : x # r => req'[x] = req[x]
  <1>1. ASSUME Arrival(r) PROVE \E next : req' = [req EXCEPT ![r] = next]
    BY <1>1 DEF Arrival, Authenticate, Join, BeginRead, BeginExit, BeginSignOut, BeginEnter,
           BeginSignedOut, BeginChangePassword, Begin, EndAtCore, RevokeToken
  <1>2. ASSUME Continue(r) PROVE \E next : req' = [req EXCEPT ![r] = next]
    BY <1>2 DEF Continue, Authenticate, Issue, Persist, SignInFails, Identify, IdentifyFails,
           PersistFails, IssueFails, RevokePrevious, ReadTarget, ReadTargetFails,
           WriteActAs, UpdateFails, RevokeActAs, ReadActor, ReadActorFails, RestoreActor,
           RevokeUser, RevokeTarget, Destroy, DestroyFails, DestroyUser, DestroyUserFails,
           ChangePassword, ChangePasswordFails,
           GoTo, Learn
  <1> QED
    BY <1>1, <1>2 DEF TypeOK


\* What the two ways of going on change of a request.
LEMMA GoToSets ==
    ASSUME TypeOK, NEW r \in Requests, NEW pc, GoTo(r, pc)
    PROVE  /\ req'[r].pc = pc
           /\ UNCHANGED <<req[r].op, req[r].user, req[r].sid, req[r].snap, req[r].token,
                          req[r].seen, req[r].revoked>>
  BY RequestTyped DEF GoTo, TypeOK, Request

LEMMA LearnSets ==
    ASSUME TypeOK, NEW r \in Requests, NEW pc, NEW seen, Learn(r, pc, seen)
    PROVE  /\ req'[r].pc = pc /\ req'[r].seen = seen
           /\ UNCHANGED <<req[r].op, req[r].user, req[r].sid, req[r].snap, req[r].token,
                          req[r].revoked>>
  <1> DEFINE next == [req[r] EXCEPT !.pc = pc, !.seen = seen]
  <1>1. req'[r] = next
    BY DEF Learn, TypeOK
  <1>2. /\ next.pc = pc /\ next.seen = seen
        /\ next.op = req[r].op /\ next.user = req[r].user /\ next.sid = req[r].sid
        /\ next.snap = req[r].snap /\ next.token = req[r].token
        /\ next.revoked = req[r].revoked
    BY RequestTyped DEF Request
  <1> QED
    BY <1>1, <1>2

\* What signing in, and asking Core for a PAT, change of a request.
LEMMA MintSets ==
    ASSUME TypeOK, NEW r \in Requests, NEW u, NEW t, Authenticate(r, u, t)
    PROVE  /\ req'[r].pc = "persist" /\ req'[r].user = u /\ req'[r].token = t
           /\ req'[r].seen = IdentityOf(u)
           /\ req'[r].op = IF req[r].pc = "new" THEN "password" ELSE req[r].op
           /\ UNCHANGED <<req[r].sid, req[r].snap, req[r].revoked>>
  <1> DEFINE next == [req[r] EXCEPT
           !.pc = "persist", !.user = u, !.token = t, !.seen = IdentityOf(u),
           !.op = IF req[r].pc = "new" THEN "password" ELSE req[r].op]
  <1>1. req'[r] = next
    BY DEF Authenticate, TypeOK
  <1>2. /\ next.pc = "persist" /\ next.user = u /\ next.token = t /\ next.seen = IdentityOf(u)
        /\ next.op = (IF req[r].pc = "new" THEN "password" ELSE req[r].op)
        /\ next.sid = req[r].sid /\ next.snap = req[r].snap /\ next.revoked = req[r].revoked
    BY RequestTyped DEF Request
  <1> QED
    BY <1>1, <1>2

LEMMA BeginSets ==
    ASSUME TypeOK, NEW r \in Requests, NEW s, NEW op, NEW to, NEW pc, Begin(r, s, op, to, pc)
    PROVE  /\ req'[r].pc = pc /\ req'[r].op = op /\ req'[r].sid = s
           /\ req'[r].user = to /\ req'[r].snap = rows[s]
           /\ UNCHANGED <<req[r].token, req[r].seen, req[r].revoked>>
  <1> DEFINE next == [req[r] EXCEPT
           !.pc = pc, !.op = op, !.sid = s, !.user = to, !.snap = rows[s]]
  <1>1. req'[r] = next
    BY DEF Begin, TypeOK
  <1>2. /\ next.pc = pc /\ next.op = op /\ next.sid = s /\ next.user = to /\ next.snap = rows[s]
        /\ next.token = req[r].token /\ next.seen = req[r].seen
        /\ next.revoked = req[r].revoked
    BY RequestTyped DEF Request
  <1> QED
    BY <1>1, <1>2

\* How a request with a cookie may begin.
BeginsWell(r, s, op, to, pc) ==
    /\ Begin(r, s, op, to, pc)
    /\ \/ pc \in {"done", "failed"}
       \/ rows[s] # None /\ pc = "issue" /\ op = "enter"
       \/ rows[s] # None /\ pc = "revoke_act_as" /\ op = "exit"
       \/ rows[s] # None /\ pc = "revoke_user" /\ op = "signout"
       \/ rows[s] # None /\ pc = "change_password" /\ op = "change_password"

LEMMA Arrivals ==
    ASSUME NEW r \in Requests, Arrival(r)
    PROVE  \/ \E u \in Users, t \in Tokens :
               req[r].pc = "new" /\ Authenticate(r, u, t)
           \/ \E u \in Users, t \in Tokens, op \in SignInOps : Join(r, u, t, op)
           \/ \E s \in Sids, op \in CookieRoutes, to \in Users \cup {None}, pc \in PCs :
               BeginsWell(r, s, op, to, pc)
           \/ \E u \in Users, op \in EndOps : EndAtCore(r, u, op)
           \/ \E t \in Tokens : RevokeToken(r, t)
  <1> DEFINE Well == \E s \in Sids, op \in CookieRoutes, to \in Users \cup {None}, pc \in PCs :
                         BeginsWell(r, s, op, to, pc)
  <1>1. ASSUME NEW s \in Sids, BeginRead(r, s) PROVE Well
    <2>1. BeginsWell(r, s, "read", None, "done")
      BY <1>1 DEF BeginRead, BeginsWell
    <2> QED
      BY <2>1 DEF CookieRoutes, SessionOps, PCs
  <1>2. ASSUME NEW s \in Sids, BeginExit(r, s) PROVE Well
    <2>1. BeginsWell(r, s, "exit", None, "done") \/ BeginsWell(r, s, "exit", None, "revoke_act_as")
      BY <1>2 DEF BeginExit, BeginsWell
    <2> QED
      BY <2>1 DEF CookieRoutes, SessionOps, PCs
  <1>3. ASSUME NEW s \in Sids, BeginSignOut(r, s) PROVE Well
    <2>1. BeginsWell(r, s, "signout", None, "revoke_user")
      BY <1>3 DEF BeginSignOut, BeginsWell
    <2> QED
      BY <2>1 DEF CookieRoutes, SessionOps, PCs
  <1>4. ASSUME NEW s \in Sids, NEW u \in Users, BeginEnter(r, s, u) PROVE Well
    <2>1. BeginsWell(r, s, "enter", u, "failed") \/ BeginsWell(r, s, "enter", u, "issue")
      BY <1>4 DEF BeginEnter, BeginsWell
    <2> QED
      BY <2>1 DEF CookieRoutes, SessionOps, PCs
  <1>5. ASSUME NEW s \in Sids, NEW op \in CookieRoutes, BeginSignedOut(r, s, op) PROVE Well
    <2>1. BeginsWell(r, s, op, None, "failed") \/ BeginsWell(r, s, op, None, "done")
      BY <1>5 DEF BeginSignedOut, BeginsWell
    <2> QED
      BY <2>1 DEF PCs
  <1>6. ASSUME NEW s \in Sids, BeginChangePassword(r, s) PROVE Well
    <2>1. BeginsWell(r, s, "change_password", None, "change_password")
      BY <1>6 DEF BeginChangePassword, BeginsWell
    <2> QED
      BY <2>1 DEF CookieRoutes, PCs
  <1> QED
    BY <1>1, <1>2, <1>3, <1>4, <1>5, <1>6 DEF Arrival

LEMMA OpArrival ==
    ASSUME IInv, NEW r \in Requests, OpInv(r), Arrival(r)
    PROVE  OpInv(r)'
  <1> USE DEF OpInv, SignInPCs, EnterPCs, ExitPCs, SignOutPCs
  <1>1. ASSUME NEW u, NEW t, req[r].pc = "new", Authenticate(r, u, t) PROVE OpInv(r)'
    BY <1>1, MintSets DEF IInv, SignInOps
  <1>2. ASSUME NEW u, NEW t, NEW op \in SignInOps, Join(r, u, t, op) PROVE OpInv(r)'
    BY <1>2 DEF Join, Arrives, IInv, TypeOK, SignInOps
  <1>3. ASSUME NEW s, NEW op, NEW to, NEW pc, BeginsWell(r, s, op, to, pc) PROVE OpInv(r)'
    <2>1. req[r].pc = "new" /\ op \in Ops
      BY <1>3 DEF BeginsWell, Begin, Arrives
    <2> QED
      BY <1>3, <2>1, BeginSets DEF IInv, BeginsWell
  <1>4. ASSUME NEW u, NEW op \in EndOps, EndAtCore(r, u, op) PROVE OpInv(r)'
    BY <1>4 DEF EndAtCore, Arrives, IInv, TypeOK
  <1>5. ASSUME NEW t, RevokeToken(r, t) PROVE OpInv(r)'
    BY <1>5 DEF RevokeToken, Arrives, IInv, TypeOK
  <1> QED
    BY <1>1, <1>2, <1>3, <1>4, <1>5, Arrivals

LEMMA OpContinue ==
    ASSUME IInv, NEW r \in Requests, OpInv(r), Continue(r)
    PROVE  OpInv(r)'
  <1> TypeOK
    BY DEF IInv
  <1> USE DEF OpInv, SignInPCs, EnterPCs, ExitPCs, SignOutPCs, EndOps
  <1>1. ASSUME NEW u, NEW t, req[r].pc = "sign_in", Authenticate(r, u, t) PROVE OpInv(r)'
    BY <1>1, MintSets
  <1>2. ASSUME NEW t \in Tokens, Issue(r, t) PROVE OpInv(r)'
    BY <1>2 DEF Issue, TypeOK
  <1>3. ASSUME NEW s \in Sids, Persist(r, s) PROVE OpInv(r)'
    BY <1>3 DEF Persist, TypeOK
  <1>4. CASE Identify(r) \/ IdentifyFails(r) \/ ReadTarget(r) \/ ReadActor(r) \/ ReadActorFails(r)
    BY <1>4, GoToSets, LearnSets DEF Identify, IdentifyFails, ReadTarget, ReadActor, ReadActorFails
  <1>5. CASE \/ SignInFails(r) \/ PersistFails(r) \/ IssueFails(r)
             \/ RevokePrevious(r) \/ ReadTargetFails(r)
             \/ WriteActAs(r) \/ UpdateFails(r) \/ RevokeActAs(r) \/ RestoreActor(r)
             \/ RevokeUser(r) \/ RevokeTarget(r) \/ Destroy(r) \/ DestroyFails(r)
             \/ DestroyUser(r) \/ DestroyUserFails(r)
             \/ ChangePassword(r) \/ ChangePasswordFails(r)
    BY <1>5, GoToSets DEF SignInFails, PersistFails, IssueFails, RevokePrevious, ReadTargetFails,
           WriteActAs, UpdateFails, RevokeActAs, RestoreActor,
           RevokeUser, RevokeTarget, Destroy, DestroyFails, DestroyUser, DestroyUserFails,
           ChangePassword, ChangePasswordFails, AfterEnd
  <1> QED
    BY <1>1, <1>2, <1>3, <1>4, <1>5 DEF Continue

(***************************************************************************)
(* What steps keep of requests, and what they make of rows.                *)
(***************************************************************************)
\* What a request has once had in hand it keeps, and so does what it stands for.
Keeps(r) ==
    /\ req[r].op \in EndOps => req'[r].op = req[r].op /\ req'[r].user = req[r].user
    /\ req[r].op = "signout" => req'[r].op = req[r].op /\ req'[r].sid = req[r].sid
    /\ req[r].snap # None =>
        /\ UNCHANGED <<req[r].op, req[r].sid, req[r].snap>>
        /\ req[r].token # None => req'[r].token = req[r].token
    /\ req[r].pc = "done" => req'[r] = req[r]

LEMMA StepKeeps ==
    ASSUME IInv, NEW r \in Requests, OpInv(r), Arrival(r) \/ Continue(r)
    PROVE  Keeps(r)
  <1> TypeOK /\ RequestInv(r)
    BY DEF IInv
  <1>1. None \notin AllOps
    BY SessionsAssumption
  <1> USE DEF Keeps, EndOps
  <1>2. ASSUME req[r].pc = "new" PROVE Keeps(r)
    BY <1>1, <1>2 DEF RequestInv, AllOps, SessionOps
  <1>3. ASSUME NEW u, NEW t, req[r].pc = "sign_in", Authenticate(r, u, t) PROVE Keeps(r)
    <2>1. u = req[r].user
      BY <1>3 DEF Authenticate, Arrives
    <2> QED
      BY <1>3, <2>1, MintSets DEF RequestInv, OpInv
  <1>4. ASSUME NEW t \in Tokens, Issue(r, t) PROVE Keeps(r)
    BY <1>4 DEF Issue, TypeOK, OpInv, EnterPCs
  <1>5. ASSUME NEW s \in Sids, Persist(r, s) PROVE Keeps(r)
    BY <1>5 DEF Persist, TypeOK, OpInv, RequestInv, SignInPCs, SignInOps
  <1>6. ASSUME NEW pc, GoTo(r, pc), req[r].pc # "done" PROVE Keeps(r)
    BY <1>6, GoToSets
  <1>7. ASSUME NEW pc, NEW seen, Learn(r, pc, seen), req[r].pc # "done" PROVE Keeps(r)
    BY <1>7, LearnSets
  <1>8. CASE Arrival(r)
    <2>1. req[r].pc = "new"
      BY <1>8, Arrivals DEF Join, BeginsWell, Begin, EndAtCore, RevokeToken, Arrives
    <2> QED
      BY <2>1, <1>2
  <1>9. CASE Continue(r)
    <2>1. CASE Identify(r) \/ IdentifyFails(r) \/ ReadTarget(r) \/ ReadActor(r) \/ ReadActorFails(r)
      BY <2>1, <1>6, <1>7 DEF Identify, IdentifyFails, ReadTarget, ReadActor, ReadActorFails
    <2>2. CASE \/ SignInFails(r) \/ PersistFails(r) \/ IssueFails(r)
               \/ RevokePrevious(r) \/ ReadTargetFails(r)
               \/ WriteActAs(r) \/ UpdateFails(r) \/ RevokeActAs(r) \/ RestoreActor(r)
               \/ RevokeUser(r) \/ RevokeTarget(r) \/ Destroy(r) \/ DestroyFails(r)
               \/ DestroyUser(r) \/ DestroyUserFails(r)
               \/ ChangePassword(r) \/ ChangePasswordFails(r)
      BY <2>2, <1>6 DEF SignInFails, PersistFails, IssueFails, RevokePrevious, ReadTargetFails,
           WriteActAs, UpdateFails, RevokeActAs, RestoreActor,
           RevokeUser, RevokeTarget, Destroy, DestroyFails, DestroyUser, DestroyUserFails,
           ChangePassword, ChangePasswordFails
    <2> QED
      BY <2>1, <2>2, <1>3, <1>4, <1>5, <1>9 DEF Continue
  <1> QED
    BY <1>8, <1>9

\* The steps that change the table.
LEMMA RowWriters ==
    ASSUME NEW r \in Requests, Arrival(r) \/ Continue(r), rows' # rows
    PROVE  \/ \E z \in Sids : Persist(r, z)
           \/ WriteActAs(r) \/ RestoreActor(r) \/ Destroy(r) \/ DestroyUser(r)
  <1>1. ASSUME Arrival(r) PROVE UNCHANGED rows
    BY <1>1, Arrivals DEF Authenticate, Join, BeginsWell, Begin, EndAtCore, RevokeToken
  <1>2. ASSUME \/ \E t \in Tokens, u \in Users : Authenticate(r, u, t)
               \/ \E t \in Tokens : Issue(r, t)
               \/ SignInFails(r) \/ Identify(r) \/ IdentifyFails(r) \/ PersistFails(r)
               \/ IssueFails(r) \/ RevokePrevious(r) \/ ReadTarget(r) \/ ReadTargetFails(r)
               \/ UpdateFails(r) \/ RevokeActAs(r) \/ ReadActor(r) \/ ReadActorFails(r)
               \/ RevokeUser(r) \/ RevokeTarget(r) \/ DestroyFails(r) \/ DestroyUserFails(r)
               \/ ChangePassword(r) \/ ChangePasswordFails(r)
        PROVE  UNCHANGED rows
    BY <1>2 DEF Authenticate, Issue, SignInFails, Identify, IdentifyFails, PersistFails, IssueFails,
                RevokePrevious, ReadTarget, ReadTargetFails, UpdateFails, RevokeActAs,
                ReadActor, ReadActorFails, RevokeUser, RevokeTarget, DestroyFails,
                DestroyUserFails, ChangePassword, ChangePasswordFails
  <1> QED
    BY <1>1, <1>2 DEF Continue

\* How a row that stays or comes looks after a step.
LEMMA RowSteps ==
    ASSUME IInv, NEW r \in Requests, Arrival(r) \/ Continue(r),
           NEW s \in Sids, rows'[s] # rows[s], rows'[s] # None
    PROVE  /\ UNCHANGED live
           /\ rows'[s].identity = req[r].seen
           /\ \/ /\ rows[s] = None /\ req[r].pc = "persist"
                 /\ rows'[s].user = req[r].user /\ rows'[s].act_as = req[r].user
                 /\ rows'[s].user_token = req[r].token /\ rows'[s].target_token = req[r].token
                 /\ rows'[s].realm = LoginRealm(r) /\ rows'[s].actor_realm = LoginRealm(r)
              \/ /\ rows[s] # None /\ req[r].pc = "write_act_as" /\ req[r].sid = s
                 /\ rows'[s].user = rows[s].user /\ rows'[s].act_as = req[r].user
                 /\ rows'[s].user_token = rows[s].user_token /\ rows'[s].target_token = req[r].token
                 /\ rows'[s].realm = req[r].user /\ rows'[s].actor_realm = rows[s].actor_realm
              \/ /\ rows[s] # None /\ req[r].pc = "restore" /\ req[r].sid = s
                 /\ rows'[s].user = rows[s].user /\ rows'[s].act_as = rows[s].user
                 /\ rows'[s].user_token = rows[s].user_token
                 /\ rows'[s].target_token = rows[s].user_token
                 /\ rows'[s].realm = rows[s].actor_realm
                 /\ rows'[s].actor_realm = rows[s].actor_realm
  <1>1. rows \in [Sids -> Row \cup {None}]
    BY DEF IInv, TypeOK
  <1>2. CASE \E z \in Sids : Persist(r, z)
    <2>1. Persist(r, s)
      BY <1>1, <1>2 DEF Persist
    <2>2. rows[s] = None
      BY <2>1 DEF Persist, IInv, RowInv
    <2> QED
      BY <1>1, <2>1, <2>2 DEF Persist
  <1>3. CASE WriteActAs(r)
    <2> DEFINE row == [rows[s] EXCEPT !.act_as = req[r].user, !.target_token = req[r].token,
                                      !.realm = req[r].user, !.identity = req[r].seen]
    <2>1. /\ req[r].sid = s /\ rows[s] # None /\ rows'[s] = row
          /\ req[r].pc = "write_act_as" /\ UNCHANGED live
      BY <1>1, <1>3 DEF WriteActAs, UpdateRow
    <2>2. /\ row.user = rows[s].user /\ row.act_as = req[r].user
          /\ row.user_token = rows[s].user_token /\ row.target_token = req[r].token
          /\ row.realm = req[r].user /\ row.actor_realm = rows[s].actor_realm
          /\ row.identity = req[r].seen
      BY <1>1, <2>1 DEF Row
    <2> QED
      BY <2>1, <2>2
  <1>4. CASE RestoreActor(r)
    <2> DEFINE row == [rows[s] EXCEPT !.act_as = rows[s].user,
                                      !.target_token = rows[s].user_token,
                                      !.realm = rows[s].actor_realm, !.identity = req[r].seen]
    <2>1. /\ req[r].sid = s /\ rows[s] # None /\ rows'[s] = row
          /\ req[r].pc = "restore" /\ UNCHANGED live
      BY <1>1, <1>4 DEF RestoreActor, UpdateRow
    <2>2. /\ row.user = rows[s].user /\ row.act_as = rows[s].user
          /\ row.user_token = rows[s].user_token /\ row.target_token = rows[s].user_token
          /\ row.realm = rows[s].actor_realm /\ row.actor_realm = rows[s].actor_realm
          /\ row.identity = req[r].seen
      BY <1>1, <2>1 DEF Row
    <2> QED
      BY <2>1, <2>2
  <1>5. CASE Destroy(r) \/ DestroyUser(r)
    BY <1>1, <1>5 DEF Destroy, DestroyUser
  <1>6. rows' # rows
    OBVIOUS
  <1> QED
    BY <1>2, <1>3, <1>4, <1>5, <1>6, RowWriters

(***************************************************************************)
(* Which PATs are alive.  A PAT dies only when Core ends its user, when    *)
(* that user revokes it, or when a request revokes one of its copy; the    *)
(* copy is of the same session, since copies of different sessions share   *)
(* no PAT, and the request then explains the death for good.               *)
(***************************************************************************)
\* The PAT t of user u still works, unless Core ended u or u revoked t.
Alive(t, u) == t \in live \/ Ended(u) \/ RevokedByUser(t)

\* Why a row's own token, its bearer and a PAT just minted are alive, or what
\* has made of it that they are not.
RowAlive(s) ==
    rows[s] # None =>
        /\ \/ Alive(rows[s].user_token, rows[s].user)
           \/ \E r \in Requests : SignsOut(r, s)
        /\ \/ rows[s].target_token = rows[s].user_token
           \/ Alive(rows[s].target_token, rows[s].act_as)
           \/ \E r \in Requests : SignsOut(r, s) \/ Replaces(r, s)

HeldAlive(r) == req[r].pc \in HoldingPCs => Alive(req[r].token, req[r].user)

AliveInv ==
    /\ \A r \in Requests : OpInv(r) /\ HeldAlive(r)
    /\ \A s \in Sids : RowAlive(s)

\* The steps that revoke PATs.
LEMMA LiveWriters ==
    ASSUME NEW r \in Requests, Arrival(r) \/ Continue(r), NEW t \in live, t \notin live'
    PROVE  \/ \E u \in Users, op \in EndOps : EndAtCore(r, u, op) /\ owner[t] = u
           \/ RevokePrevious(r) /\ t = req[r].snap.target_token
           \/ /\ RevokeActAs(r) /\ t = req[r].snap.target_token
              /\ req[r].snap.target_token # req[r].snap.user_token
           \/ RevokeUser(r) /\ t = req[r].snap.user_token
           \/ RevokeTarget(r) /\ t = req[r].snap.target_token
           \/ /\ ChangePassword(r) /\ t # req[r].snap.target_token
              /\ owner[t] = owner[req[r].snap.target_token]
           \/ RevokeToken(r, t)
  <1>1. ASSUME NEW u \in Users, NEW op \in EndOps, EndAtCore(r, u, op)
        PROVE  owner[t] = u
    BY <1>1 DEF EndAtCore
  <1>2. ASSUME NEW x, Revoke(x) PROVE t = x
    BY <1>2 DEF Revoke
  <1>3. ASSUME NEW u, NEW x, Mint(x, u) PROVE FALSE
    BY <1>3 DEF Mint
  <1>4. ASSUME Arrival(r)
        PROVE  (\E u \in Users, op \in EndOps : EndAtCore(r, u, op)) \/ RevokeToken(r, t)
    <2>1. ASSUME NEW x, RevokeToken(r, x) PROVE x = t
      BY <2>1 DEF RevokeToken
    <2> QED
      BY <1>3, <1>4, <2>1, Arrivals DEF Authenticate, Join, BeginsWell, Begin
  <1>5. ASSUME Continue(r)
        PROVE  \/ RevokePrevious(r) \/ RevokeActAs(r) \/ RevokeUser(r) \/ RevokeTarget(r)
               \/ ChangePassword(r)
    <2>1. ASSUME \/ \E x \in Tokens, u \in Users : Authenticate(r, u, x)
                 \/ \E x \in Tokens : Issue(r, x)
          PROVE  FALSE
      BY <2>1, <1>3 DEF Authenticate, Issue
    <2>2. ASSUME \/ SignInFails(r) \/ Identify(r) \/ IdentifyFails(r) \/ PersistFails(r)
                 \/ IssueFails(r) \/ ReadTarget(r) \/ ReadTargetFails(r)
                 \/ UpdateFails(r) \/ ReadActor(r) \/ ReadActorFails(r)
                 \/ DestroyFails(r) \/ DestroyUserFails(r)
                 \/ (\E s \in Sids : Persist(r, s)) \/ WriteActAs(r) \/ RestoreActor(r)
                 \/ Destroy(r) \/ DestroyUser(r) \/ ChangePasswordFails(r)
          PROVE  FALSE
      BY <2>2 DEF SignInFails, Identify, IdentifyFails, PersistFails, IssueFails,
                  ReadTarget, ReadTargetFails, UpdateFails, ReadActor, ReadActorFails,
                  DestroyFails, DestroyUserFails, Persist, WriteActAs, RestoreActor,
                  Destroy, DestroyUser, ChangePasswordFails
    <2> QED
      BY <1>5, <2>1, <2>2 DEF Continue
  <1>6. CASE Arrival(r)
    BY <1>1, <1>4, <1>6
  <1>7. CASE RevokePrevious(r) \/ RevokeActAs(r) \/ RevokeUser(r) \/ RevokeTarget(r)
    BY <1>2, <1>7 DEF RevokePrevious, RevokeActAs, RevokeUser, RevokeTarget
  <1>8. CASE ChangePassword(r)
    BY <1>8 DEF ChangePassword
  <1> QED
    BY <1>5, <1>6, <1>7, <1>8

\* A PAT stops working only when Core ends its user, when the user revokes it, or
\* when a request revokes one of the two in its copy of a row.
LEMMA Deaths ==
    ASSUME IInv, NEW r \in Requests, OpInv(r), Arrival(r) \/ Continue(r),
           NEW t \in live, t \notin live'
    PROVE  \/ \E u \in Users : owner[t] = u /\ req'[r].op \in EndOps /\ req'[r].user = u
           \/ RevokedByUser(t)'
           \/ /\ req[r].snap \in Row /\ req[r].snap # None
              /\ \/ /\ req[r].pc \in {"revoke_previous", "revoke_act_as"}
                    /\ t = req[r].snap.target_token
                    /\ t # req[r].snap.user_token
                    /\ \/ req[r].op = "exit"
                       \/ req[r].op = "enter" /\ req[r].token # None
                 \/ /\ req[r].op = "signout"
                    /\ t \in {req[r].snap.user_token, req[r].snap.target_token}
  <1> TypeOK /\ RequestInv(r)
    BY DEF IInv
  <1>1. ASSUME NEW u \in Users, NEW op \in EndOps, EndAtCore(r, u, op)
        PROVE  owner[t] = u /\ req'[r].op \in EndOps /\ req'[r].user = u
    <2> DEFINE next == [req[r] EXCEPT !.pc = "end_sessions", !.op = op, !.user = u]
    <2>1. req'[r] = next /\ owner[t] = u
      BY <1>1 DEF EndAtCore, TypeOK
    <2>2. next.op = op /\ next.user = u
      BY RequestTyped DEF Request
    <2> QED
      BY <2>1, <2>2
  <1>2. ASSUME RevokePrevious(r) \/ RevokeActAs(r) \/ RevokeUser(r) \/ RevokeTarget(r)
        PROVE  req[r].snap \in Row /\ req[r].snap # None
    <2>1. req[r].pc \in CookiePCs
      BY <1>2 DEF RevokePrevious, RevokeActAs, RevokeUser, RevokeTarget, CookiePCs, EnterPCs
    <2> QED
      BY <2>1, SessionsAssumption DEF RequestInv
  <1>3. ASSUME RevokePrevious(r)
        PROVE  /\ req[r].pc = "revoke_previous"
               /\ req[r].op = "enter" /\ req[r].token # None
               /\ req[r].snap.target_token # req[r].snap.user_token
    BY <1>3, SessionsAssumption DEF RevokePrevious, OpInv, RequestInv, EnterPCs
  <1>4. ASSUME RevokeActAs(r) PROVE req[r].pc = "revoke_act_as" /\ req[r].op = "exit"
    BY <1>4 DEF RevokeActAs, OpInv, ExitPCs
  <1>5. ASSUME RevokeUser(r) \/ RevokeTarget(r) PROVE req[r].op = "signout"
    BY <1>5 DEF RevokeUser, RevokeTarget, OpInv, SignOutPCs
  <1>6. ASSUME ChangePassword(r), t # req[r].snap.target_token,
               owner[t] = owner[req[r].snap.target_token]
        PROVE  RevokedByUser(t)'
    <2>1. req[r].snap \in Row /\ req[r].snap # None
      BY <1>6, SessionsAssumption DEF ChangePassword, RequestInv, CookiePCs
    <2>2. owner[t] = req[r].snap.act_as
      BY <1>6, <2>1 DEF IInv, SnapInv, Sound
    <2>3. req[r].op = "change_password" /\ GoTo(r, "done") /\ UNCHANGED owner
      BY <1>6 DEF ChangePassword, OpInv
    <2>4. /\ req'[r].op = "change_password" /\ req'[r].pc = "done"
          /\ req'[r].snap = req[r].snap
      BY <2>3, GoToSets
    <2> QED
      BY <1>6, <2>2, <2>3, <2>4 DEF RevokedByUser
  <1>7. ASSUME RevokeToken(r, t) PROVE RevokedByUser(t)'
    <2>1. req'[r].revoked = t
      BY <1>7, RequestTyped DEF RevokeToken, TypeOK, Request
    <2> QED
      BY <2>1 DEF RevokedByUser
  <1> QED
    BY <1>1, <1>2, <1>3, <1>4, <1>5, <1>6, <1>7, LiveWriters

\* A PAT that a request holds is alive from the moment it was minted.
LEMMA HeldStep ==
    ASSUME IInv, NEW r \in Requests, OpInv(r), Arrival(r) \/ Continue(r),
           req'[r].pc \in HoldingPCs
    PROVE  \/ req'[r].token \in live'
           \/ /\ req[r].pc \in HoldingPCs
              /\ UNCHANGED <<req[r].token, req[r].user>>
  <1> TypeOK /\ RequestInv(r)
    BY DEF IInv
  <1> USE DEF HoldingPCs, SignInPCs, EnterPCs
  <1>1. ASSUME NEW u, NEW t, Authenticate(r, u, t) PROVE req'[r].token \in live'
    <2>1. t \in live'
      BY <1>1 DEF Authenticate, Mint
    <2> QED
      BY <1>1, <2>1, MintSets
  <1>2. ASSUME NEW u, NEW t, NEW op, Join(r, u, t, op) PROVE req'[r].token \in live'
    <2> DEFINE next == [req[r] EXCEPT !.pc = "identify", !.op = op, !.user = u, !.token = t]
    <2>1. req'[r] = next /\ t \in live'
      BY <1>2 DEF Join, Mint, TypeOK
    <2>2. next.token = t
      BY RequestTyped DEF Request
    <2> QED
      BY <2>1, <2>2
  <1>3. ASSUME NEW t, Issue(r, t) PROVE req'[r].token \in live'
    <2>1. \E pc : req' = [req EXCEPT ![r] = [@ EXCEPT !.token = t, !.pc = pc]]
      BY <1>3 DEF Issue
    <2>2. req'[r].token = t
      BY <2>1, RequestTyped DEF Request, TypeOK
    <2> QED
      BY <2>2, <1>3 DEF Issue, Mint
  <1>4. ASSUME Arrival(r) PROVE req'[r].token \in live'
    <2>1. ASSUME NEW s, NEW op, NEW to, NEW pc, BeginsWell(r, s, op, to, pc) PROVE FALSE
      BY <2>1, BeginSets DEF BeginsWell
    <2>2. ASSUME NEW u, NEW op, EndAtCore(r, u, op) PROVE FALSE
      BY <2>2, RequestTyped DEF EndAtCore, TypeOK, Request
    <2>3. ASSUME NEW t, RevokeToken(r, t) PROVE FALSE
      BY <2>3, RequestTyped DEF RevokeToken, TypeOK, Request
    <2> QED
      BY <1>1, <1>2, <1>4, <2>1, <2>2, <2>3, Arrivals
  <1>5. ASSUME Continue(r)
        PROVE  \/ req'[r].token \in live'
               \/ req[r].pc \in HoldingPCs /\ UNCHANGED <<req[r].token, req[r].user>>
    <2>1. CASE Identify(r) \/ IdentifyFails(r) \/ ReadTarget(r) \/ ReadActor(r) \/ ReadActorFails(r)
      BY <2>1, GoToSets, LearnSets
         DEF Identify, IdentifyFails, ReadTarget, ReadActor, ReadActorFails
    <2>2. CASE \/ SignInFails(r) \/ PersistFails(r) \/ IssueFails(r)
               \/ RevokePrevious(r) \/ ReadTargetFails(r)
               \/ WriteActAs(r) \/ UpdateFails(r) \/ RevokeActAs(r) \/ RestoreActor(r)
               \/ RevokeUser(r) \/ RevokeTarget(r) \/ Destroy(r) \/ DestroyFails(r)
               \/ DestroyUser(r) \/ DestroyUserFails(r)
               \/ ChangePassword(r) \/ ChangePasswordFails(r)
      BY <2>2, GoToSets DEF SignInFails, PersistFails, IssueFails, RevokePrevious, ReadTargetFails,
           WriteActAs, UpdateFails, RevokeActAs, RestoreActor,
           RevokeUser, RevokeTarget, Destroy, DestroyFails, DestroyUser, DestroyUserFails,
           ChangePassword, ChangePasswordFails, AfterEnd
    <2>3. ASSUME NEW s \in Sids, Persist(r, s) PROVE FALSE
      BY <2>3, RequestTyped DEF Persist, TypeOK, Request
    <2> QED
      BY <1>1, <1>3, <1>5, <2>1, <2>2, <2>3 DEF Continue
  <1> QED
    BY <1>4, <1>5

\* Whose PAT it is never changes.
LEMMA OwnersStay ==
    ASSUME TypeOK, NEW r \in Requests, Arrival(r) \/ Continue(r),
           NEW t \in Tokens, owner[t] # None
    PROVE  owner'[t] = owner[t]
  <1>1. ASSUME NEW x, NEW u, Mint(x, u) PROVE owner'[t] = owner[t]
    BY <1>1 DEF Mint, TypeOK
  <1>2. ASSUME Arrival(r) PROVE owner'[t] = owner[t]
    BY <1>1, <1>2, Arrivals DEF Authenticate, Join, BeginsWell, Begin, EndAtCore, RevokeToken
  <1>3. ASSUME Continue(r) PROVE owner'[t] = owner[t]
    BY <1>1, <1>3 DEF Continue, Authenticate, Issue, Persist, SignInFails, Identify,
           IdentifyFails, PersistFails, IssueFails, RevokePrevious, ReadTarget,
           ReadTargetFails, WriteActAs, UpdateFails, RevokeActAs, ReadActor,
           ReadActorFails, RestoreActor, RevokeUser, RevokeTarget, Destroy, DestroyFails,
           DestroyUser, DestroyUserFails, ChangePassword, ChangePasswordFails
  <1> QED
    BY <1>2, <1>3

\* What once explains a dead PAT goes on explaining it.
LEMMA ReasonsStay ==
    ASSUME IInv, \A x \in Requests : OpInv(x),
           NEW r \in Requests, Arrival(r) \/ Continue(r)
    PROVE  /\ \A x \in Requests : Keeps(x)
           /\ \A u : Ended(u) => Ended(u)'
           /\ \A t \in Tokens : owner[t] # None /\ RevokedByUser(t) => RevokedByUser(t)'
           /\ \A s \in Sids : \A x \in Requests :
                /\ SignsOut(x, s) => SignsOut(x, s)'
                /\ Replaces(x, s) /\ rows'[s].target_token = rows[s].target_token => Replaces(x, s)'
  <1>1. \A x \in Requests : Keeps(x)
    <2>1. Keeps(r)
      BY StepKeeps
    <2>2. ASSUME NEW x \in Requests, x # r PROVE Keeps(x)
      <3>1. req'[x] = req[x]
        BY <2>2, OthersWait DEF IInv
      <3> QED
        BY <3>1 DEF Keeps
    <2> QED
      BY <2>1, <2>2
  <1>2. ASSUME NEW t \in Tokens, owner[t] # None, RevokedByUser(t) PROVE RevokedByUser(t)'
    <2>1. owner'[t] = owner[t]
      BY <1>2, OwnersStay DEF IInv
    <2>2. PICK x \in Requests :
             \/ /\ req[x].op = "change_password" /\ req[x].pc = "done"
                /\ req[x].snap.act_as = owner[t] /\ req[x].snap.target_token # t
             \/ req[x].revoked = t
      BY <1>2 DEF RevokedByUser
    <2>3. req[x].pc = "done"
      BY <2>2, SessionsAssumption DEF OpInv
    <2>4. req'[x] = req[x]
      BY <2>3, <1>1 DEF Keeps
    <2> QED
      BY <2>1, <2>2, <2>4 DEF RevokedByUser
  <1> QED
    BY <1>1, <1>2 DEF Keeps, Ended, SignsOut, Replaces

\* The own token of a row that is there is dead afterwards only for a reason.
LEMMA OwnStays ==
    ASSUME IInv, AliveInv, NEW r \in Requests, Arrival(r) \/ Continue(r),
           NEW s \in Sids, rows[s] # None,
           NEW t, t = rows[s].user_token, NEW u, u = rows[s].user
    PROVE  \/ Alive(t, u)'
           \/ \E x \in Requests : SignsOut(x, s)'
  <1>1. /\ Alive(t, u) \/ \E x \in Requests : SignsOut(x, s)
        /\ \A x \in Requests : OpInv(x)
    BY DEF AliveInv, RowAlive
  <1>2. owner[t] = u /\ t \in Tokens /\ u # None
    BY SessionsAssumption DEF IInv, TypeOK, RowInv, Sound, Row
  <1>3. ASSUME t \in live, t \notin live'
        PROVE  Ended(u)' \/ RevokedByUser(t)' \/ SignsOut(r, s)
    <2>1. CASE \E v \in Users : owner[t] = v /\ req'[r].op \in EndOps /\ req'[r].user = v
      BY <2>1, <1>2 DEF Ended
    <2>2. CASE /\ req[r].snap \in Row /\ req[r].snap # None
               /\ t \in {req[r].snap.user_token, req[r].snap.target_token}
               /\ t # req[r].snap.user_token \/ req[r].op = "signout"
      <3>1. req[r].sid = s
        BY <2>2 DEF IInv, SeparateInv, Disjoint
      <3>2. t = req[r].snap.user_token
        BY <2>2, <3>1 DEF IInv, SnapInv
      <3> QED
        BY <2>2, <3>1, <3>2 DEF SignsOut
    <2> QED
      BY <1>1, <1>3, <2>1, <2>2, Deaths
  <1>4. CASE \E x \in Requests : SignsOut(x, s)
    BY <1>1, <1>4, ReasonsStay
  <1>5. CASE Ended(u) \/ RevokedByUser(t)
    BY <1>1, <1>2, <1>5, ReasonsStay DEF Alive
  <1>6. CASE t \in live
    <2>1. CASE Ended(u)' \/ RevokedByUser(t)' \/ t \in live'
      BY <2>1 DEF Alive
    <2>2. CASE SignsOut(r, s)
      BY <1>1, <2>2, ReasonsStay
    <2> QED
      BY <1>3, <1>6, <2>1, <2>2
  <1> QED
    BY <1>1, <1>4, <1>5, <1>6 DEF Alive

\* So is the bearer of a row that is not rewritten.
LEMMA BearerStays ==
    ASSUME IInv, AliveInv, NEW r \in Requests, Arrival(r) \/ Continue(r),
           NEW s \in Sids, rows[s] # None, rows'[s] = rows[s],
           NEW t, t = rows[s].target_token, NEW u, u = rows[s].act_as
    PROVE  \/ t = rows[s].user_token
           \/ Alive(t, u)'
           \/ \E x \in Requests : SignsOut(x, s)' \/ Replaces(x, s)'
  <1>1. /\ \/ t = rows[s].user_token
           \/ Alive(t, u)
           \/ \E x \in Requests : SignsOut(x, s) \/ Replaces(x, s)
        /\ \A x \in Requests : OpInv(x)
    BY DEF AliveInv, RowAlive
  <1>2. owner[t] = u /\ t \in Tokens /\ u # None
    BY SessionsAssumption DEF IInv, TypeOK, RowInv, Sound, Row
  <1>3. ASSUME t \in live, t \notin live'
        PROVE  Ended(u)' \/ RevokedByUser(t)' \/ SignsOut(r, s) \/ Replaces(r, s)
    <2>1. CASE \E v \in Users : owner[t] = v /\ req'[r].op \in EndOps /\ req'[r].user = v
      BY <2>1, <1>2 DEF Ended
    <2>2. CASE /\ req[r].snap # None
               /\ t = req[r].snap.target_token
               /\ \/ req[r].op = "exit"
                  \/ req[r].op = "enter" /\ req[r].token # None
      <3>1. req[r].sid = s
        BY <2>2 DEF IInv, SeparateInv, Disjoint
      <3> QED
        BY <2>2, <3>1 DEF Replaces
    <2>3. CASE /\ req[r].snap # None /\ req[r].op = "signout"
               /\ t \in {req[r].snap.user_token, req[r].snap.target_token}
      <3>1. req[r].sid = s
        BY <2>3 DEF IInv, SeparateInv, Disjoint
      <3> QED
        BY <2>3, <3>1 DEF SignsOut
    <2>4. OpInv(r)
      BY <1>1
    <2> QED
      BY <1>3, <2>1, <2>2, <2>3, <2>4, Deaths
  <1>4. CASE \E x \in Requests : SignsOut(x, s) \/ Replaces(x, s)
    BY <1>1, <1>4, ReasonsStay
  <1>5. CASE Ended(u) \/ RevokedByUser(t)
    BY <1>1, <1>2, <1>5, ReasonsStay DEF Alive
  <1>6. CASE t \in live
    <2>1. CASE Ended(u)' \/ RevokedByUser(t)' \/ t \in live'
      BY <2>1 DEF Alive
    <2>2. CASE SignsOut(r, s) \/ Replaces(r, s)
      BY <1>1, <2>2, ReasonsStay
    <2> QED
      BY <1>3, <1>6, <2>1, <2>2
  <1> QED
    BY <1>1, <1>4, <1>5, <1>6 DEF Alive

\* The PAT a request holds dies only with its user, or by that user's hand.
LEMMA HeldStays ==
    ASSUME IInv, AliveInv, NEW r \in Requests, Arrival(r) \/ Continue(r),
           NEW x \in Requests, req[x].pc \in HoldingPCs,
           NEW t, t = req[x].token, NEW u, u = req[x].user
    PROVE  Alive(t, u)'
  <1>1. /\ Alive(t, u)
        /\ \A y \in Requests : OpInv(y)
    BY DEF AliveInv, HeldAlive
  <1>2. owner[t] = u /\ t \in Tokens /\ u # None
    BY SessionsAssumption DEF IInv, RequestInv, HoldingPCs
  <1>3. CASE Ended(u) \/ RevokedByUser(t)
    BY <1>1, <1>2, <1>3, ReasonsStay DEF Alive
  <1>4. CASE t \in live /\ t \notin live'
    <2>1. req[r].snap # None => NotIn(t, req[r].snap)
      BY DEF IInv, HeldInv
    <2>2. \/ \E v \in Users : owner[t] = v /\ req'[r].op \in EndOps /\ req'[r].user = v
          \/ RevokedByUser(t)'
      BY <1>1, <1>4, <2>1, Deaths DEF NotIn
    <2> QED
      BY <1>2, <2>2 DEF Alive, Ended
  <1> QED
    BY <1>1, <1>3, <1>4 DEF Alive

LEMMA AliveStep ==
    ASSUME IInv, AliveInv, NEW r \in Requests, Arrival(r) \/ Continue(r)
    PROVE  AliveInv'
  <1>1. \A x \in Requests : OpInv(x) /\ HeldAlive(x)
    BY DEF AliveInv
  <1>2. ASSUME NEW x \in Requests PROVE OpInv(x)'
    <2>1. CASE x = r
      BY <1>1, <2>1, OpArrival, OpContinue
    <2>2. CASE x # r
      <3>1. req'[x] = req[x]
        BY <2>2, OthersWait DEF IInv
      <3> QED
        BY <1>1, <3>1 DEF OpInv
    <2> QED
      BY <2>1, <2>2
  <1>3. ASSUME NEW x \in Requests PROVE HeldAlive(x)'
    <2> SUFFICES ASSUME req'[x].pc \in HoldingPCs
                 PROVE  Alive(req[x].token, req[x].user)'
      BY DEF HeldAlive
    <2>1. CASE req[x].pc \in HoldingPCs /\ UNCHANGED <<req[x].token, req[x].user>>
      BY <2>1, HeldStays DEF Alive, Ended, RevokedByUser
    <2>2. CASE x = r
      BY <1>1, <2>1, <2>2, HeldStep DEF Alive
    <2>3. CASE x # r
      <3>1. req'[x] = req[x]
        BY <2>3, OthersWait DEF IInv
      <3> QED
        BY <2>1, <3>1
    <2> QED
      BY <2>2, <2>3
  <1>4. ASSUME NEW s \in Sids PROVE RowAlive(s)'
    <2>1. CASE rows'[s] = rows[s]
      BY <2>1, OwnStays, BearerStays DEF RowAlive, Alive, Ended, RevokedByUser
    <2>2. CASE rows'[s] # rows[s] /\ rows'[s] # None
      <3>1. CASE /\ rows[s] = None /\ req[r].pc = "persist"
                 /\ rows'[s].user = req[r].user
                 /\ rows'[s].user_token = req[r].token /\ rows'[s].target_token = req[r].token
        <4>1. ASSUME NEW t, t = req[r].token, NEW u, u = req[r].user PROVE Alive(t, u)'
          BY <3>1, <4>1, HeldStays DEF HoldingPCs, SignInPCs
        <4> QED
          BY <3>1, <4>1 DEF RowAlive, Alive, Ended, RevokedByUser
      <3>2. CASE /\ rows[s] # None /\ req[r].pc = "write_act_as"
                 /\ rows'[s].user = rows[s].user /\ rows'[s].act_as = req[r].user
                 /\ rows'[s].user_token = rows[s].user_token /\ rows'[s].target_token = req[r].token
        <4>1. ASSUME NEW t, t = req[r].token, NEW u, u = req[r].user PROVE Alive(t, u)'
          BY <3>2, <4>1, HeldStays DEF HoldingPCs, EnterPCs
        <4> QED
          BY <3>2, <4>1, OwnStays DEF RowAlive, Alive, Ended, RevokedByUser
      <3>3. CASE /\ rows[s] # None
                 /\ rows'[s].user = rows[s].user
                 /\ rows'[s].user_token = rows[s].user_token
                 /\ rows'[s].target_token = rows[s].user_token
        BY <3>3, OwnStays DEF RowAlive, Alive, Ended, RevokedByUser
      <3> QED
        BY <2>2, <3>1, <3>2, <3>3, RowSteps
    <2> QED
      BY <2>1, <2>2 DEF RowAlive
  <1> QED
    BY <1>2, <1>3, <1>4 DEF AliveInv

\* A row that is rewritten stays a row.
LEMMA RewrittenStays ==
    ASSUME IInv, NEW r \in Requests, WriteActAs(r) \/ RestoreActor(r),
           NEW s \in Sids, rows[s] # None
    PROVE  rows'[s] # None
  <1>1. /\ rows \in [Sids -> Row \cup {None}]
        /\ rows[s] \in Row
    BY DEF IInv, TypeOK
  <1>2. CASE s # req[r].sid
    BY <1>1, <1>2 DEF WriteActAs, RestoreActor, UpdateRow
  <1>3. CASE WriteActAs(r) /\ s = req[r].sid
    <2>1. req[r].user \in Users /\ req[r].token \in Tokens /\ req[r].seen \in Identity
      BY <1>3 DEF WriteActAs, IInv, RequestInv, EnterPCs
    <2>2. [rows[s] EXCEPT !.act_as = req[r].user, !.target_token = req[r].token,
                          !.realm = req[r].user, !.identity = req[r].seen] \in Row
      BY <1>1, <2>1 DEF Row
    <2> QED
      BY <1>1, <1>3, <2>2, SessionsAssumption DEF WriteActAs, UpdateRow
  <1>4. CASE RestoreActor(r) /\ s = req[r].sid
    <2>1. req[r].seen \in Identity
      BY <1>4 DEF RestoreActor, IInv, RequestInv
    <2>2. [rows[s] EXCEPT !.act_as = rows[s].user, !.target_token = rows[s].user_token,
                          !.realm = rows[s].actor_realm, !.identity = req[r].seen] \in Row
      BY <1>1, <2>1 DEF Row
    <2> QED
      BY <1>1, <1>4, <2>2, SessionsAssumption DEF RestoreActor, UpdateRow
  <1> QED
    BY <1>2, <1>3, <1>4

LEMMA AliveNext == IInv /\ AliveInv /\ [Next]_vars => AliveInv'
  <1> SUFFICES ASSUME IInv, AliveInv, [Next]_vars PROVE AliveInv'
    OBVIOUS
  <1>1. ASSUME NEW r \in Requests, Arrival(r) \/ Continue(r) PROVE AliveInv'
    BY <1>1, AliveStep
  <1>2. ASSUME \A s \in Sids : rows'[s] = rows[s] \/ rows'[s] = None,
               UNCHANGED <<owner, live, req>>
        PROVE  AliveInv'
    <2>1. \A r \in Requests : OpInv(r)' /\ HeldAlive(r)'
      BY <1>2 DEF AliveInv, OpInv, HeldAlive, Alive, Ended, RevokedByUser
    <2>2. ASSUME NEW s \in Sids PROVE RowAlive(s)'
      <3>1. rows'[s] = rows[s] \/ rows'[s] = None
        BY <1>2
      <3>2. RowAlive(s)
        BY DEF AliveInv
      <3> QED
        BY <1>2, <3>1, <3>2 DEF RowAlive, Alive, Ended, RevokedByUser, SignsOut, Replaces
    <2> QED
      BY <2>1, <2>2 DEF AliveInv
  <1>3. ASSUME NEW s \in Sids, Lapse(s) PROVE AliveInv'
    BY <1>2, <1>3 DEF Lapse, IInv, TypeOK
  <1>4. CASE UNCHANGED vars
    BY <1>2, <1>4 DEF vars
  <1> QED
    BY <1>1, <1>3, <1>4 DEF Next

\* The reasons for which the session handlers end PATs, in every reachable state.
LEMMA Aliveness == Spec => []AliveInv
  <1>1. Init => AliveInv
    BY DEF Init, NewRequest, AliveInv, OpInv, HeldAlive, RowAlive, HoldingPCs, SignInPCs, EnterPCs,
           ExitPCs, SignOutPCs
  <1> QED
    BY <1>1, AliveNext, Invariance, PTL DEF Spec

\* Acting as somebody, stopping, other sessions' sign-outs and failures on the way
\* never cost a session its own PAT: only its sign-out, its user's end, a password
\* its user changed in another session, or that user revoking the PAT does.
THEOREM SignedInTheorem == Spec => []SignedInUntilSignedOut
  <1>1. AliveInv => SignedInUntilSignedOut
    BY DEF AliveInv, RowAlive, Alive, SignedInUntilSignedOut
  <1> QED
    BY <1>1, Aliveness, PTL

\* The bearer of a session dies only with the user it acts as, by that user's hand
\* (a password changed in another session, the PAT revoked), by the session's
\* sign-out, or by a stop or by an act-as that had its replacement in hand.
THEOREM DeadBearerTheorem == Spec => []DeadBearerExplained
  <1>1. IInv /\ AliveInv => DeadBearerExplained
    <2> SUFFICES ASSUME IInv, AliveInv,
                        NEW s \in Sids, rows[s] # None, rows[s].target_token \notin live
                 PROVE  \/ Ended(rows[s].act_as)
                        \/ RevokedByUser(rows[s].target_token)
                        \/ \E r \in Requests : SignsOut(r, s)
                        \/ /\ rows[s].target_token # rows[s].user_token
                           /\ \E r \in Requests : Replaces(r, s)
      BY DEF DeadBearerExplained
    <2>1. RowAlive(s)
      BY DEF AliveInv
    <2>2. CASE rows[s].target_token = rows[s].user_token
      <3>1. rows[s].act_as = rows[s].user
        BY <2>2 DEF IInv, RowInv, Sound
      <3> QED
        BY <2>1, <2>2, <3>1 DEF RowAlive, Alive
    <2>3. CASE rows[s].target_token # rows[s].user_token
      BY <2>1, <2>3 DEF RowAlive, Alive
    <2> QED
      BY <2>2, <2>3
  <1> QED
    BY <1>1, Aliveness, Invariance, PTL

\* No step deletes a row unless that session was signed out or lapsed, or its own
\* user was ended.
THEOREM EndsTheorem == Spec => SessionsEndForAReason
  <1>1. ASSUME IInv, AliveInv, [Next]_vars, NEW s \in Sids, rows[s] # None, rows'[s] = None
        PROVE  \/ \E r \in Requests : SignsOut(r, s)
               \/ Ended(rows[s].user)
               \/ "lapse" \in Faults /\ UNCHANGED req
    <2>1. ASSUME NEW r \in Requests, Arrival(r) \/ Continue(r)
          PROVE  SignsOut(r, s) \/ Ended(rows[s].user)
      <3>1. OpInv(r)
        BY <1>1 DEF AliveInv
      <3>2. CASE Destroy(r)
        BY <3>1, <3>2, <1>1 DEF Destroy, IInv, TypeOK, OpInv, SignOutPCs, SignsOut
      <3>3. CASE DestroyUser(r)
        BY <3>1, <3>3, <1>1 DEF DestroyUser, IInv, TypeOK, OpInv, Ended
      <3>4. CASE \E z \in Sids : Persist(r, z)
        BY <3>4, <1>1, NewRow, SessionsAssumption DEF IInv, TypeOK
      <3>5. CASE WriteActAs(r) \/ RestoreActor(r)
        BY <3>5, <1>1, RewrittenStays
      <3> QED
        BY <2>1, <3>2, <3>3, <3>4, <3>5, RowWriters, <1>1
    <2>2. ASSUME NEW z \in Sids, Lapse(z)
          PROVE  "lapse" \in Faults /\ UNCHANGED req
      BY <2>2 DEF Lapse
    <2>3. ~ UNCHANGED vars
      BY <1>1 DEF vars
    <2> QED
      BY <1>1, <2>1, <2>2, <2>3 DEF Next
  <1>2. IInv /\ AliveInv /\ [Next]_vars => [\A s \in Sids : rows[s] # None /\ rows'[s] = None =>
           \/ \E r \in Requests : SignsOut(r, s)
           \/ Ended(rows[s].user)
           \/ "lapse" \in Faults /\ UNCHANGED req]_vars
    BY <1>1
  <1> QED
    BY <1>2, Aliveness, Invariance, PTL DEF Spec, SessionsEndForAReason

(***************************************************************************)
(* The role and the default realm a row shows.                             *)
(***************************************************************************)
Shows(row) ==
    /\ row.identity.role = RoleOf(row.act_as)
    /\ row.realm \in {row.act_as, None}
    /\ row.actor_realm \in {row.user, None}

\* A request about to write an identity has the role of the user it is for.
SeenRole(r) ==
    /\ req[r].pc \in {"persist", "write_act_as"} => req[r].seen.role = RoleOf(req[r].user)
    /\ req[r].pc = "restore" => req[r].seen.role = RoleOf(req[r].snap.user)

RoleInv ==
    /\ \A s \in Sids : rows[s] # None => Shows(rows[s])
    /\ \A r \in Requests : SeenRole(r)

LEMMA SeenStep ==
    ASSUME IInv, NEW r \in Requests, SeenRole(r), Arrival(r) \/ Continue(r)
    PROVE  SeenRole(r)'
  <1> TypeOK /\ RequestInv(r)
    BY DEF IInv
  <1>1. ASSUME NEW u, NEW t, Authenticate(r, u, t) PROVE SeenRole(r)'
    <2>1. IdentityOf(u).role = RoleOf(u)
      BY DEF IdentityOf
    <2> QED
      BY <1>1, <2>1, MintSets DEF SeenRole
  <1>2. ASSUME NEW pc, GoTo(r, pc), pc \notin {"persist", "write_act_as", "restore"}
        PROVE  SeenRole(r)'
    BY <1>2, GoToSets DEF SeenRole
  <1>3. ASSUME NEW pc, NEW seen, Learn(r, pc, seen),
               \/ pc \in {"persist", "write_act_as"} /\ seen.role = RoleOf(req[r].user)
               \/ pc = "restore" /\ seen.role = RoleOf(req[r].snap.user)
        PROVE  SeenRole(r)'
    BY <1>3, LearnSets DEF SeenRole
  <1>4. ASSUME req'[r].pc \notin {"persist", "write_act_as", "restore"} PROVE SeenRole(r)'
    BY <1>4 DEF SeenRole
  <1>5. CASE Arrival(r)
    <2>1. ASSUME NEW s, NEW op, NEW to, NEW pc, BeginsWell(r, s, op, to, pc) PROVE SeenRole(r)'
      BY <2>1, <1>4, BeginSets DEF BeginsWell
    <2>2. ASSUME NEW u, NEW t, NEW op, Join(r, u, t, op) PROVE SeenRole(r)'
      BY <2>2, <1>4, RequestTyped DEF Join, TypeOK, Request
    <2>3. ASSUME NEW u, NEW op, EndAtCore(r, u, op) PROVE SeenRole(r)'
      BY <2>3, <1>4, RequestTyped DEF EndAtCore, TypeOK, Request
    <2>4. ASSUME NEW t, RevokeToken(r, t) PROVE SeenRole(r)'
      BY <2>4, <1>4, RequestTyped DEF RevokeToken, TypeOK, Request
    <2> QED
      BY <1>1, <1>5, <2>1, <2>2, <2>3, <2>4, Arrivals
  <1>6. CASE Continue(r)
    <2>1. CASE Identify(r) \/ IdentifyFails(r)
      <3>1. IdentityOf(req[r].user).role = RoleOf(req[r].user)
            /\ [IdentityOf(req[r].user) EXCEPT !.access = None].role = RoleOf(req[r].user)
        BY DEF IdentityOf
      <3> QED
        BY <2>1, <3>1, <1>2, <1>3 DEF Identify, IdentifyFails
    <2>2. CASE ReadTarget(r)
      <3>1. ASSUME NEW access
            PROVE  [IdentityOf(req[r].user) EXCEPT !.access = access].role = RoleOf(req[r].user)
        BY DEF IdentityOf
      <3>2. PICK access :
               Learn(r, "write_act_as", [IdentityOf(req[r].user) EXCEPT !.access = access])
        BY <2>2 DEF ReadTarget
      <3> QED
        BY <3>1, <3>2, <1>3
    <2>3. CASE ReadActor(r)
      <3>1. IdentityOf(req[r].snap.user).role = RoleOf(req[r].snap.user)
        BY DEF IdentityOf
      <3> QED
        BY <2>3, <3>1, <1>3 DEF ReadActor
    <2>4. CASE ReadActorFails(r)
      <3>1. req[r].snap \in Row /\ req[r].snap # None
        BY <2>4, SessionsAssumption DEF ReadActorFails, RequestInv, CookiePCs
      <3>2. req[r].snap.actor_role = RoleOf(req[r].snap.user)
        BY <3>1 DEF IInv, SnapInv, Sound
      <3>3. [req[r].snap.identity EXCEPT !.role = req[r].snap.actor_role].role
                = RoleOf(req[r].snap.user)
        BY <3>1, <3>2 DEF Row, Identity
      <3> QED
        BY <2>4, <3>3, <1>3 DEF ReadActorFails
    <2>5. CASE \/ SignInFails(r) \/ PersistFails(r) \/ IssueFails(r)
               \/ RevokePrevious(r) \/ ReadTargetFails(r)
               \/ WriteActAs(r) \/ UpdateFails(r) \/ RevokeActAs(r) \/ RestoreActor(r)
               \/ RevokeUser(r) \/ RevokeTarget(r) \/ Destroy(r) \/ DestroyFails(r)
               \/ DestroyUser(r) \/ DestroyUserFails(r)
               \/ ChangePassword(r) \/ ChangePasswordFails(r)
      BY <2>5, <1>2 DEF SignInFails, PersistFails, IssueFails, RevokePrevious, ReadTargetFails,
           WriteActAs, UpdateFails, RevokeActAs, RestoreActor,
           RevokeUser, RevokeTarget, Destroy, DestroyFails, DestroyUser, DestroyUserFails,
           ChangePassword, ChangePasswordFails, AfterEnd
    <2>6. ASSUME NEW s, Persist(r, s) PROVE SeenRole(r)'
      BY <2>6, <1>4, RequestTyped DEF Persist, TypeOK, Request
    <2>7. ASSUME NEW t, Issue(r, t) PROVE SeenRole(r)'
      BY <2>7, <1>4, RequestTyped DEF Issue, TypeOK, Request
    <2> QED
      BY <1>1, <1>6, <2>1, <2>2, <2>3, <2>4, <2>5, <2>6, <2>7 DEF Continue
  <1> QED
    BY <1>5, <1>6

LEMMA RoleStep ==
    ASSUME IInv, RoleInv, NEW r \in Requests, Arrival(r) \/ Continue(r)
    PROVE  RoleInv'
  <1>1. ASSUME NEW x \in Requests PROVE SeenRole(x)'
    <2>1. CASE x = r
      BY <2>1, SeenStep DEF RoleInv
    <2>2. CASE x # r
      <3>1. req'[x] = req[x]
        BY <2>2, OthersWait DEF IInv
      <3> QED
        BY <3>1 DEF RoleInv, SeenRole
    <2> QED
      BY <2>1, <2>2
  <1>2. ASSUME NEW s \in Sids, rows'[s] # None PROVE Shows(rows'[s])
    <2>1. CASE rows'[s] = rows[s]
      BY <1>2, <2>1 DEF RoleInv
    <2>2. CASE rows'[s] # rows[s]
      <3>1. SeenRole(r)
        BY DEF RoleInv
      <3>2. rows[s] # None => Shows(rows[s])
        BY DEF RoleInv
      <3>3. ASSUME req[r].pc = "restore", req[r].sid = s, rows[s] # None
            PROVE  req[r].snap.user = rows[s].user
        BY <3>3, SessionsAssumption DEF IInv, RequestInv, SnapInv, CookiePCs
      <3> QED
        BY <1>2, <2>2, <3>1, <3>2, <3>3, RowSteps DEF Shows, SeenRole, LoginRealm
    <2> QED
      BY <2>1, <2>2
  <1> QED
    BY <1>1, <1>2 DEF RoleInv, Shows

LEMMA RoleNext == IInv /\ RoleInv /\ [Next]_vars => RoleInv'
  <1> SUFFICES ASSUME IInv, RoleInv, [Next]_vars PROVE RoleInv'
    OBVIOUS
  <1>1. ASSUME NEW r \in Requests, Arrival(r) \/ Continue(r) PROVE RoleInv'
    BY <1>1, RoleStep
  <1>2. ASSUME \A s \in Sids : rows'[s] = rows[s] \/ rows'[s] = None, UNCHANGED req
        PROVE  RoleInv'
    BY <1>2 DEF RoleInv, SeenRole, Shows
  <1>3. ASSUME NEW s \in Sids, Lapse(s) PROVE RoleInv'
    BY <1>2, <1>3 DEF Lapse, IInv, TypeOK
  <1>4. CASE UNCHANGED vars
    BY <1>2, <1>4 DEF vars
  <1> QED
    BY <1>1, <1>3, <1>4 DEF Next

\* The role the site_admin routes test is that of the user the session speaks as,
\* whatever could not be read on the way.
THEOREM RoleTheorem == Spec => []RoleFollowsIdentity
  <1>1. Init => RoleInv
    BY DEF Init, NewRequest, RoleInv, SeenRole
  <1>2. RoleInv => RoleFollowsIdentity
    BY DEF RoleInv, Shows, RoleFollowsIdentity
  <1> QED
    BY <1>1, <1>2, RoleNext, Invariance, PTL DEF Spec

(***************************************************************************)
(* One request at a time: what interleaving and faults put at risk is      *)
(* safe when requests come one after the other and nothing fails.          *)
(***************************************************************************)

\* At most one request is in flight.
AloneInv ==
    /\ IsFiniteSet(InFlight)
    /\ \A x, y \in InFlight : x = y

\* Request r is on its way to delete row s, whose own token it has ended.
Removes(r, s) ==
    \/ req[r].pc \in SignOutPCs /\ req[r].sid = s
    \/ req[r].pc = "end_sessions" /\ req[r].user = rows[s].user

\* The email and scopes shown are those of user u.
ShowsProfile(seen, u) == seen.email = u /\ seen.access \in {u, None}

\* The identity a request is about to write shows the user it is for.
SeenProfile(r) ==
    /\ req[r].pc = "persist" => ShowsProfile(req[r].seen, req[r].user)
    /\ req[r].pc = "restore" => ShowsProfile(req[r].seen, req[r].snap.user)

\* The tokens a request works with are accepted when it needs them.
Accepted(r) ==
    /\ req[r].pc \in HoldingPCs => req[r].token \in live
    /\ req[r].pc \in EnterPCs \cup ExitPCs => req[r].snap.user_token \in live

ProfileInv ==
    /\ AloneInv
    /\ \A r \in Requests : Accepted(r) /\ SeenProfile(r)
    /\ \A s \in Sids : rows[s] # None =>
        /\ rows[s].user_token \in live \/ \E r \in Requests : Removes(r, s)
        /\ rows[s].act_as = rows[s].user => ShowsProfile(rows[s].identity, rows[s].user)

\* The bearer of the copy a request read is gone, unless it is the session's own token.
TargetGone(r) ==
    req[r].snap.target_token = req[r].snap.user_token \/ req[r].snap.target_token \notin live

\* What is left of the tokens of the row a request read, at each of its steps.
Accounted(r) ==
    /\ req[r].pc \notin {"end_sessions", "sign_in"}
    /\ req[r].pc \in CookiePCs => rows[req[r].sid] = req[r].snap
    /\ req[r].pc \in {"read_target", "write_act_as", "read_actor", "restore"} => TargetGone(r)
    /\ req[r].pc \in {"revoke_target", "destroy"} => req[r].snap.user_token \notin live
    /\ req[r].pc = "destroy" => req[r].snap.target_token \notin live

\* A PAT that Core accepts is in a row or about to be written to one.
Kept(t) ==
    \/ \E s \in Sids : rows[s] # None /\ t \in {rows[s].user_token, rows[s].target_token}
    \/ \E r \in Requests : req[r].pc \in HoldingPCs /\ req[r].token = t

OrphanInv ==
    /\ \A r \in Requests : Accounted(r)
    /\ \A t \in live : Kept(t)

\* A request arrives when none is in flight, and goes on alone.
LEMMA AloneStep ==
    ASSUME IInv, AloneInv, MaxConcurrent = 1, NEW r \in Requests, Arrival(r) \/ Continue(r)
    PROVE  /\ AloneInv'
           /\ \A x \in Requests \ {r} : x \notin InFlight /\ req'[x] = req[x]
           /\ Arrival(r) => InFlight = {} /\ req[r].pc = "new"
  <1>1. ASSUME Arrival(r) PROVE InFlight = {} /\ req[r].pc = "new"
    <2>1. PICK op : Arrives(r, op)
      BY <1>1, Arrivals DEF Authenticate, Join, BeginsWell, Begin, EndAtCore, RevokeToken, Arrives
    <2>2. Cardinality(InFlight) < 1 /\ req[r].pc = "new"
      BY <2>1 DEF Arrives
    <2>3. IsFiniteSet(InFlight)
      BY DEF AloneInv
    <2> HIDE DEF InFlight
    <2>4. Cardinality(InFlight) \in Nat
      BY <2>3, FS_CardinalityType
    <2>5. Cardinality(InFlight) = 0
      BY <2>2, <2>4
    <2> QED
      BY <2>2, <2>3, <2>5, FS_EmptySet
  <1>2. ASSUME Continue(r) PROVE r \in InFlight
    BY <1>2 DEF Continue, Authenticate, Issue, Persist, SignInFails, Identify, IdentifyFails,
           PersistFails, IssueFails, RevokePrevious, ReadTarget, ReadTargetFails,
           WriteActAs, UpdateFails, RevokeActAs, ReadActor, ReadActorFails, RestoreActor,
           RevokeUser, RevokeTarget, Destroy, DestroyFails, DestroyUser, DestroyUserFails,
           ChangePassword, ChangePasswordFails,
           InFlight
  <1>3. \A x \in Requests \ {r} : x \notin InFlight /\ req'[x] = req[x]
    <2>1. TypeOK
      BY DEF IInv
    <2> QED
      BY <1>1, <1>2, <2>1, OthersWait DEF AloneInv
  <1>4. AloneInv'
    <2>1. InFlight' \subseteq {r}
      BY <1>3 DEF InFlight
    <2>2. IsFiniteSet({r})
      BY FS_Singleton
    <2> QED
      BY <2>1, <2>2, FS_Subset DEF AloneInv
  <1> QED
    BY <1>1, <1>3, <1>4

\* Which steps a request takes to where its copy's own token is needed.
LEMMA Needing ==
    ASSUME IInv, NEW r \in Requests, OpInv(r), Arrival(r) \/ Continue(r),
           req'[r].pc \in EnterPCs \cup ExitPCs
    PROVE  \/ /\ Arrival(r) /\ UNCHANGED live
              /\ req'[r].sid \in Sids /\ rows[req'[r].sid] # None
              /\ req'[r].snap = rows[req'[r].sid]
           \/ /\ req[r].pc \in EnterPCs \cup ExitPCs
              /\ UNCHANGED <<req[r].snap, req[r].sid>>
  <1> TypeOK /\ RequestInv(r)
    BY DEF IInv
  <1>1. CASE Arrival(r)
    <2>1. ASSUME NEW u, NEW t, Authenticate(r, u, t) PROVE FALSE
      BY <2>1, MintSets DEF EnterPCs, ExitPCs
    <2>2. ASSUME NEW u, NEW t, NEW op, Join(r, u, t, op) PROVE FALSE
      BY <2>2, RequestTyped DEF Join, TypeOK, Request, EnterPCs, ExitPCs
    <2>3. ASSUME NEW u, NEW op, EndAtCore(r, u, op) PROVE FALSE
      BY <2>3, RequestTyped DEF EndAtCore, TypeOK, Request, EnterPCs, ExitPCs
    <2>4. ASSUME NEW s \in Sids, NEW op, NEW to, NEW pc, BeginsWell(r, s, op, to, pc)
          PROVE  /\ UNCHANGED live /\ req'[r].sid = s
                 /\ rows[s] # None /\ req'[r].snap = rows[s]
      BY <2>4, BeginSets DEF BeginsWell, Begin, EnterPCs, ExitPCs
    <2>5. ASSUME NEW t, RevokeToken(r, t) PROVE FALSE
      BY <2>5, RequestTyped DEF RevokeToken, TypeOK, Request, EnterPCs, ExitPCs
    <2> QED
      BY <1>1, <2>1, <2>2, <2>3, <2>4, <2>5, Arrivals
  <1>2. CASE Continue(r)
    <2>1. ASSUME req[r].pc \in EnterPCs \cup ExitPCs PROVE UNCHANGED <<req[r].snap, req[r].sid>>
      <3>1. req[r].snap # None
        BY <2>1, SessionsAssumption DEF RequestInv, CookiePCs, EnterPCs, ExitPCs
      <3> QED
        BY <3>1, <1>2, StepKeeps DEF Keeps
    <2>2. ASSUME req[r].pc \notin EnterPCs \cup ExitPCs PROVE FALSE
      <3> USE DEF EnterPCs, ExitPCs
      <3>1. ASSUME NEW u, NEW t, Authenticate(r, u, t) PROVE FALSE
        BY <3>1, MintSets
      <3>2. ASSUME NEW t, Issue(r, t) PROVE FALSE
        BY <3>2, <2>2 DEF Issue
      <3>3. ASSUME NEW s, Persist(r, s) PROVE FALSE
        BY <3>3, RequestTyped DEF Persist, TypeOK, Request
      <3>4. CASE Identify(r) \/ IdentifyFails(r) \/ ReadTarget(r) \/ ReadActor(r) \/ ReadActorFails(r)
        BY <3>4, <2>2, GoToSets, LearnSets
           DEF Identify, IdentifyFails, ReadTarget, ReadActor, ReadActorFails
      <3>5. CASE \/ SignInFails(r) \/ PersistFails(r) \/ IssueFails(r)
                 \/ RevokePrevious(r) \/ ReadTargetFails(r)
                 \/ WriteActAs(r) \/ UpdateFails(r) \/ RevokeActAs(r) \/ RestoreActor(r)
                 \/ RevokeUser(r) \/ RevokeTarget(r) \/ Destroy(r) \/ DestroyFails(r)
                 \/ DestroyUser(r) \/ DestroyUserFails(r)
                 \/ ChangePassword(r) \/ ChangePasswordFails(r)
        BY <3>5, <2>2, GoToSets DEF SignInFails, PersistFails, IssueFails, RevokePrevious,
             ReadTargetFails, WriteActAs, UpdateFails, RevokeActAs, RestoreActor,
             RevokeUser, RevokeTarget, Destroy, DestroyFails, DestroyUser, DestroyUserFails,
           ChangePassword, ChangePasswordFails, AfterEnd
      <3> QED
        BY <1>2, <3>1, <3>2, <3>3, <3>4, <3>5 DEF Continue
    <2> QED
      BY <2>1, <2>2
  <1> QED
    BY <1>1, <1>2

\* Nobody revokes their own PATs when clients do not ask for it.
LEMMA NoAccountSteps ==
    ASSUME NEW r \in Requests, OpInv(r), Ops \cap AccountOps = {}
    PROVE  ~ChangePassword(r) /\ ~ChangePasswordFails(r) /\ \A t : ~RevokeToken(r, t)
  BY DEF OpInv, ChangePassword, ChangePasswordFails, RevokeToken, Arrives, AccountOps

\* A token a request needs is revoked by no step of its own.
LEMMA AcceptedStep ==
    ASSUME IInv, NEW r \in Requests, OpInv(r), ProfileInv, Arrival(r) \/ Continue(r),
           Arrival(r) => InFlight = {} /\ req[r].pc = "new", Ops \cap AccountOps = {}
    PROVE  Accepted(r)'
  <1> TypeOK /\ RequestInv(r)
    BY DEF IInv
  <1> ~ChangePassword(r) /\ \A t : ~RevokeToken(r, t)
    BY NoAccountSteps
  <1>1. ASSUME req'[r].pc \in HoldingPCs, req'[r].token \notin live' PROVE FALSE
    <2>1. req[r].pc \in HoldingPCs /\ UNCHANGED <<req[r].token, req[r].user>>
      BY <1>1, HeldStep
    <2>2. req[r].token \in live
      BY <2>1 DEF ProfileInv, Accepted
    <2>3. req[r].snap # None => NotIn(req[r].token, req[r].snap)
      BY <2>1 DEF IInv, HeldInv
    <2>4. ASSUME NEW u, NEW op, EndAtCore(r, u, op) PROVE FALSE
      BY <2>4, <2>1 DEF EndAtCore, Arrives, HoldingPCs, SignInPCs, EnterPCs
    <2>5. ASSUME RevokePrevious(r) \/ RevokeActAs(r) \/ RevokeUser(r) \/ RevokeTarget(r)
          PROVE  req[r].snap # None
      BY <2>5, SessionsAssumption
         DEF RevokePrevious, RevokeActAs, RevokeUser, RevokeTarget, RequestInv, CookiePCs, EnterPCs
    <2> QED
      BY <1>1, <2>1, <2>2, <2>3, <2>4, <2>5, LiveWriters DEF NotIn
  <1>2. ASSUME req'[r].pc \in EnterPCs \cup ExitPCs PROVE req'[r].snap.user_token \in live'
    <2>1. CASE /\ Arrival(r) /\ UNCHANGED live
               /\ req'[r].sid \in Sids /\ rows[req'[r].sid] # None
               /\ req'[r].snap = rows[req'[r].sid]
      <3>1. \A x \in Requests : ~ Removes(x, req'[r].sid)
        BY <2>1 DEF Removes, InFlight, SignOutPCs
      <3> QED
        BY <2>1, <3>1 DEF ProfileInv
    <2>2. CASE req[r].pc \in EnterPCs \cup ExitPCs /\ UNCHANGED <<req[r].snap, req[r].sid>>
      <3>1. req[r].snap.user_token \in live
        BY <2>2 DEF ProfileInv, Accepted
      <3>2. ASSUME NEW u, NEW op, EndAtCore(r, u, op) PROVE FALSE
        BY <3>2, <2>2 DEF EndAtCore, Arrives, EnterPCs, ExitPCs
      <3>3. ASSUME RevokeUser(r) \/ RevokeTarget(r) PROVE FALSE
        BY <3>3, <2>2 DEF RevokeUser, RevokeTarget, EnterPCs, ExitPCs
      <3>4. ASSUME RevokePrevious(r)
            PROVE  req[r].snap.target_token # req[r].snap.user_token
        BY <3>4 DEF RevokePrevious, OpInv
      <3> QED
        BY <2>2, <3>1, <3>2, <3>3, <3>4, LiveWriters
    <2> QED
      BY <1>2, <2>1, <2>2, Needing
  <1> QED
    BY <1>1, <1>2 DEF Accepted

\* What a request is about to show is read from Core: nothing falls back on what
\* the session showed before.
LEMMA SeenProfileStep ==
    ASSUME IInv, NEW r \in Requests, ProfileInv, ~CoreMayFail, Arrival(r) \/ Continue(r)
    PROVE  SeenProfile(r)'
  <1> TypeOK /\ RequestInv(r)
    BY DEF IInv
  <1>1. ASSUME NEW u PROVE /\ ShowsProfile(IdentityOf(u), u)
                           /\ ShowsProfile([IdentityOf(u) EXCEPT !.access = None], u)
    BY DEF ShowsProfile, IdentityOf
  <1>2. ASSUME NEW pc, GoTo(r, pc), pc \notin {"persist", "restore"}
        PROVE  SeenProfile(r)'
    BY <1>2, GoToSets DEF SeenProfile
  <1>3. ASSUME NEW pc, NEW seen, Learn(r, pc, seen),
               \/ pc = "persist" /\ ShowsProfile(seen, req[r].user)
               \/ pc = "restore" /\ ShowsProfile(seen, req[r].snap.user)
               \/ pc = "write_act_as"
        PROVE  SeenProfile(r)'
    BY <1>3, LearnSets DEF SeenProfile
  <1>4. ASSUME req'[r].pc \notin {"persist", "restore"} PROVE SeenProfile(r)'
    BY <1>4 DEF SeenProfile
  <1>5. ASSUME NEW u, NEW t, Authenticate(r, u, t) PROVE SeenProfile(r)'
    BY <1>5, <1>1, MintSets DEF SeenProfile
  <1>6. CASE Arrival(r)
    <2>1. ASSUME NEW s, NEW op, NEW to, NEW pc, BeginsWell(r, s, op, to, pc) PROVE SeenProfile(r)'
      BY <2>1, <1>4, BeginSets DEF BeginsWell
    <2>2. ASSUME NEW u, NEW t, NEW op, Join(r, u, t, op) PROVE SeenProfile(r)'
      BY <2>2, <1>4, RequestTyped DEF Join, TypeOK, Request
    <2>3. ASSUME NEW u, NEW op, EndAtCore(r, u, op) PROVE SeenProfile(r)'
      BY <2>3, <1>4, RequestTyped DEF EndAtCore, TypeOK, Request
    <2>4. ASSUME NEW t, RevokeToken(r, t) PROVE SeenProfile(r)'
      BY <2>4, <1>4, RequestTyped DEF RevokeToken, TypeOK, Request
    <2> QED
      BY <1>5, <1>6, <2>1, <2>2, <2>3, <2>4, Arrivals
  <1>7. CASE Continue(r)
    <2>1. CASE Identify(r) \/ IdentifyFails(r)
      BY <2>1, <1>1, <1>2, <1>3 DEF Identify, IdentifyFails
    <2>2. CASE ReadTarget(r)
      BY <2>2, <1>3 DEF ReadTarget
    <2>3. CASE ReadActor(r)
      BY <2>3, <1>1, <1>3 DEF ReadActor
    <2>4. ASSUME ReadActorFails(r) PROVE FALSE
      <3>1. req[r].snap.user_token \in live
        BY <2>4 DEF ReadActorFails, ProfileInv, Accepted, ExitPCs
      <3> QED
        BY <2>4, <3>1 DEF ReadActorFails
    <2>5. CASE \/ SignInFails(r) \/ PersistFails(r) \/ IssueFails(r)
               \/ RevokePrevious(r) \/ ReadTargetFails(r)
               \/ WriteActAs(r) \/ UpdateFails(r) \/ RevokeActAs(r) \/ RestoreActor(r)
               \/ RevokeUser(r) \/ RevokeTarget(r) \/ Destroy(r) \/ DestroyFails(r)
               \/ DestroyUser(r) \/ DestroyUserFails(r)
               \/ ChangePassword(r) \/ ChangePasswordFails(r)
      BY <2>5, <1>2 DEF SignInFails, PersistFails, IssueFails, RevokePrevious, ReadTargetFails,
           WriteActAs, UpdateFails, RevokeActAs, RestoreActor,
           RevokeUser, RevokeTarget, Destroy, DestroyFails, DestroyUser, DestroyUserFails,
           ChangePassword, ChangePasswordFails, AfterEnd
    <2>6. ASSUME NEW s, Persist(r, s) PROVE SeenProfile(r)'
      BY <2>6, <1>4, RequestTyped DEF Persist, TypeOK, Request
    <2>7. ASSUME NEW t, Issue(r, t) PROVE SeenProfile(r)'
      BY <2>7, <1>4, RequestTyped DEF Issue, TypeOK, Request
    <2> QED
      BY <1>5, <1>7, <2>1, <2>2, <2>3, <2>4, <2>5, <2>6, <2>7 DEF Continue
  <1> QED
    BY <1>6, <1>7

\* A row keeps its own token accepted until a request goes to delete it.
LEMMA OwnAccepted ==
    ASSUME IInv, NEW r \in Requests, OpInv(r), ProfileInv, ~CoreMayFail, ~StoreMayFail,
           Ops \cap AccountOps = {}, Arrival(r) \/ Continue(r),
           \A x \in Requests \ {r} : x \notin InFlight /\ req'[x] = req[x],
           Arrival(r) => InFlight = {} /\ req[r].pc = "new",
           NEW s \in Sids, rows'[s] # None
    PROVE  rows'[s].user_token \in live' \/ \E x \in Requests : Removes(x, s)'
  <1> TypeOK /\ RequestInv(r)
    BY DEF IInv
  <1> ~ChangePassword(r) /\ \A t : ~RevokeToken(r, t)
    BY NoAccountSteps
  <1>1. CASE rows'[s] # rows[s]
    <2>1. ASSUME req[r].pc = "persist" PROVE req[r].token \in live
      BY <2>1 DEF ProfileInv, Accepted, HoldingPCs, SignInPCs
    <2>2. ASSUME req[r].pc \in {"write_act_as", "restore"}, rows[s] # None
          PROVE  rows[s].user_token \in live
      <3>1. ASSUME NEW x \in Requests, Removes(x, s) PROVE FALSE
        BY <2>2, <3>1 DEF Removes, SignOutPCs, InFlight
      <3> QED
        BY <2>2, <3>1 DEF ProfileInv
    <2> QED
      BY <1>1, <2>1, <2>2, RowSteps
  <1>2. CASE rows'[s] = rows[s] /\ rows[s].user_token \in live /\ rows[s].user_token \notin live'
    <2>1. rows[s] # None /\ Sound(rows[s])
      BY <1>2 DEF IInv, RowInv
    <2>2. ASSUME NEW u, NEW op, EndAtCore(r, u, op), owner[rows[s].user_token] = u
          PROVE  Removes(r, s)'
      <3>1. req'[r].pc = "end_sessions" /\ req'[r].user = u
        BY <2>2, RequestTyped DEF EndAtCore, TypeOK, Request
      <3> QED
        BY <1>2, <2>1, <2>2, <3>1 DEF Removes, Sound
    <2>3. ASSUME RevokePrevious(r) \/ RevokeActAs(r) \/ RevokeUser(r) \/ RevokeTarget(r),
                 rows[s].user_token \in {req[r].snap.user_token, req[r].snap.target_token}
          PROVE  req[r].sid = s /\ rows[s].user_token = req[r].snap.user_token
      <3>1. req[r].snap # None
        BY <2>3, SessionsAssumption
           DEF RevokePrevious, RevokeActAs, RevokeUser, RevokeTarget, RequestInv, CookiePCs, EnterPCs
      <3>2. req[r].sid = s
        BY <2>1, <2>3, <3>1 DEF IInv, SeparateInv, Disjoint
      <3> QED
        BY <2>1, <3>1, <3>2 DEF IInv, SnapInv
    <2>4. ASSUME RevokePrevious(r), rows[s].user_token = req[r].snap.target_token PROVE FALSE
      BY <2>3, <2>4 DEF RevokePrevious, OpInv
    <2>5. ASSUME RevokeUser(r) \/ RevokeTarget(r), req[r].sid = s PROVE Removes(r, s)'
      BY <2>5, GoToSets DEF RevokeUser, RevokeTarget, Removes, SignOutPCs
    <2> QED
      BY <1>2, <2>2, <2>3, <2>4, <2>5, LiveWriters
  <1>3. CASE rows'[s] = rows[s] /\ rows[s].user_token \notin live
    <2>1. PICK x \in Requests : Removes(x, s)
      BY <1>3 DEF ProfileInv
    <2>2. Removes(r, s) /\ Continue(r)
      BY <2>1 DEF Removes, InFlight, SignOutPCs
    <2>3. CASE req[r].pc \in SignOutPCs /\ req[r].sid = s
      <3>1. ASSUME Destroy(r) PROVE FALSE
        BY <1>3, <2>3, <3>1 DEF Destroy, TypeOK
      <3>2. CASE RevokeUser(r) \/ RevokeTarget(r)
        BY <2>3, <3>2, GoToSets DEF RevokeUser, RevokeTarget, Removes, SignOutPCs
      <3> QED
        BY <2>2, <2>3, <3>1, <3>2
           DEF SignOutPCs, Continue, Issue, Persist, SignInFails, Identify, IdentifyFails,
               PersistFails, IssueFails, RevokePrevious, ReadTarget, ReadTargetFails,
               WriteActAs, UpdateFails, RevokeActAs, ReadActor, ReadActorFails, RestoreActor,
               DestroyFails, DestroyUser, DestroyUserFails, ChangePassword, ChangePasswordFails
    <2>4. CASE req[r].pc = "end_sessions" /\ req[r].user = rows[s].user
      <3>1. ASSUME DestroyUser(r) PROVE FALSE
        BY <1>3, <2>4, <3>1 DEF DestroyUser
      <3> QED
        BY <2>2, <2>4, <3>1
           DEF Continue, Issue, Persist, SignInFails, Identify, IdentifyFails,
               PersistFails, IssueFails, RevokePrevious, ReadTarget, ReadTargetFails,
               WriteActAs, UpdateFails, RevokeActAs, ReadActor, ReadActorFails, RestoreActor,
               RevokeUser, RevokeTarget, Destroy, DestroyFails, DestroyUserFails,
               ChangePassword, ChangePasswordFails
    <2> QED
      BY <2>2, <2>3, <2>4 DEF Removes
  <1> QED
    BY <1>1, <1>2, <1>3

LEMMA ProfileStep ==
    ASSUME IInv, AliveInv, ProfileInv,
           MaxConcurrent = 1, Faults \subseteq {"lapse"}, Ops \cap AccountOps = {},
           NEW r \in Requests, Arrival(r) \/ Continue(r)
    PROVE  ProfileInv'
  <1>1. /\ AloneInv'
        /\ \A x \in Requests \ {r} : x \notin InFlight /\ req'[x] = req[x]
        /\ Arrival(r) => InFlight = {} /\ req[r].pc = "new"
    BY AloneStep DEF ProfileInv
  <1>2. ~CoreMayFail /\ ~StoreMayFail
    BY DEF CoreMayFail, StoreMayFail
  <1>3. OpInv(r)
    BY DEF AliveInv
  <1>4. ASSUME NEW x \in Requests PROVE Accepted(x)' /\ SeenProfile(x)'
    <2>1. CASE x = r
      BY <1>1, <1>2, <1>3, <2>1, AcceptedStep, SeenProfileStep
    <2>2. CASE x # r
      <3>1. req'[x] = req[x] /\ req[x].pc \in {"new", "done", "failed"}
        BY <1>1, <2>2 DEF InFlight
      <3> QED
        BY <3>1 DEF Accepted, SeenProfile, HoldingPCs, SignInPCs, EnterPCs, ExitPCs
    <2> QED
      BY <2>1, <2>2
  <1>5. ASSUME NEW s \in Sids, rows'[s] # None
        PROVE  rows'[s].user_token \in live' \/ \E x \in Requests : Removes(x, s)'
    BY <1>1, <1>2, <1>3, <1>5, OwnAccepted
  <1>6. ASSUME NEW s \in Sids, rows'[s] # None, rows'[s].act_as = rows'[s].user
        PROVE  ShowsProfile(rows'[s].identity, rows'[s].user)
    <2>1. CASE rows'[s] = rows[s]
      BY <1>6, <2>1 DEF ProfileInv
    <2>2. CASE rows'[s] # rows[s]
      <3>1. SeenProfile(r)
        BY DEF ProfileInv
      <3>2. ASSUME rows[s] # None, req[r].pc \in {"write_act_as", "restore"}, req[r].sid = s
            PROVE  /\ rows[s].user = req[r].snap.user
                   /\ req[r].pc = "write_act_as" => req[r].user # req[r].snap.user
        BY <3>2, SessionsAssumption DEF IInv, RequestInv, SnapInv, CookiePCs, EnterPCs
      <3> QED
        BY <1>6, <2>2, <3>1, <3>2, RowSteps DEF SeenProfile
    <2> QED
      BY <2>1, <2>2
  <1>7. ASSUME NEW s \in Sids, rows'[s] # None
        PROVE  /\ rows'[s].user_token \in live' \/ \E x \in Requests : Removes(x, s)'
               /\ rows'[s].act_as = rows'[s].user => ShowsProfile(rows'[s].identity, rows'[s].user)
    BY <1>5, <1>6, <1>7
  <1> QED
    BY <1>1, <1>4, <1>7 DEF ProfileInv, ShowsProfile

LEMMA ProfileNext ==
    ASSUME MaxConcurrent = 1, Faults \subseteq {"lapse"}, Ops \cap AccountOps = {}
    PROVE  IInv /\ AliveInv /\ ProfileInv /\ [Next]_vars => ProfileInv'
  <1> SUFFICES ASSUME IInv, AliveInv, ProfileInv, [Next]_vars PROVE ProfileInv'
    OBVIOUS
  <1>1. ASSUME NEW r \in Requests, Arrival(r) \/ Continue(r) PROVE ProfileInv'
    BY <1>1, ProfileStep
  <1>2. ASSUME UNCHANGED <<live, req>>, \A s \in Sids : rows'[s] = rows[s] \/ rows'[s] = None
        PROVE  ProfileInv'
    <2>1. InFlight' = InFlight
      BY <1>2 DEF InFlight
    <2> QED
      BY <1>2, <2>1 DEF ProfileInv, AloneInv, Accepted, SeenProfile, ShowsProfile, Removes
  <1>3. ASSUME NEW s \in Sids, Lapse(s) PROVE ProfileInv'
    BY <1>2, <1>3 DEF Lapse, IInv, TypeOK
  <1>4. CASE UNCHANGED vars
    BY <1>2, <1>4 DEF vars
  <1> QED
    BY <1>1, <1>3, <1>4 DEF Next

LEMMA ProfileInit == Init => ProfileInv
  <1> SUFFICES ASSUME Init PROVE ProfileInv
    OBVIOUS
  <1>1. InFlight = {}
    BY DEF Init, NewRequest, InFlight
  <1>2. AloneInv
    BY <1>1, FS_EmptySet DEF AloneInv
  <1>3. ASSUME NEW r \in Requests PROVE Accepted(r) /\ SeenProfile(r)
    BY DEF Init, NewRequest, Accepted, SeenProfile, HoldingPCs, SignInPCs, EnterPCs, ExitPCs
  <1> QED
    BY <1>2, <1>3 DEF Init, ProfileInv

LEMMA OneAtATime ==
    ASSUME MaxConcurrent = 1, Faults \subseteq {"lapse"}, Ops \cap AccountOps = {}
    PROVE  Spec => []ProfileInv
  <1>1. IInv /\ AliveInv /\ ProfileInv /\ [Next]_vars => ProfileInv'
    BY ProfileNext
  <1> QED
    BY <1>1, ProfileInit, Invariance, Aliveness, PTL DEF Spec

\* When requests come one at a time, Core and the table answer, and nobody revokes
\* their own PATs, a session that stopped acting as somebody shows its own user's
\* email and scopes.
THEOREM OwnProfileTheorem ==
    ASSUME MaxConcurrent = 1, Faults \subseteq {"lapse"}, Ops \cap AccountOps = {}
    PROVE  Spec => []OwnProfileAfterStop
  <1>1. ProfileInv => OwnProfileAfterStop
    BY DEF ProfileInv, ShowsProfile, OwnProfileAfterStop
  <1>2. Spec => []ProfileInv
    BY OneAtATime
  <1> QED
    BY <1>1, <1>2, PTL

\* The PATs that a step mints are in the hands of the request it is a step of.
LEMMA Births ==
    ASSUME IInv, NEW r \in Requests, Arrival(r) \/ Continue(r), NEW t \in live', t \notin live
    PROVE  req'[r].pc \in HoldingPCs /\ req'[r].token = t
  <1> TypeOK
    BY DEF IInv
  <1> USE DEF HoldingPCs, SignInPCs, EnterPCs
  <1>1. ASSUME NEW u, NEW x, Authenticate(r, u, x)
        PROVE  req'[r].pc \in HoldingPCs /\ req'[r].token = t
    <2>1. x = t
      BY <1>1 DEF Authenticate, Mint
    <2> QED
      BY <1>1, <2>1, MintSets
  <1>2. ASSUME NEW u, NEW x, NEW op, Join(r, u, x, op)
        PROVE  req'[r].pc \in HoldingPCs /\ req'[r].token = t
    <2>1. x = t
      BY <1>2 DEF Join, Mint
    <2> QED
      BY <1>2, <2>1, RequestTyped DEF Join, TypeOK, Request
  <1>3. ASSUME NEW x, Issue(r, x)
        PROVE  req'[r].pc \in HoldingPCs /\ req'[r].token = t
    <2>1. x = t
      BY <1>3 DEF Issue, Mint
    <2>2. \E pc \in {"revoke_previous", "read_target"} :
              req' = [req EXCEPT ![r] = [@ EXCEPT !.token = x, !.pc = pc]]
      BY <1>3 DEF Issue
    <2> QED
      BY <2>1, <2>2, RequestTyped DEF TypeOK, Request
  <1>4. ASSUME NEW x, Revoke(x) PROVE FALSE
    BY <1>4 DEF Revoke
  <1>5. CASE Arrival(r)
    BY <1>1, <1>2, <1>5, Arrivals DEF BeginsWell, Begin, EndAtCore, RevokeToken
  <1>6. CASE Continue(r)
    <2>1. ASSUME RevokePrevious(r) \/ RevokeActAs(r) \/ RevokeUser(r) \/ RevokeTarget(r)
          PROVE  FALSE
      BY <2>1, <1>4 DEF RevokePrevious, RevokeActAs, RevokeUser, RevokeTarget
    <2>2. ASSUME \/ SignInFails(r) \/ Identify(r) \/ IdentifyFails(r) \/ PersistFails(r)
                 \/ IssueFails(r) \/ ReadTarget(r) \/ ReadTargetFails(r)
                 \/ UpdateFails(r) \/ ReadActor(r) \/ ReadActorFails(r)
                 \/ DestroyFails(r) \/ DestroyUserFails(r)
                 \/ (\E s \in Sids : Persist(r, s)) \/ WriteActAs(r) \/ RestoreActor(r)
                 \/ Destroy(r) \/ DestroyUser(r)
                 \/ ChangePassword(r) \/ ChangePasswordFails(r)
          PROVE  FALSE
      BY <2>2 DEF SignInFails, Identify, IdentifyFails, PersistFails, IssueFails,
                  ReadTarget, ReadTargetFails, UpdateFails, ReadActor, ReadActorFails,
                  DestroyFails, DestroyUserFails, Persist, WriteActAs, RestoreActor,
                  Destroy, DestroyUser, ChangePassword, ChangePasswordFails
    <2> QED
      BY <1>1, <1>3, <1>6, <2>1, <2>2 DEF Continue
  <1> QED
    BY <1>5, <1>6

\* A request that goes on works with the row as it read it, and accounts for the
\* tokens it takes out of use.
LEMMA AccountedStep ==
    ASSUME IInv, NEW r \in Requests, OpInv(r), Accounted(r), Arrival(r) \/ Continue(r),
           ~CoreMayFail, Ops \cap (EndOps \cup AccountOps) = {}
    PROVE  Accounted(r)'
  <1> TypeOK /\ RequestInv(r)
    BY DEF IInv
  <1> ~ChangePassword(r) /\ ~ChangePasswordFails(r) /\ \A t : ~RevokeToken(r, t)
    BY NoAccountSteps
  <1>1. ASSUME NEW x, Revoke(x) PROVE live' = live \ {x}
    BY <1>1 DEF Revoke
  <1>2. ASSUME req'[r].pc \notin CookiePCs \cup {"end_sessions", "sign_in"} PROVE Accounted(r)'
    BY <1>2 DEF Accounted, CookiePCs, EnterPCs
  <1>3. ASSUME req[r].pc \in CookiePCs, NEW pc, GoTo(r, pc), UNCHANGED rows,
               pc \notin {"end_sessions", "sign_in"},
               pc \in {"read_target", "write_act_as", "read_actor", "restore"} => TargetGone(r)',
               pc \in {"revoke_target", "destroy"} => req[r].snap.user_token \notin live',
               pc = "destroy" => req[r].snap.target_token \notin live'
        PROVE  Accounted(r)'
    BY <1>3, GoToSets DEF Accounted
  <1>4. CASE Arrival(r)
    <2>1. ASSUME NEW u, NEW t, Authenticate(r, u, t) PROVE Accounted(r)'
      BY <2>1, <1>2, MintSets DEF CookiePCs, EnterPCs
    <2>2. ASSUME NEW u, NEW t, NEW op, Join(r, u, t, op) PROVE Accounted(r)'
      BY <2>2, <1>2, RequestTyped DEF Join, TypeOK, Request, CookiePCs, EnterPCs
    <2>3. ASSUME NEW u, NEW op, EndAtCore(r, u, op) PROVE FALSE
      BY <2>3 DEF EndAtCore, Arrives
    <2>4. ASSUME NEW s \in Sids, NEW op, NEW to, NEW pc, BeginsWell(r, s, op, to, pc)
          PROVE  Accounted(r)'
      <3>1. req'[r].pc = pc /\ req'[r].sid = s /\ req'[r].snap = rows[s]
        BY <2>4, BeginSets DEF BeginsWell
      <3>2. pc \in {"done", "failed", "issue", "revoke_act_as", "revoke_user",
                    "change_password"}
        BY <2>4 DEF BeginsWell
      <3>3. UNCHANGED rows
        BY <2>4 DEF BeginsWell, Begin
      <3> QED
        BY <3>1, <3>2, <3>3 DEF Accounted
    <2> QED
      BY <1>4, <2>1, <2>2, <2>3, <2>4, Arrivals
  <1>5. CASE Continue(r)
    <2>1. ASSUME NEW u, NEW t, Authenticate(r, u, t) PROVE Accounted(r)'
      BY <2>1, <1>2, MintSets DEF CookiePCs, EnterPCs
    <2>2. ASSUME NEW t, Issue(r, t) PROVE Accounted(r)'
      <3>1. PICK pc : /\ req' = [req EXCEPT ![r] = [@ EXCEPT !.token = t, !.pc = pc]]
                      /\ \/ pc = "revoke_previous"
                         \/ pc = "read_target"
                            /\ req[r].snap.target_token = req[r].snap.user_token
        BY <2>2 DEF Issue
      <3>2. /\ req'[r].pc = pc
            /\ UNCHANGED <<req[r].snap, req[r].sid>>
        BY <3>1, RequestTyped DEF TypeOK, Request
      <3>3. UNCHANGED rows /\ req[r].pc \in CookiePCs
        BY <2>2 DEF Issue, CookiePCs, EnterPCs
      <3> QED
        BY <3>1, <3>2, <3>3 DEF Accounted, TargetGone
    <2>3. ASSUME NEW s, Persist(r, s) PROVE Accounted(r)'
      BY <2>3, <1>2, RequestTyped DEF Persist, TypeOK, Request, CookiePCs, EnterPCs
    <2>4. CASE Identify(r) \/ IdentifyFails(r)
      BY <2>4, <1>2, GoToSets, LearnSets DEF Identify, IdentifyFails, CookiePCs, EnterPCs
    <2>5. CASE ReadTarget(r) \/ ReadActor(r) \/ ReadActorFails(r)
      <3>1. /\ req[r].pc \in {"read_target", "read_actor"}
            /\ \E pc \in {"write_act_as", "restore"} : \E seen : Learn(r, pc, seen)
        BY <2>5 DEF ReadTarget, ReadActor, ReadActorFails
      <3>2. UNCHANGED <<live, rows>>
        BY <2>5 DEF ReadTarget, ReadActor, ReadActorFails
      <3> QED
        BY <3>1, <3>2, LearnSets DEF Accounted, TargetGone, CookiePCs, EnterPCs
    <2>6. CASE RevokePrevious(r) \/ RevokeActAs(r)
      <3>1. TargetGone(r)'
        BY <2>6, <1>1, GoToSets DEF RevokePrevious, RevokeActAs, TargetGone
      <3> QED
        BY <2>6, <3>1, <1>3 DEF RevokePrevious, RevokeActAs, CookiePCs, EnterPCs
    <2>7. CASE RevokeUser(r) \/ RevokeTarget(r)
      BY <2>7, <1>1, <1>3 DEF RevokeUser, RevokeTarget, Accounted, CookiePCs, EnterPCs
    <2>8. CASE \/ SignInFails(r) \/ PersistFails(r) \/ IssueFails(r) \/ ReadTargetFails(r)
               \/ WriteActAs(r) \/ UpdateFails(r) \/ RestoreActor(r)
               \/ Destroy(r) \/ DestroyFails(r)
      BY <2>8, <1>2, GoToSets DEF SignInFails, PersistFails, IssueFails, ReadTargetFails,
           WriteActAs, UpdateFails, RestoreActor, Destroy, DestroyFails, CookiePCs, EnterPCs
    <2>9. ASSUME DestroyUser(r) \/ DestroyUserFails(r) PROVE FALSE
      BY <2>9 DEF DestroyUser, DestroyUserFails, Accounted
    <2> QED
      BY <1>5, <2>1, <2>2, <2>3, <2>4, <2>5, <2>6, <2>7, <2>8, <2>9 DEF Continue
  <1> QED
    BY <1>4, <1>5

\* A PAT that a request has in hand stays with it or goes into the row.
LEMMA HeldKept ==
    ASSUME IInv, ProfileInv, NEW r \in Requests, OpInv(r), Accounted(r), Continue(r),
           Faults = {}, req[r].pc \in HoldingPCs
    PROVE  \/ req'[r].pc \in HoldingPCs /\ req'[r].token = req[r].token
           \/ \E s \in Sids : rows'[s] # None /\ rows'[s].target_token = req[r].token
  <1> TypeOK /\ RequestInv(r)
    BY DEF IInv
  <1>1. ~CoreMayFail /\ ~StoreMayFail
    BY DEF CoreMayFail, StoreMayFail
  <1>2. req[r].token \in live
    BY DEF ProfileInv, Accepted
  <1>3. req[r].pc = "read_target" => req[r].snap.user_token \in live
    BY DEF ProfileInv, Accepted, EnterPCs
  <1> USE DEF HoldingPCs, SignInPCs, EnterPCs
  <1>4. ASSUME NEW s \in Sids, Persist(r, s)
        PROVE  rows'[s] # None /\ rows'[s].target_token = req[r].token
    <2>1. PICK row \in Row : /\ rows' = [rows EXCEPT ![s] = row]
                            /\ row.target_token = req[r].token
      BY <1>4, NewRow
    <2> QED
      BY <2>1, SessionsAssumption DEF TypeOK
  <1>5. ASSUME WriteActAs(r)
        PROVE  \E s \in Sids : rows'[s] # None /\ rows'[s].target_token = req[r].token
    <2> DEFINE s == req[r].sid
               row == [rows[s] EXCEPT !.act_as = req[r].user, !.target_token = req[r].token,
                                      !.realm = req[r].user, !.identity = req[r].seen]
    <2>1. rows[s] = req[r].snap /\ req[r].snap \in Row
      BY <1>5 DEF WriteActAs, Accounted, CookiePCs, RequestInv
    <2>2. s \in Sids /\ req[r].snap # None
      BY <2>1, SessionsAssumption DEF IInv, SnapInv, TypeOK
    <2>3. rows' = [rows EXCEPT ![s] = row]
      BY <1>5, <2>1, <2>2 DEF WriteActAs, UpdateRow
    <2>4. row \in Row /\ row.target_token = req[r].token
      BY <1>5, <2>1 DEF WriteActAs, RequestInv, Row
    <2>5. rows'[s] = row
      BY <2>2, <2>3 DEF TypeOK
    <2> HIDE DEF row
    <2>6. rows'[s] # None
      BY <2>4, <2>5, SessionsAssumption
    <2> QED
      BY <2>2, <2>4, <2>5, <2>6
  <1>6. ASSUME NEW pc \in {"read_target", "persist", "write_act_as"}, GoTo(r, pc)
        PROVE  req'[r].pc \in HoldingPCs /\ req'[r].token = req[r].token
    BY <1>6, GoToSets
  <1>7. ASSUME NEW pc \in {"read_target", "persist", "write_act_as"}, NEW seen, Learn(r, pc, seen)
        PROVE  req'[r].pc \in HoldingPCs /\ req'[r].token = req[r].token
    BY <1>7, LearnSets
  <1>8. CASE Identify(r) \/ IdentifyFails(r) \/ RevokePrevious(r) \/ ReadTarget(r)
    BY <1>1, <1>2, <1>6, <1>7, <1>8 DEF Identify, IdentifyFails, RevokePrevious, ReadTarget
  <1>9. ASSUME \/ PersistFails(r) \/ ReadTargetFails(r) \/ UpdateFails(r)
        PROVE  FALSE
    BY <1>1, <1>3, <1>9 DEF PersistFails, ReadTargetFails, UpdateFails
  <1>10. ASSUME \/ \E t, u : req[r].pc = "sign_in" /\ Authenticate(r, u, t)
                \/ \E t : Issue(r, t)
                \/ SignInFails(r) \/ IssueFails(r) \/ RevokeActAs(r) \/ ReadActor(r)
                \/ ReadActorFails(r) \/ RestoreActor(r) \/ RevokeUser(r) \/ RevokeTarget(r)
                \/ Destroy(r) \/ DestroyFails(r) \/ DestroyUser(r) \/ DestroyUserFails(r)
                \/ ChangePassword(r) \/ ChangePasswordFails(r)
         PROVE  FALSE
    BY <1>10 DEF Issue, SignInFails, IssueFails, RevokeActAs, ReadActor,
           ReadActorFails, RestoreActor, RevokeUser, RevokeTarget, Destroy, DestroyFails,
           DestroyUser, DestroyUserFails, ChangePassword, ChangePasswordFails
  <1> QED
    BY <1>4, <1>5, <1>8, <1>9, <1>10 DEF Continue

\* A row that goes or changes lets go of no PAT that Core still accepts.
LEMMA RowKept ==
    ASSUME IInv, NEW r \in Requests, OpInv(r), Accounted(r), Arrival(r) \/ Continue(r),
           NEW s \in Sids, rows[s] # None,
           NEW t \in {rows[s].user_token, rows[s].target_token}, t \in live
    PROVE  rows'[s] # None /\ t \in {rows'[s].user_token, rows'[s].target_token}
  <1> TypeOK /\ RequestInv(r)
    BY DEF IInv
  <1>1. CASE rows'[s] = rows[s]
    BY <1>1
  <1>2. ASSUME rows'[s] = None PROVE FALSE
    <2>1. ASSUME Destroy(r) PROVE FALSE
      BY <1>2, <2>1 DEF Destroy, TypeOK, Accounted, CookiePCs, EnterPCs
    <2>2. ASSUME DestroyUser(r) PROVE FALSE
      BY <2>2 DEF DestroyUser, Accounted
    <2>3. ASSUME NEW z \in Sids, Persist(r, z) PROVE FALSE
      BY <1>2, <2>3, NewRow, SessionsAssumption DEF TypeOK
    <2>4. ASSUME WriteActAs(r) \/ RestoreActor(r) PROVE FALSE
      BY <1>2, <2>4, RewrittenStays DEF IInv, TypeOK
    <2> QED
      BY <1>2, <2>1, <2>2, <2>3, <2>4, RowWriters
  <1>3. CASE rows'[s] # rows[s] /\ rows'[s] # None
    <2>1. /\ req[r].pc \in {"write_act_as", "restore"} /\ req[r].sid = s
          /\ rows'[s].user_token = rows[s].user_token
      BY <1>3, RowSteps
    <2>2. rows[s] = req[r].snap /\ TargetGone(r)
      BY <2>1 DEF Accounted, CookiePCs, EnterPCs
    <2>3. t = rows[s].user_token
      BY <2>2 DEF TargetGone
    <2> QED
      BY <1>3, <2>1, <2>3
  <1> QED
    BY <1>1, <1>2, <1>3

LEMMA OrphanStep ==
    ASSUME IInv, AliveInv, ProfileInv, OrphanInv,
           MaxConcurrent = 1, Faults = {}, Ops \cap (EndOps \cup AccountOps) = {},
           NEW r \in Requests, Arrival(r) \/ Continue(r)
    PROVE  OrphanInv'
  <1>1. /\ \A x \in Requests \ {r} : x \notin InFlight /\ req'[x] = req[x]
        /\ Arrival(r) => InFlight = {} /\ req[r].pc = "new"
    BY AloneStep DEF ProfileInv
  <1>2. OpInv(r) /\ Accounted(r)
    BY DEF AliveInv, OrphanInv
  <1>3. ASSUME NEW x \in Requests PROVE Accounted(x)'
    <2>1. CASE x = r
      BY <1>2, <2>1, AccountedStep DEF CoreMayFail
    <2>2. CASE x # r
      <3>1. req'[x] = req[x] /\ req[x].pc \in {"new", "done", "failed"}
        BY <1>1, <2>2 DEF InFlight
      <3> QED
        BY <3>1 DEF Accounted, CookiePCs, EnterPCs
    <2> QED
      BY <2>1, <2>2
  <1>4. ASSUME NEW t \in live' PROVE Kept(t)'
    <2>1. CASE t \notin live
      BY <1>4, <2>1, Births DEF Kept
    <2>2. CASE t \in live
      <3>1. ASSUME NEW s \in Sids, rows[s] # None,
                   t \in {rows[s].user_token, rows[s].target_token}
            PROVE  Kept(t)'
        BY <1>2, <2>2, <3>1, RowKept DEF Kept
      <3>2. ASSUME NEW x \in Requests, req[x].pc \in HoldingPCs, req[x].token = t
            PROVE  Kept(t)'
        <4>1. x \in InFlight
          BY <3>2 DEF InFlight, HoldingPCs, SignInPCs, EnterPCs
        <4>2. x = r /\ Continue(r)
          BY <1>1, <4>1
        <4> QED
          BY <1>2, <3>2, <4>2, HeldKept DEF Kept
      <3>3. Kept(t)
        BY <2>2 DEF OrphanInv
      <3> QED
        BY <3>1, <3>2, <3>3 DEF Kept
    <2> QED
      BY <2>1, <2>2
  <1> QED
    BY <1>3, <1>4 DEF OrphanInv

LEMMA OrphanNext ==
    ASSUME MaxConcurrent = 1, Faults = {}, Ops \cap (EndOps \cup AccountOps) = {}
    PROVE  IInv /\ AliveInv /\ ProfileInv /\ OrphanInv /\ [Next]_vars => OrphanInv'
  <1> SUFFICES ASSUME IInv, AliveInv, ProfileInv, OrphanInv, [Next]_vars PROVE OrphanInv'
    OBVIOUS
  <1>1. ASSUME NEW r \in Requests, Arrival(r) \/ Continue(r) PROVE OrphanInv'
    BY <1>1, OrphanStep
  <1>2. ASSUME NEW s \in Sids, Lapse(s) PROVE FALSE
    BY <1>2 DEF Lapse
  <1>3. CASE UNCHANGED vars
    BY <1>3 DEF vars, OrphanInv, Accounted, TargetGone, Kept
  <1> QED
    BY <1>1, <1>2, <1>3 DEF Next

\* When requests come one at a time, nothing fails, nobody is ended from elsewhere
\* and nobody revokes their own PATs, every PAT that Core accepts is in a row or in
\* the hands of a request.
THEOREM NoOrphanTheorem ==
    ASSUME MaxConcurrent = 1, Faults = {}, Ops \cap (EndOps \cup AccountOps) = {}
    PROVE  Spec => []NoOrphanToken
  <1>1. Init => OrphanInv
    BY DEF Init, NewRequest, OrphanInv, Accounted, CookiePCs, EnterPCs
  <1>2. IInv /\ AliveInv /\ ProfileInv /\ OrphanInv /\ [Next]_vars => OrphanInv'
    BY OrphanNext
  <1>3. OrphanInv => NoOrphanToken
    BY DEF OrphanInv, Kept, NoOrphanToken, InFlight, HoldingPCs, SignInPCs, EnterPCs
  <1>4. Spec => []ProfileInv
    BY OneAtATime
  <1> QED
    BY <1>1, <1>2, <1>3, <1>4, Invariance, Aliveness, PTL DEF Spec
=============================================================================
