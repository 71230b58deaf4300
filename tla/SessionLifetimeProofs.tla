------------------------ MODULE SessionLifetimeProofs ------------------------
(***************************************************************************)
(* Theorems about SessionLifetime, for every lifetime, idle period and     *)
(* clock bound.                                                            *)
(***************************************************************************)
EXTENDS SessionLifetime, TLAPS

\* Sign-in of session s.
SignsIn(x, s) == req[x].op = "sign_in" /\ req[x].sid = s

\* The times of a row, in the table or read by a request, go back to the
\* session's sign-in and to one of its uses.
Grounded(row, s) ==
    /\ \E x \in Requests : SignsIn(x, s) /\ row.expires_at <= req[x].at + Ttl
    /\ \E y \in Uses(s) : row.last_active = req[y].at

RequestInv(r) ==
    /\ req[r].pc = "new" => req[r].op = None
    /\ req[r].pc # "new" => req[r].sid \in Sids
    /\ req[r].pc = "insert" => req[r].op = "sign_in"
    /\ req[r].pc = "touch" => req[r].op \in {"use", "switch"}
    /\ req[r].pc \in {"judge", "delete"} =>
        req[r].op = "use" /\ req[r].row \in Row /\ Grounded(req[r].row, req[r].sid)

RowInv(s) == rows[s] # None => Grounded(rows[s], s)

LInv ==
    /\ TypeOK
    /\ \A r \in Requests : RequestInv(r)
    /\ \A s \in Sids : RowInv(s)
    /\ AbsoluteLifetime

LEMMA LInitInv == Init => LInv
  BY LifetimeAssumption
     DEF Init, NewRequest, LInv, TypeOK, Request, PCs, RequestInv, RowInv,
         AbsoluteLifetime, Served

\* Sign-ins and uses stay what they are.
LEMMA UsesStay ==
    ASSUME LInv, [Next]_vars
    PROVE  \A s \in Sids :
              /\ Uses(s) \subseteq Uses(s)'
              /\ \A y \in Uses(s) : /\ req'[y].at = req[y].at
                                   /\ req'[y].op = req[y].op /\ req'[y].sid = req[y].sid
              /\ \A x \in Requests : SignsIn(x, s) => SignsIn(x, s)'
  <1> SUFFICES ASSUME NEW s \in Sids, NEW y \in Uses(s)
               PROVE  /\ y \in Uses(s)' /\ req'[y].at = req[y].at
                      /\ req'[y].op = req[y].op /\ req'[y].sid = req[y].sid
                      /\ SignsIn(y, s) => SignsIn(y, s)'
    BY DEF SignsIn, Uses
  <1>1. y \in Requests /\ req[y].pc # "new" /\ req[y].pc \notin {"judge", "delete"}
    BY LifetimeAssumption DEF LInv, RequestInv, Uses, Served
  <1> DEFINE Stays == /\ req'[y].op = req[y].op
                      /\ req'[y].sid = req[y].sid
                      /\ req'[y].at = req[y].at
                      /\ req[y].pc \in {"touch", "done", "lost"} =>
                             req'[y].pc \in {"touch", "done", "lost"}
  <1>2. ASSUME NEW r \in Requests, r # y, \E z : req' = [req EXCEPT ![r] = z]
        PROVE  Stays
    BY <1>1, <1>2 DEF LInv, TypeOK
  <1>3. ASSUME Insert(y) \/ Touch(y) \/ StatementFails(y)
        PROVE  Stays
    <2>0. req[y] \in Request
      BY <1>1 DEF LInv, TypeOK
    <2>1. \A z : req' = [req EXCEPT ![y] = z] => req'[y] = z
      BY <1>1 DEF LInv, TypeOK
    <2>2. CASE Insert(y) \/ Touch(y)
      <3> DEFINE z == [req[y] EXCEPT !.pc = "done", !.landed = clock]
      <3>1. req'[y] = z
        BY <2>1, <2>2 DEF Insert, Touch
      <3>2. z.op = req[y].op /\ z.sid = req[y].sid /\ z.at = req[y].at /\ z.pc = "done"
        BY <2>0 DEF Request
      <3> QED
        BY <3>1, <3>2
    <2>3. CASE StatementFails(y)
      <3> DEFINE z(pc) == [req[y] EXCEPT !.pc = pc]
      <3>1. \A pc : /\ z(pc).op = req[y].op /\ z(pc).sid = req[y].sid
                    /\ z(pc).at = req[y].at /\ z(pc).pc = pc
        BY <2>0 DEF Request
      <3>2. req[y].pc \in {"insert", "delete", "touch"}
            /\ req'[y] = z(IF req[y].pc = "touch" THEN "lost" ELSE "failed")
        BY <2>1, <2>3 DEF StatementFails, Move
      <3> QED
        BY <3>1, <3>2
    <2> QED
      BY <1>3, <2>2, <2>3
  <1>4. Stays
    <2>1. UNCHANGED req => Stays
      OBVIOUS
    <2>2. ASSUME NEW r \in Requests,
                 \/ \E x \in Sids : SignIn(r, x) \/ Find(r, x)
                 \/ \E x \in Requests : Switch(r, x)
                 \/ Insert(r) \/ Reject(r) \/ Serve(r) \/ Delete(r)
                 \/ Touch(r) \/ StatementFails(r)
          PROVE  Stays
      <3>1. CASE r = y
        BY <1>1, <1>3, <2>2, <3>1
           DEF SignIn, Find, Reject, Serve, Delete, Switch, Comes
      <3>2. CASE r # y
        <4>1. \E z : req' = [req EXCEPT ![r] = z]
          BY <2>2 DEF SignIn, Insert, Find, Reject, Serve, Delete, Switch, Touch,
                      StatementFails, Move, LInv, TypeOK
        <4> QED
          BY <1>2, <3>2, <4>1
      <3> QED
        BY <3>1, <3>2
    <2>3. CASE Tick \/ Prune \/ UNCHANGED vars
      BY <2>1, <2>3 DEF Tick, Prune, vars
    <2>4. CASE \/ \E x \in Sids : SignOut(x)
               \/ \E now \in prunes : PruneLands(now) \/ PruneFails(now)
      BY <2>1, <2>4 DEF SignOut, PruneLands, PruneFails
    <2> QED
      BY <2>2, <2>3, <2>4 DEF Next
  <1> HIDE DEF Stays
  <1> QED
    BY <1>1, <1>4 DEF Uses, Served, SignsIn, Stays

LEMMA GroundedStays ==
    ASSUME LInv, [Next]_vars, NEW row \in Row, NEW s \in Sids, Grounded(row, s)
    PROVE  Grounded(row, s)'
  BY UsesStay DEF Grounded, SignsIn, Uses

\* A step that replaces request r by z.
LEMMA RequestStep ==
    ASSUME LInv, [Next]_vars, NEW r \in Requests, NEW z \in Request,
           req' = [req EXCEPT ![r] = z],
           z.pc # "new", z.sid \in Sids,
           z.pc = "insert" => z.op = "sign_in",
           z.pc = "touch" => z.op \in {"use", "switch"},
           z.pc \in {"judge", "delete"} =>
               z.op = "use" /\ z.row \in Row /\ Grounded(z.row, z.sid)
    PROVE  req' \in [Requests -> Request] /\ \A x \in Requests : RequestInv(x)'
  <1>1. req' \in [Requests -> Request]
    BY DEF LInv, TypeOK
  <1>2. RequestInv(r)'
    <2>1. req'[r] = z
      BY DEF LInv, TypeOK
    <2>2. z.pc \in {"judge", "delete"} => Grounded(z.row, z.sid)'
      BY GroundedStays
    <2> QED
      BY <2>1, <2>2 DEF RequestInv, Grounded
  <1>3. ASSUME NEW x \in Requests, x # r PROVE RequestInv(x)'
    <2>1. req'[x] = req[x] /\ RequestInv(x)
      BY <1>3 DEF LInv, TypeOK
    <2>2. req[x].pc \in {"judge", "delete"} => Grounded(req[x].row, req[x].sid)'
      BY <2>1, GroundedStays DEF RequestInv
    <2> QED
      BY <2>1, <2>2 DEF RequestInv, Grounded
  <1> QED
    BY <1>1, <1>2, <1>3

\* A step that changes no request.
LEMMA RequestsStay ==
    ASSUME LInv, [Next]_vars, UNCHANGED req
    PROVE  req' \in [Requests -> Request] /\ \A x \in Requests : RequestInv(x)'
  <1>1. \A x \in Requests : req[x].pc \in {"judge", "delete"} =>
            Grounded(req[x].row, req[x].sid)'
    BY GroundedStays DEF LInv, RequestInv
  <1> QED
    BY <1>1 DEF LInv, TypeOK, RequestInv, Grounded

LEMMA RequestsInv ==
    ASSUME LInv, Next
    PROVE  req' \in [Requests -> Request] /\ \A x \in Requests : RequestInv(x)'
  <1> DEFINE Goal == req' \in [Requests -> Request] /\ \A x \in Requests : RequestInv(x)'
  <1>0. clock \in Nat /\ \A r \in Requests : req[r] \in Request
    BY DEF LInv, TypeOK
  <1>1. ASSUME NEW r \in Requests, NEW s \in Sids, SignIn(r, s)
        PROVE  Goal
    <2> DEFINE z == [req[r] EXCEPT !.pc = "insert", !.op = "sign_in", !.sid = s, !.at = clock]
    <2>1. /\ z \in Request /\ z.pc = "insert" /\ z.op = "sign_in" /\ z.sid = s
      BY <1>0 DEF Request, PCs
    <2>2. req' = [req EXCEPT ![r] = z]
      BY <1>1 DEF SignIn, LInv, TypeOK
    <2> HIDE DEF z
    <2> QED
      BY <2>1, <2>2, RequestStep
  <1>2. ASSUME NEW r \in Requests, NEW s \in Sids, Find(r, s)
        PROVE  Goal
    <2> DEFINE z == [req[r] EXCEPT
                        !.pc = IF rows[s] = None THEN "failed" ELSE "judge",
                        !.op = "use", !.sid = s, !.asked = clock, !.row = rows[s]]
    <2>1. rows[s] \in Row \cup {None} /\ (rows[s] # None => Grounded(rows[s], s))
      BY DEF LInv, TypeOK, RowInv
    <2>2. /\ z \in Request /\ z.op = "use" /\ z.sid = s /\ z.row = rows[s]
          /\ z.pc = IF rows[s] = None THEN "failed" ELSE "judge"
      BY <1>0, <2>1 DEF Request, PCs
    <2>3. req' = [req EXCEPT ![r] = z]
      BY <1>2 DEF Find, LInv, TypeOK
    <2> HIDE DEF z
    <2> QED
      BY <2>1, <2>2, <2>3, RequestStep
  <1>3. ASSUME NEW r \in Requests, NEW x \in Requests, Switch(r, x)
        PROVE  Goal
    <2> DEFINE z == [req[r] EXCEPT !.pc = "touch", !.op = "switch",
                                   !.sid = req[x].sid, !.at = clock]
    <2>1. req[x].sid \in Sids
      BY <1>3 DEF Switch, Served, LInv, RequestInv
    <2>2. z \in Request /\ z.pc = "touch" /\ z.op = "switch" /\ z.sid = req[x].sid
      BY <1>0, <2>1 DEF Request, PCs
    <2>3. req' = [req EXCEPT ![r] = z]
      BY <1>3 DEF Switch, LInv, TypeOK
    <2> HIDE DEF z
    <2> QED
      BY <2>1, <2>2, <2>3, RequestStep
  <1>4. ASSUME NEW r \in Requests, Insert(r) \/ Touch(r)
        PROVE  Goal
    <2> DEFINE z == [req[r] EXCEPT !.pc = "done", !.landed = clock]
    <2>1. z \in Request /\ z.pc = "done" /\ z.sid = req[r].sid
      BY <1>0 DEF Request, PCs
    <2>2. req' = [req EXCEPT ![r] = z] /\ req[r].pc # "new"
      BY <1>4 DEF Insert, Touch, LInv, TypeOK
    <2>3. req[r].sid \in Sids
      BY <2>2 DEF LInv, RequestInv
    <2> HIDE DEF z
    <2> QED
      BY <2>1, <2>2, <2>3, RequestStep
  <1>5. ASSUME NEW r \in Requests, Reject(r) \/ Serve(r)
        PROVE  Goal
    <2>1. PICK pc \in {"delete", "touch"} :
              req' = [req EXCEPT ![r] = [@ EXCEPT !.pc = pc, !.at = clock]]
      BY <1>5 DEF Reject, Serve
    <2> DEFINE z == [req[r] EXCEPT !.pc = pc, !.at = clock]
    <2>2. /\ z \in Request /\ z.pc = pc /\ z.op = req[r].op
          /\ z.sid = req[r].sid /\ z.row = req[r].row
      BY <1>0 DEF Request, PCs
    <2>3. req' = [req EXCEPT ![r] = z] /\ req[r].pc = "judge"
      BY <1>5, <2>1 DEF Reject, Serve, LInv, TypeOK
    <2>4. req[r].sid \in Sids /\ req[r].op = "use" /\ req[r].row \in Row
          /\ Grounded(req[r].row, req[r].sid)
      BY <2>3 DEF LInv, RequestInv
    <2> HIDE DEF z
    <2> QED
      BY <2>2, <2>3, <2>4, RequestStep
  <1>6. ASSUME NEW r \in Requests, Delete(r) \/ StatementFails(r)
        PROVE  Goal
    <2>1. PICK pc \in {"lost", "failed"} : req' = [req EXCEPT ![r].pc = pc]
      BY <1>6 DEF Delete, StatementFails, Move
    <2> DEFINE z == [req[r] EXCEPT !.pc = pc]
    <2>2. z \in Request /\ z.pc = pc /\ z.sid = req[r].sid
      BY <1>0 DEF Request, PCs
    <2>3. req' = [req EXCEPT ![r] = z] /\ req[r].pc # "new"
      BY <1>6, <2>1 DEF Delete, StatementFails, LInv, TypeOK
    <2>4. req[r].sid \in Sids
      BY <2>3 DEF LInv, RequestInv
    <2> HIDE DEF z
    <2> QED
      BY <2>2, <2>3, <2>4, RequestStep
  <1>7. UNCHANGED req => Goal
    BY RequestsStay
  <1>8. \/ UNCHANGED req
        \/ \E r \in Requests :
            \/ \E s \in Sids : SignIn(r, s) \/ Find(r, s)
            \/ \E x \in Requests : Switch(r, x)
            \/ Insert(r) \/ Reject(r) \/ Serve(r) \/ Delete(r) \/ Touch(r) \/ StatementFails(r)
    BY DEF Next, Tick, SignOut, Prune, PruneLands, PruneFails
  <1> HIDE DEF Goal
  <1>9. Goal
    BY <1>1, <1>2, <1>3, <1>4, <1>5, <1>6, <1>7, <1>8
  <1> QED
    BY <1>9 DEF Goal

\* The rows that appear or change are as well grounded as the others.
LEMMA RowsInv ==
    ASSUME LInv, Next
    PROVE  rows' \in [Sids -> Row \cup {None}] /\ \A s \in Sids : RowInv(s)'
  <1> DEFINE Goal == rows' \in [Sids -> Row \cup {None}] /\ \A s \in Sids : RowInv(s)'
  <1>1. ASSUME rows' \in [Sids -> Row \cup {None}],
               \A s \in Sids : rows'[s] = rows[s] \/ rows'[s] = None
        PROVE  Goal
    <2>1. ASSUME NEW s \in Sids PROVE RowInv(s)'
      <3>1. CASE rows'[s] = None
        BY <3>1 DEF RowInv
      <3>2. CASE rows'[s] # None
        <4>1. PICK old \in Row : old = rows[s] /\ Grounded(old, s)
          BY <1>1, <3>2 DEF LInv, TypeOK, RowInv
        <4>2. Grounded(old, s)'
          BY <4>1, GroundedStays
        <4> QED
          BY <1>1, <3>2, <4>1, <4>2 DEF RowInv, Grounded
      <3> QED
        BY <3>1, <3>2
    <2> QED
      BY <1>1, <2>1
  <1>2. ASSUME NEW s \in Sids, NEW row \in Row, rows' = [rows EXCEPT ![s] = row],
               \E x \in Requests : SignsIn(x, s)' /\ row.expires_at <= req'[x].at + Ttl,
               \E y \in Uses(s)' : row.last_active = req'[y].at
        PROVE  Goal
    <2>1. rows' \in [Sids -> Row \cup {None}]
      BY <1>2 DEF LInv, TypeOK
    <2>2. RowInv(s)'
      BY <1>2 DEF RowInv, Grounded, LInv, TypeOK
    <2>3. ASSUME NEW x \in Sids, x # s PROVE RowInv(x)'
      <3>1. rows'[x] = rows[x]
        BY <1>2, <2>3 DEF LInv, TypeOK
      <3>2. CASE rows[x] = None
        BY <3>1, <3>2 DEF RowInv
      <3>3. CASE rows[x] # None
        <4>1. PICK old \in Row : old = rows[x] /\ Grounded(old, x)
          BY <3>3 DEF LInv, TypeOK, RowInv
        <4>2. Grounded(old, x)'
          BY <4>1, GroundedStays
        <4> QED
          BY <3>1, <4>1, <4>2 DEF RowInv, Grounded
      <3> QED
        BY <3>2, <3>3
    <2> QED
      BY <2>1, <2>2, <2>3
  <1> HIDE DEF Goal
  <1>3. ASSUME NEW r \in Requests, Insert(r)
        PROVE  Goal
    <2>1. PICK s \in Sids, at \in Nat :
              s = req[r].sid /\ at = req[r].at /\ req[r].op = "sign_in"
      BY <1>3 DEF Insert, LInv, TypeOK, Request, RequestInv
    <2> DEFINE row == [last_active |-> at, expires_at |-> at + Ttl]
    <2>2. /\ row \in Row
          /\ row.last_active = at /\ row.expires_at <= at + Ttl
      BY LifetimeAssumption DEF Row
    <2>3. rows' = [rows EXCEPT ![s] = row]
      BY <1>3, <2>1 DEF Insert
    <2>4. SignsIn(r, s) /\ r \in Uses(s)
      BY <2>1 DEF SignsIn, Uses
    <2>5. SignsIn(r, s)' /\ r \in Uses(s)' /\ req'[r].at = at
      BY <2>1, <2>4, UsesStay
    <2> HIDE DEF row
    <2> QED
      BY <1>2, <2>2, <2>3, <2>5
  <1>4. ASSUME NEW r \in Requests, Touch(r)
        PROVE  Goal
    <2>1. PICK s \in Sids, at \in Nat :
              /\ s = req[r].sid /\ at = req[r].at
              /\ req[r].pc = "touch" /\ req[r].op \in {"use", "switch"}
      BY <1>4 DEF Touch, LInv, TypeOK, Request, RequestInv
    <2>2. CASE rows[s] = None
      BY <1>1, <1>4, <2>1, <2>2 DEF Touch, LInv, TypeOK
    <2>3. CASE rows[s] # None
      <3>1. PICK old \in Row : old = rows[s] /\ Grounded(old, s)
        BY <2>3 DEF LInv, TypeOK, RowInv
      <3> DEFINE row == [old EXCEPT !.last_active = at]
      <3>2. row \in Row /\ row.last_active = at /\ row.expires_at = old.expires_at
        BY DEF Row
      <3>3. rows' = [rows EXCEPT ![s] = row]
        BY <1>4, <2>1, <2>3, <3>1 DEF Touch
      <3>4. r \in Uses(s)
        BY <2>1 DEF Uses, Served
      <3>5. r \in Uses(s)' /\ req'[r].at = at
        BY <2>1, <3>4, UsesStay
      <3>6. Grounded(old, s)'
        BY <3>1, GroundedStays
      <3> HIDE DEF row
      <3> QED
        BY <1>2, <3>2, <3>3, <3>5, <3>6 DEF Grounded
    <2> QED
      BY <2>2, <2>3
  <1>5. ASSUME NEW r \in Requests, Delete(r)
        PROVE  Goal
    BY <1>1, <1>5 DEF Delete, LInv, TypeOK
  <1>6. ASSUME NEW now \in prunes, PruneLands(now)
        PROVE  Goal
    BY <1>1, <1>6 DEF PruneLands, LInv, TypeOK
  <1>7. ASSUME NEW s \in Sids, SignOut(s)
        PROVE  Goal
    BY <1>1, <1>7 DEF SignOut, LInv, TypeOK
  <1>8. CASE UNCHANGED rows
    <2>1. rows' \in [Sids -> Row \cup {None}]
          /\ \A s \in Sids : rows'[s] = rows[s] \/ rows'[s] = None
      BY <1>8 DEF LInv, TypeOK
    <2> QED
      BY <1>1, <2>1 DEF Goal
  <1>9. \/ UNCHANGED rows
        \/ \E r \in Requests : Insert(r) \/ Touch(r) \/ Delete(r)
        \/ \E now \in prunes : PruneLands(now)
        \/ \E s \in Sids : SignOut(s)
    BY DEF Next, Tick, SignIn, Find, Reject, Serve, Switch, StatementFails, Prune, PruneFails
  <1> QED
    BY <1>3, <1>4, <1>5, <1>6, <1>7, <1>8, <1>9 DEF Goal

\* A request becomes served only when find has judged the row it read.
LEMMA ServedByFind ==
    ASSUME LInv, Next, NEW r \in Served', r \notin Served
    PROVE  r \in Requests /\ Serve(r) /\ req'[r].sid = req[r].sid /\ req'[r].at = clock
  <1>1. r \in Requests /\ req'[r].op = "use" /\ req'[r].pc \in {"touch", "done", "lost"}
    BY DEF Served
  <1>2. req'[r] # req[r]
    BY <1>1 DEF Served
  <1>3. req[r] \in Request /\ RequestInv(r)
    BY <1>1 DEF LInv, TypeOK
  <1>4. \A x \in Requests : \A z : req' = [req EXCEPT ![x] = z] => x = r /\ req'[r] = z
    BY <1>1, <1>2 DEF LInv, TypeOK
  <1>5. ASSUME NEW s \in Sids, NEW x \in Requests, SignIn(x, s) \/ Find(x, s)
        PROVE  FALSE
    <2>1. CASE SignIn(x, s)
      <3>1. x = r /\ req'[r] = [req[r] EXCEPT !.pc = "insert", !.op = "sign_in",
                                              !.sid = s, !.at = clock]
        BY <1>4, <2>1 DEF SignIn
      <3> QED
        BY <1>1, <1>3, <3>1 DEF Request
    <2>2. CASE Find(x, s)
      <3>1. x = r /\ req'[r] = [req[r] EXCEPT
                !.pc = IF rows[s] = None THEN "failed" ELSE "judge",
                !.op = "use", !.sid = s, !.asked = clock, !.row = rows[s]]
        BY <1>4, <2>2 DEF Find
      <3>2. req'[r].pc \in {"failed", "judge"}
        BY <1>3, <3>1 DEF Request
      <3> QED
        BY <1>1, <3>2
    <2> QED
      BY <1>5, <2>1, <2>2
  <1>6. ASSUME NEW x \in Requests, NEW y \in Requests, Switch(x, y)
        PROVE  FALSE
    <2>1. x = r /\ req'[r] = [req[r] EXCEPT !.pc = "touch", !.op = "switch",
                                            !.sid = req[y].sid, !.at = clock]
      BY <1>4, <1>6 DEF Switch
    <2> QED
      BY <1>1, <1>3, <2>1 DEF Request
  <1>7. ASSUME NEW x \in Requests, Insert(x) \/ Touch(x)
        PROVE  FALSE
    <2>1. x = r /\ req'[r] = [req[r] EXCEPT !.pc = "done", !.landed = clock]
      BY <1>4, <1>7 DEF Insert, Touch
    <2>2. req'[r].op = req[r].op
      BY <1>3, <2>1 DEF Request
    <2> QED
      BY <1>1, <1>3, <1>7, <2>1, <2>2 DEF Insert, Touch, Served, RequestInv
  <1>8. ASSUME NEW x \in Requests, Delete(x) \/ StatementFails(x)
        PROVE  FALSE
    <2>1. PICK pc : /\ req' = [req EXCEPT ![x].pc = pc]
                    /\ pc = "failed" \/ (pc = "lost" /\ req[x].pc = "touch")
      BY <1>8 DEF Delete, StatementFails, Move
    <2>2. x = r
      BY <1>1, <1>2, <2>1 DEF LInv, TypeOK
    <2>3. req'[r].pc = pc /\ req'[r].op = req[r].op
      BY <1>1, <1>3, <2>1, <2>2 DEF LInv, TypeOK, Request
    <2> QED
      BY <1>1, <2>1, <2>2, <2>3 DEF Served
  <1>9. ASSUME NEW x \in Requests, Reject(x)
        PROVE  FALSE
    <2>1. x = r /\ req'[r] = [req[r] EXCEPT !.pc = "delete", !.at = clock]
      BY <1>4, <1>9 DEF Reject
    <2> QED
      BY <1>1, <1>3, <2>1 DEF Request
  <1>10. ASSUME NEW x \in Requests, Serve(x)
         PROVE  Serve(r) /\ req'[r].sid = req[r].sid /\ req'[r].at = clock
    <2>1. x = r /\ req'[r] = [req[r] EXCEPT !.pc = "touch", !.at = clock]
      BY <1>4, <1>10 DEF Serve
    <2> QED
      BY <1>3, <1>10, <2>1 DEF Request
  <1>11. req' # req
    BY <1>2
  <1>12. \E x \in Requests :
            \/ \E s \in Sids : SignIn(x, s) \/ Find(x, s)
            \/ \E y \in Requests : Switch(x, y)
            \/ Insert(x) \/ Reject(x) \/ Serve(x) \/ Delete(x) \/ Touch(x) \/ StatementFails(x)
    BY <1>11 DEF Next, Tick, SignOut, Prune, PruneLands, PruneFails
  <1> QED
    BY <1>1, <1>5, <1>6, <1>7, <1>8, <1>9, <1>10, <1>12

LEMMA LNextInv == LInv /\ [Next]_vars => LInv'
  <1> SUFFICES ASSUME LInv, [Next]_vars PROVE LInv'
    OBVIOUS
  <1>1. CASE UNCHANGED vars
    BY <1>1 DEF vars, LInv, TypeOK, RequestInv, RowInv, Grounded, SignsIn, Uses, Served,
                AbsoluteLifetime
  <1>2. CASE Next
    <2>1. clock' \in Nat
      <3>1. CASE Tick
        BY <3>1 DEF LInv, TypeOK, Tick
      <3>2. CASE UNCHANGED clock
        BY <3>2 DEF LInv, TypeOK
      <3> QED
        BY <1>2, <3>1, <3>2
           DEF Next, SignIn, Insert, Find, Reject, Serve, Delete, Switch, Touch,
               StatementFails, SignOut, Prune, PruneLands, PruneFails
    <2>2. prunes' \in SUBSET Nat
      <3>1. CASE Prune
        BY <3>1 DEF LInv, TypeOK, Prune
      <3>2. CASE \E now \in prunes : PruneLands(now) \/ PruneFails(now)
        BY <3>2 DEF LInv, TypeOK, PruneLands, PruneFails
      <3>3. CASE UNCHANGED prunes
        BY <3>3 DEF LInv, TypeOK
      <3> QED
        BY <1>2, <3>1, <3>2, <3>3
           DEF Next, Tick, SignIn, Insert, Find, Reject, Serve, Delete, Switch, Touch,
               StatementFails, SignOut
    <2>3. TypeOK'
      BY <1>2, <2>1, <2>2, RequestsInv, RowsInv DEF TypeOK
    <2>4. ASSUME NEW r \in Served'
          PROVE  \E x \in Requests :
                    /\ req'[x].op = "sign_in" /\ req'[x].sid = req'[r].sid
                    /\ req'[r].at <= req'[x].at + Ttl
      <3>1. r \in Requests /\ req[r].sid \in Sids
        <4>1. CASE r \in Served
          BY <4>1 DEF Served, LInv, RequestInv
        <4>2. CASE r \notin Served
          BY <1>2, <2>4, <4>2, ServedByFind DEF Serve, LInv, RequestInv
        <4> QED
          BY <4>1, <4>2
      <3>2. /\ req'[r].sid = req[r].sid
            /\ \E x \in Requests : SignsIn(x, req[r].sid) /\ req'[r].at <= req[x].at + Ttl
        <4>1. CASE r \in Served
          <5>1. r \in Uses(req[r].sid)
            BY <3>1, <4>1 DEF Uses
          <5>2. req'[r].at = req[r].at /\ r \in Uses(req[r].sid)'
            BY <3>1, <5>1, UsesStay
          <5>3. req'[r].sid = req[r].sid
            BY <1>2, <3>1, <5>1, UsesStay
          <5> QED
            BY <4>1, <5>2, <5>3 DEF LInv, AbsoluteLifetime, SignsIn
        <4>2. CASE r \notin Served
          <5>1. Serve(r) /\ req'[r].sid = req[r].sid /\ req'[r].at = clock
            BY <1>2, <2>4, <4>2, ServedByFind
          <5>2. /\ clock \in Nat /\ req[r].row \in Row /\ Grounded(req[r].row, req[r].sid)
                /\ clock <= req[r].row.expires_at
            BY <3>1, <5>1 DEF Serve, Expired, LInv, TypeOK, RequestInv, Row
          <5>3. PICK x \in Requests : /\ SignsIn(x, req[r].sid)
                                      /\ req[r].row.expires_at <= req[x].at + Ttl
            BY <5>2 DEF Grounded
          <5>4. req[x].at \in Nat /\ req[r].row.expires_at \in Nat
            BY <5>2 DEF LInv, TypeOK, Request, Row
          <5> QED
            BY <5>1, <5>2, <5>3, <5>4, LifetimeAssumption
        <4> QED
          BY <4>1, <4>2
      <3>3. PICK x \in Requests : SignsIn(x, req[r].sid) /\ req'[r].at <= req[x].at + Ttl
        BY <3>2
      <3>4. x \in Uses(req[r].sid)
        BY <3>3 DEF SignsIn, Uses
      <3>5. req'[x].at = req[x].at /\ req'[x].op = req[x].op /\ req'[x].sid = req[x].sid
        BY <1>2, <3>1, <3>4, UsesStay
      <3> QED
        BY <3>2, <3>3, <3>5 DEF SignsIn
    <2> QED
      BY <1>2, <2>3, <2>4, RequestsInv, RowsInv DEF LInv, AbsoluteLifetime
  <1> QED
    BY <1>1, <1>2

(***************************************************************************)
(* What a row shows of the uses of its session.                            *)
(***************************************************************************)

\* An older use of s landed at x's landing or after it.
Overtaken(x, s) ==
    \E y \in Uses(s) : /\ req[y].at < req[x].at
                       /\ req[y].pc = "done" /\ req[y].landed >= req[x].landed

\* A row last active then shows use x of s, or a newer one, unless overtaken.
Shows(last_active, x, s) == req[x].at <= last_active \/ Overtaken(x, s)

\* A row shows every use of its session that has landed.
RowShows(s) ==
    rows[s] # None =>
        \A x \in Uses(s) : req[x].pc = "done" => Shows(rows[s].last_active, x, s)

\* The row find has read shows those that had landed when it was read.
CopyShows(r) ==
    req[r].pc \in {"judge", "delete"} =>
        \A x \in Uses(req[r].sid) : req[x].pc = "done" =>
            req[x].landed >= req[r].asked \/ Shows(req[r].row.last_active, x, req[r].sid)

Timely(r) ==
    /\ req[r].landed <= clock /\ req[r].asked <= clock
    /\ req[r].pc = "delete" =>
        Expired(req[r].row, req[r].at) \/ IdleTooLong(req[r].row, req[r].at)

ShowInv ==
    /\ LInv
    /\ \A r \in Requests : Timely(r) /\ CopyShows(r)
    /\ \A s \in Sids : RowShows(s)

LEMMA ShowInitInv == Init => ShowInv
  <1> SUFFICES ASSUME Init PROVE ShowInv
    OBVIOUS
  <1>1. LInv
    BY LInitInv
  <1>2. clock = 0 /\ \A r \in Requests : req[r] = NewRequest
    BY DEF Init
  <1>3. \A s \in Sids : rows[s] = None
    BY DEF Init
  <1> QED
    BY <1>1, <1>2, <1>3 DEF ShowInv, NewRequest, Timely, CopyShows, RowShows

LEMMA ClockGrows ==
    ASSUME LInv, [Next]_vars
    PROVE  clock \in Nat /\ clock' \in Nat /\ clock <= clock'
  <1>1. clock \in Nat
    BY DEF LInv, TypeOK
  <1>2. CASE Tick
    BY <1>1, <1>2 DEF Tick
  <1>3. CASE UNCHANGED clock
    BY <1>1, <1>3
  <1> QED
    BY <1>2, <1>3
       DEF Next, vars, SignIn, Insert, Find, Reject, Serve, Delete, Switch, Touch,
           StatementFails, SignOut, Prune, PruneLands, PruneFails

\* What a step makes of a request: nothing, or it has sent a statement or
\* failed, find has read the row, find refuses it, or its statement lands.
StaysPut(r) == req'[r] = req[r]
GoesOn(r) ==
    /\ req[r].pc # "done"
    /\ req'[r].pc \in {"insert", "touch", "lost", "failed"}
    /\ req'[r].landed = req[r].landed /\ req'[r].asked = req[r].asked
Reads(r, s) ==
    /\ req[r].pc # "done"
    /\ req'[r].pc \in {"judge", "failed"} /\ req'[r].sid = s
    /\ req'[r].asked = clock /\ req'[r].landed = req[r].landed /\ req'[r].row = rows[s]
    /\ req'[r].pc = "judge" => rows[s] # None
Refuses(r) ==
    /\ req[r].pc = "judge"
    /\ req'[r].pc = "delete" /\ req'[r].sid = req[r].sid /\ req'[r].row = req[r].row
    /\ req'[r].asked = req[r].asked /\ req'[r].landed = req[r].landed
    /\ Expired(req'[r].row, req'[r].at) \/ IdleTooLong(req'[r].row, req'[r].at)
Lands(r) ==
    /\ Insert(r) \/ Touch(r)
    /\ req'[r].pc = "done" /\ req'[r].landed = clock
    /\ req'[r].op = req[r].op /\ req'[r].sid = req[r].sid
    /\ req'[r].at = req[r].at /\ req'[r].asked = req[r].asked

LEMMA Turn ==
    ASSUME LInv, [Next]_vars, NEW r \in Requests
    PROVE  \/ StaysPut(r)
           \/ GoesOn(r)
           \/ \E s \in Sids : Reads(r, s)
           \/ Refuses(r)
           \/ Lands(r)
  <1> SUFFICES ASSUME req'[r] # req[r]
               PROVE  \/ GoesOn(r)
                      \/ \E s \in Sids : Reads(r, s)
                      \/ Refuses(r)
                      \/ Lands(r)
    BY DEF StaysPut
  <1>1. req[r] \in Request
    BY DEF LInv, TypeOK
  <1>2. ASSUME NEW x \in Requests, NEW z, req' = [req EXCEPT ![x] = z]
        PROVE  x = r /\ req'[r] = z
    BY <1>2 DEF LInv, TypeOK
  <1>3. ASSUME NEW x \in Requests, NEW s \in Sids, SignIn(x, s)
        PROVE  GoesOn(r)
    <2>1. x = r /\ req'[r] = [req[r] EXCEPT !.pc = "insert", !.op = "sign_in",
                                            !.sid = s, !.at = clock]
      BY <1>2, <1>3 DEF SignIn
    <2>2. req[r].pc = "new"
      BY <1>3, <2>1 DEF SignIn, Comes
    <2> QED
      BY <1>1, <2>1, <2>2 DEF GoesOn, Request
  <1>4. ASSUME NEW x \in Requests, NEW s \in Sids, Find(x, s)
        PROVE  Reads(r, s)
    <2>1. x = r /\ req'[r] = [req[r] EXCEPT
              !.pc = IF rows[s] = None THEN "failed" ELSE "judge",
              !.op = "use", !.sid = s, !.asked = clock, !.row = rows[s]]
      BY <1>2, <1>4 DEF Find
    <2>2. req[r].pc = "new"
      BY <1>4, <2>1 DEF Find, Comes
    <2> QED
      BY <1>1, <2>1, <2>2 DEF Reads, Request
  <1>5. ASSUME NEW x \in Requests, NEW y \in Requests, Switch(x, y)
        PROVE  GoesOn(r)
    <2>1. x = r /\ req'[r] = [req[r] EXCEPT !.pc = "touch", !.op = "switch",
                                            !.sid = req[y].sid, !.at = clock]
      BY <1>2, <1>5 DEF Switch
    <2>2. req[r].pc = "new"
      BY <1>5, <2>1 DEF Switch, Comes
    <2> QED
      BY <1>1, <2>1, <2>2 DEF GoesOn, Request
  <1>6. ASSUME NEW x \in Requests, Insert(x) \/ Touch(x)
        PROVE  Lands(r)
    <2>1. x = r /\ req'[r] = [req[r] EXCEPT !.pc = "done", !.landed = clock]
      BY <1>2, <1>6 DEF Insert, Touch
    <2> QED
      BY <1>1, <1>6, <2>1 DEF Lands, Request
  <1>7. ASSUME NEW x \in Requests, Reject(x)
        PROVE  Refuses(r)
    <2>1. x = r /\ req'[r] = [req[r] EXCEPT !.pc = "delete", !.at = clock]
      BY <1>2, <1>7 DEF Reject
    <2>2. /\ req'[r].pc = "delete" /\ req'[r].at = clock
          /\ req'[r].sid = req[r].sid /\ req'[r].row = req[r].row
          /\ req'[r].asked = req[r].asked /\ req'[r].landed = req[r].landed
      BY <1>1, <2>1 DEF Request
    <2> QED
      BY <1>7, <2>1, <2>2 DEF Refuses, Reject
  <1>8. ASSUME NEW x \in Requests, Serve(x)
        PROVE  GoesOn(r)
    <2>1. x = r /\ req'[r] = [req[r] EXCEPT !.pc = "touch", !.at = clock]
      BY <1>2, <1>8 DEF Serve
    <2> QED
      BY <1>1, <1>8, <2>1 DEF GoesOn, Serve, Request
  <1>9. ASSUME NEW x \in Requests, Delete(x) \/ StatementFails(x)
        PROVE  GoesOn(r)
    <2>1. PICK pc \in {"lost", "failed"} : req' = [req EXCEPT ![x].pc = pc]
      BY <1>9 DEF Delete, StatementFails, Move
    <2>2. x = r
      BY <2>1 DEF LInv, TypeOK
    <2>3. req'[r] = [req[r] EXCEPT !.pc = pc]
      BY <2>1, <2>2 DEF LInv, TypeOK
    <2> QED
      BY <1>1, <1>9, <2>2, <2>3 DEF GoesOn, Delete, StatementFails, Request
  <1>10. \E x \in Requests :
            \/ \E s \in Sids : SignIn(x, s) \/ Find(x, s)
            \/ \E y \in Requests : Switch(x, y)
            \/ Insert(x) \/ Reject(x) \/ Serve(x) \/ Delete(x) \/ Touch(x) \/ StatementFails(x)
    BY DEF Next, vars, Tick, SignOut, Prune, PruneLands, PruneFails
  <1> QED
    BY <1>3, <1>4, <1>5, <1>6, <1>7, <1>8, <1>9, <1>10

\* A request that has landed had landed before, or lands now.
LEMMA Landings ==
    ASSUME LInv, [Next]_vars, NEW x \in Requests
    PROVE  /\ req[x].pc = "done" => req'[x] = req[x]
           /\ req'[x].pc = "done" => req'[x] = req[x] \/ Lands(x)
  <1> USE DEF StaysPut, GoesOn, Reads, Refuses, Lands, Insert, Touch
  <1> QED
    BY Turn

LEMMA OvertakenStays ==
    ASSUME LInv, [Next]_vars, NEW s \in Sids, NEW x \in Uses(s), req[x].pc = "done",
           Overtaken(x, s)
    PROVE  Overtaken(x, s)'
  <1>1. PICK y \in Uses(s) : /\ req[y].at < req[x].at
                             /\ req[y].pc = "done" /\ req[y].landed >= req[x].landed
    BY DEF Overtaken
  <1>2. req'[x] = req[x] /\ req'[y] = req[y]
    BY <1>1, Landings DEF Uses
  <1>3. y \in Uses(s)'
    BY <1>1, UsesStay
  <1> QED
    BY <1>1, <1>2, <1>3 DEF Overtaken

\* A use that had landed stays shown.
LEMMA ShowsStays ==
    ASSUME LInv, [Next]_vars, NEW s \in Sids, NEW x \in Uses(s), req[x].pc = "done",
           NEW last_active, Shows(last_active, x, s)
    PROVE  /\ Overtaken(x, s)' \/ req[x].at <= last_active
           /\ req'[x] = req[x]
  BY OvertakenStays, Landings DEF Shows, Uses

\* The row of a session changes when one of its statements lands.
LEMMA RowTurn ==
    ASSUME LInv, [Next]_vars, NEW s \in Sids, rows'[s] # None
    PROVE  \/ rows'[s] = rows[s]
           \/ \E r \in Requests : Insert(r) \/ Touch(r)
  <1>1. ASSUME NEW r \in Requests, Delete(r)
        PROVE  rows'[s] = rows[s]
    BY <1>1 DEF Delete, LInv, TypeOK
  <1>2. ASSUME NEW now \in prunes, PruneLands(now)
        PROVE  rows'[s] = rows[s]
    BY <1>2 DEF PruneLands
  <1>3. ASSUME NEW x \in Sids, SignOut(x)
        PROVE  rows'[s] = rows[s]
    BY <1>3 DEF SignOut, LInv, TypeOK
  <1>4. \/ UNCHANGED rows
        \/ \E r \in Requests : Insert(r) \/ Touch(r) \/ Delete(r)
        \/ \E now \in prunes : PruneLands(now)
        \/ \E x \in Sids : SignOut(x)
    BY DEF Next, vars, Tick, SignIn, Find, Reject, Serve, Switch, StatementFails, Prune, PruneFails
  <1> QED
    BY <1>1, <1>2, <1>3, <1>4

LEMMA RowLanding ==
    ASSUME LInv, NEW r \in Requests, Insert(r) \/ Touch(r), NEW s \in Sids, rows'[s] # None
    PROVE  /\ req[r].sid = s => rows'[s].last_active = req[r].at
           /\ req[r].sid # s => rows'[s] = rows[s]
  <1>1. rows \in [Sids -> Row \cup {None}]
    BY DEF LInv, TypeOK
  <1>2. CASE Insert(r)
    BY <1>1, <1>2 DEF Insert
  <1>3. CASE Touch(r)
    <2>1. CASE rows[req[r].sid] = None
      BY <1>3, <2>1 DEF Touch
    <2>2. CASE rows[req[r].sid] # None
      <3>1. rows' = [rows EXCEPT ![req[r].sid] = [@ EXCEPT !.last_active = req[r].at]]
        BY <1>3, <2>2 DEF Touch
      <3>2. CASE req[r].sid = s
        <4>1. rows[s] \in Row
          BY <1>1, <2>2, <3>2
        <4>2. rows'[s] = [rows[s] EXCEPT !.last_active = req[r].at]
          BY <1>1, <3>1, <3>2
        <4> QED
          BY <3>2, <4>1, <4>2 DEF Row
      <3>3. CASE req[r].sid # s
        BY <1>1, <3>1, <3>3
      <3> QED
        BY <3>2, <3>3
    <2> QED
      BY <2>1, <2>2
  <1> QED
    BY <1>2, <1>3

LEMMA TimelyStays ==
    ASSUME ShowInv, [Next]_vars, NEW r \in Requests
    PROVE  Timely(r)'
  <1>1. LInv /\ Timely(r)
    BY DEF ShowInv
  <1>2. /\ clock \in Nat /\ clock' \in Nat /\ clock <= clock'
        /\ req[r].landed \in Nat /\ req[r].asked \in Nat
    BY <1>1, ClockGrows DEF LInv, TypeOK, Request
  <1>3. req'[r].landed \in {req[r].landed, clock} /\ req'[r].asked \in {req[r].asked, clock}
    BY <1>1, Turn DEF StaysPut, GoesOn, Reads, Refuses, Lands
  <1>4. req'[r].landed <= clock' /\ req'[r].asked <= clock'
    BY <1>1, <1>2, <1>3 DEF Timely
  <1>5. req'[r].pc = "delete" =>
            Expired(req'[r].row, req'[r].at) \/ IdleTooLong(req'[r].row, req'[r].at)
    BY <1>1, Turn DEF StaysPut, GoesOn, Reads, Refuses, Lands, Timely
  <1> QED
    BY <1>4, <1>5 DEF Timely, Expired, IdleTooLong

LEMMA RowShowsStays ==
    ASSUME ShowInv, [Next]_vars, NEW s \in Sids
    PROVE  RowShows(s)'
  <1>1. LInv /\ RowShows(s)
    BY DEF ShowInv
  <1> SUFFICES ASSUME rows'[s] # None, NEW t, t = rows'[s].last_active,
                      NEW x \in Uses(s)', req'[x].pc = "done"
               PROVE  Shows(t, x, s)'
    BY DEF RowShows
  <1>2. x \in Requests /\ req'[x].sid = s /\ (req'[x] = req[x] \/ Lands(x))
    BY <1>1, Landings DEF Uses
  <1>3. req'[x].at \in Nat /\ req'[x].landed \in Nat /\ clock \in Nat
    BY <1>1, <1>2, LNextInv, ClockGrows DEF LInv, TypeOK, Request
  <1>4. ASSUME NEW r \in Requests, Insert(r) \/ Touch(r), req[r].sid = s
        PROVE  Shows(t, x, s)'
    <2>1. rows'[s].last_active = req[r].at
      BY <1>1, <1>4, RowLanding
    <2>2. req'[r] # req[r] /\ req'[r] = [req[r] EXCEPT !.pc = "done", !.landed = clock]
      BY <1>1, <1>4 DEF Insert, Touch, LInv, TypeOK, Request
    <2>3. req'[r].pc = "done" /\ req'[r].landed = clock /\ req'[r].at = req[r].at
      BY <1>1, <2>2 DEF LInv, TypeOK, Request
    <2>4. r \in Uses(s)'
      <3>1. r \in Uses(s)
        BY <1>1, <1>4 DEF Uses, Served, Insert, Touch, LInv, RequestInv
      <3> QED
        BY <1>1, <3>1, UsesStay
    <2>5. req'[x].landed <= clock
      BY <1>2, <1>3 DEF ShowInv, Timely, Lands
    <2>6. req[r].at \in Nat
      BY <1>1 DEF LInv, TypeOK, Request
    <2>7. CASE req'[x].at <= req[r].at
      BY <2>1, <2>7 DEF Shows
    <2>8. CASE req[r].at < req'[x].at
      BY <2>3, <2>4, <2>5, <2>8 DEF Shows, Overtaken
    <2> QED
      BY <1>3, <2>6, <2>7, <2>8
  <1>5. CASE ~\E r \in Requests : (Insert(r) \/ Touch(r)) /\ req[r].sid = s
    <2>1. rows'[s] = rows[s]
      BY <1>1, <1>5, RowTurn, RowLanding
    <2>2. req'[x] = req[x]
      BY <1>2, <1>5 DEF Lands
    <2>3. x \in Uses(s) /\ req[x].pc = "done"
      BY <2>2 DEF Uses, Served
    <2>4. Shows(t, x, s)
      BY <1>1, <2>1, <2>3 DEF RowShows
    <2> QED
      BY <1>1, <2>1, <2>2, <2>3, <2>4, ShowsStays DEF Shows
  <1> QED
    BY <1>4, <1>5

LEMMA CopyShowsStays ==
    ASSUME ShowInv, [Next]_vars, NEW r \in Requests
    PROVE  CopyShows(r)'
  <1>1. LInv /\ CopyShows(r) /\ Timely(r)
    BY DEF ShowInv
  <1>2. ASSUME req[r].pc \in {"judge", "delete"}, req'[r].sid = req[r].sid,
               req'[r].row = req[r].row, req'[r].asked = req[r].asked
        PROVE  CopyShows(r)'
    <2> SUFFICES ASSUME NEW s \in Sids, s = req[r].sid, NEW t, t = req[r].row.last_active,
                        NEW x \in Uses(s)', req'[x].pc = "done"
                 PROVE  \/ req'[x].landed >= req[r].asked
                        \/ Shows(t, x, s)'
      BY <1>1, <1>2 DEF CopyShows, LInv, RequestInv
    <2>1. CASE Lands(x)
      BY <1>1, <2>1, ClockGrows DEF Lands, Timely, LInv, TypeOK, Request
    <2>2. CASE req'[x] = req[x]
      <3>1. x \in Uses(s) /\ req[x].pc = "done"
        BY <2>2 DEF Uses, Served
      <3>2. req[x].landed >= req[r].asked \/ Shows(t, x, s)
        BY <1>1, <1>2, <3>1 DEF CopyShows
      <3> QED
        BY <1>1, <2>2, <3>1, <3>2, ShowsStays DEF Shows
    <2> QED
      BY <1>1, <2>1, <2>2, Landings DEF Uses
  <1>3. ASSUME NEW s \in Sids, Reads(r, s), req'[r].pc = "judge"
        PROVE  CopyShows(r)'
    <2> SUFFICES ASSUME NEW t, t = rows[s].last_active, NEW x \in Uses(s)', req'[x].pc = "done"
                 PROVE  req'[x].landed >= clock \/ Shows(t, x, s)'
      BY <1>3 DEF CopyShows, Reads
    <2>1. CASE Lands(x)
      BY <1>1, <2>1, ClockGrows DEF Lands
    <2>2. CASE req'[x] = req[x]
      <3>1. x \in Uses(s) /\ req[x].pc = "done"
        BY <2>2 DEF Uses, Served
      <3>2. Shows(t, x, s)
        BY <1>3, <3>1 DEF ShowInv, RowShows, Reads
      <3> QED
        BY <1>1, <2>2, <3>1, <3>2, ShowsStays DEF Shows
    <2> QED
      BY <1>1, <2>1, <2>2, Landings DEF Uses
  <1>4. \/ req'[r].pc \notin {"judge", "delete"}
        \/ /\ req[r].pc \in {"judge", "delete"} /\ req'[r].sid = req[r].sid
           /\ req'[r].row = req[r].row /\ req'[r].asked = req[r].asked
        \/ \E s \in Sids : Reads(r, s) /\ req'[r].pc = "judge"
    BY <1>1, Turn DEF StaysPut, GoesOn, Reads, Refuses, Lands
  <1> QED
    BY <1>2, <1>3, <1>4 DEF CopyShows

LEMMA ShowNextInv == ShowInv /\ [Next]_vars => ShowInv'
  <1> SUFFICES ASSUME ShowInv, [Next]_vars PROVE ShowInv'
    OBVIOUS
  <1>1. LInv'
    BY LNextInv DEF ShowInv
  <1> QED
    BY <1>1, TimelyStays, CopyShowsStays, RowShowsStays DEF ShowInv

(***************************************************************************)
(* The theorems.                                                           *)
(***************************************************************************)

\* The inductive invariant: the times of every row, in the table and in the
\* hands of find, go back to the sign-in and to a use of the session.
THEOREM LifetimeInvariance == Spec => []LInv
  BY LInitInv, LNextInv, PTL DEF Spec

\* However late and out of order statements land, no request is served more
\* than session_ttl_seconds after its session was signed in.
THEOREM LifetimeTheorem == Spec => []AbsoluteLifetime
  <1>1. LInv => AbsoluteLifetime
    BY DEF LInv
  <1> QED
    BY <1>1, LifetimeInvariance, PTL

\* A request is served only within session_idle_seconds of a use of its session.
THEOREM IdleTheorem == Spec => IdleTimeoutEnforced
  <1> DEFINE Step == \A r \in Served' \ Served :
                        \E x \in Uses(req[r].sid) : clock <= req[x].at + Idle
  <1>1. LInv /\ [Next]_vars => [Step]_vars
    <2> SUFFICES ASSUME LInv, Next, NEW r \in Served' \ Served
                 PROVE  \E x \in Uses(req[r].sid) : clock <= req[x].at + Idle
      BY DEF vars
    <2>1. r \in Requests /\ Serve(r)
      BY ServedByFind
    <2>2. Grounded(req[r].row, req[r].sid) /\ req[r].row \in Row /\ clock \in Nat
      BY <2>1 DEF Serve, LInv, TypeOK, RequestInv
    <2>3. clock <= req[r].row.last_active + Idle
      BY <2>1, <2>2, LifetimeAssumption DEF Serve, IdleTooLong, Row
    <2> QED
      BY <2>2, <2>3 DEF Grounded
  <1> QED
    BY <1>1, LifetimeInvariance, PTL DEF Spec, IdleTimeoutEnforced

\* Types, of rows, of requests and of the prunes under way.
THEOREM LifetimeTyped == Spec => []TypeOK
  <1>1. LInv => TypeOK
    BY DEF LInv
  <1> QED
    BY <1>1, LifetimeInvariance, PTL

\* Rows show the uses that have landed, save where an older one came later.
THEOREM ShowInvariance == Spec => []ShowInv
  BY ShowInitInv, ShowNextInv, PTL DEF Spec

\* find ends a session within its idle period only for a use that had not
\* landed when it read the row, or that an older one had overtaken.
THEOREM IdleReapTheorem == Spec => []IdleReapExplained
  <1>1. ShowInv => IdleReapExplained
    <2> SUFFICES ASSUME ShowInv, NEW r \in Requests, req[r].pc = "delete",
                        ~Expired(req[r].row, req[r].at),
                        NEW x \in Uses(req[r].sid), req[r].at <= req[x].at + Idle,
                        req[x].pc = "done"
                 PROVE  req[x].landed >= req[r].asked \/ Overtaken(x, req[r].sid)
      BY DEF IdleReapExplained, Overtaken
    <2>1. req[r].at > req[r].row.last_active + Idle
      BY DEF ShowInv, Timely, IdleTooLong
    <2>2. /\ req[r].at \in Nat /\ req[x].at \in Nat /\ req[r].row \in Row
      BY DEF ShowInv, LInv, TypeOK, RequestInv, Request, Uses
    <2>3. ~(req[x].at <= req[r].row.last_active)
      BY <2>1, <2>2, LifetimeAssumption DEF Row
    <2>4. req[x].landed >= req[r].asked \/ Shows(req[r].row.last_active, x, req[r].sid)
      BY DEF ShowInv, CopyShows
    <2> QED
      BY <2>3, <2>4 DEF Shows
  <1> QED
    BY <1>1, ShowInvariance, PTL
==============================================================================
