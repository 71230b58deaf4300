----------------------------- MODULE RequestGate -----------------------------
(***************************************************************************)
(* One request on its way to Core and back, in the order app.ts mounts the *)
(* middleware: csrf_guard, session_auth, the route table, the handler.     *)
(* The request may carry a session cookie, a bearer, or both; its session  *)
(* row may go at any moment.  Requests share nothing else, so one is       *)
(* enough.                                                                 *)
(***************************************************************************)
EXTENDS CoreClient

CONSTANTS
    ROUTE_AUTH,      \* the rule of a route, for a body that tells its field and for any other
    Handlers,        \* the credential a route's handler takes and how it asks, likewise
    GetRoutes,
    Limited(_, _),   \* whether a limiter may refuse a route's request
    Parses(_, _),    \* whether its handler checks the body or query
    Uploads,         \* the routes whose body has a size limit
    Replies,         \* the replies of Core the instance tries
    CookieUser,      \* the user the cookie's session acts as
    BearerUser       \* the user of a bearer PAT

VARIABLES
    row,      \* whether the cookie's session row is in the table
    kept,     \* history: it has been since the request came
    req,
    pc,
    session,  \* req.session_data
    sent,     \* the credential the handler passed on to Core
    answer

vars == <<row, kept, req, pc, session, sent, answer>>

Roles == {"user", "admin"}
Bearers == {"none", "pat", "daemon"}
Nothing == [kind |-> "none"]

\* Tokens by whose they are: the session's target_token, a user's PAT, a daemon's.
Token == [kind : {"session", "pat", "daemon"}]
Session == [user : {CookieUser, BearerUser}, role : Roles, token : Token]
Request == [route : DOMAIN ROUTE_AUTH \cup {"unknown"}, told : {"told", "plain"}, role : Roles,
            cookie : BOOLEAN, header : BOOLEAN, bearer : Bearers]

\* An answer, and who gave it: the BFF itself or Core.
Answer(by, reply, told) == [by |-> by, reply |-> reply, told |-> told]
ByBff(code, status) == Answer("bff", Nothing, ApiError(code, status))
NoAnswer == [by |-> "nobody"]

\* A body tells its field only where the field means something.
Sensible(r) ==
    \/ r.told = "plain"
    \/ /\ r.route \in DOMAIN ROUTE_AUTH
       /\ \/ ROUTE_AUTH[r.route].told # ROUTE_AUTH[r.route].plain
          \/ Handlers[r.route].told # Handlers[r.route].plain

Init ==
    /\ req \in {r \in Request : Sensible(r)}
    /\ row = req.cookie
    /\ kept = row
    /\ pc = "csrf_guard"
    /\ session = Nothing
    /\ sent = Nothing
    /\ answer = NoAnswer

Reject(code, status) ==
    /\ pc' = "answered"
    /\ answer' = ByBff(code, status)

\* Signed out elsewhere, lapsed or pruned.
RowGoes ==
    /\ row
    /\ row' = FALSE
    /\ kept' = FALSE
    /\ UNCHANGED <<req, pc, session, sent, answer>>

csrf_guard ==
    /\ pc = "csrf_guard"
    /\ IF req.route \in GetRoutes \/ req.bearer # "none" \/ req.header
       THEN pc' = "find" /\ UNCHANGED answer
       ELSE Reject("csrf_rejected", 403)
    /\ UNCHANGED <<row, kept, req, session, sent>>

\* session_auth reads the cookie's row; without one it looks at the bearer.
Find ==
    /\ pc = "find"
    /\ IF req.cookie /\ row
       THEN /\ session' = [user |-> CookieUser, role |-> req.role, token |-> [kind |-> "session"]]
            /\ pc' = "route_auth"
       ELSE UNCHANGED session /\ pc' = "hydrate"
    /\ UNCHANGED <<row, kept, req, sent, answer>>

\* Mutant: a cookie that cannot be checked counts as none.
FindFailsSignedOut ==
    /\ pc = "find"
    /\ req.cookie
    /\ pc' = "hydrate"
    /\ UNCHANGED <<row, kept, req, session, sent, answer>>

FindFails ==
    /\ pc = "find"
    /\ req.cookie
    /\ Reject("session_store_unavailable", 503)
    /\ UNCHANGED <<row, kept, req, session, sent>>

\* hydrate_bearer asks Core whose the PAT is; a daemon's is nobody's, and so is
\* one Core refuses or cannot be asked about.
Hydrate ==
    /\ pc = "hydrate"
    /\ pc' = "route_auth"
    /\ \/ UNCHANGED session
       \/ /\ req.bearer = "pat"
          /\ session' = [user |-> BearerUser, role |-> req.role, token |-> [kind |-> "pat"]]
    /\ UNCHANGED <<row, kept, req, sent, answer>>

\* The explicit bearer wins over the session's token.
forward_token ==
    CASE req.bearer # "none" -> [kind |-> req.bearer]
      [] req.bearer = "none" /\ session # Nothing -> session.token
      [] OTHER -> Nothing

Rule == ROUTE_AUTH[req.route][req.told]

Admits ==
    CASE Rule = "public" -> TRUE
      [] Rule = "token" -> forward_token # Nothing
      [] Rule = "session" -> session # Nothing
      [] Rule = "site_admin" -> session # Nothing /\ session.role = "admin"

Denial == IF Rule = "site_admin" /\ session # Nothing THEN ByBff("forbidden", 403) ELSE ByBff("unauthorized", 401)

\* The route table; the router answers for a path it does not know.
route_auth ==
    /\ pc = "route_auth"
    /\ IF req.route = "unknown"
       THEN Reject("not_found", 404)
       ELSE IF Admits THEN pc' = "handler" /\ UNCHANGED answer
       ELSE pc' = "answered" /\ answer' = Denial
    /\ UNCHANGED <<row, kept, req, session, sent>>

Takes == Handlers[req.route][req.told]

\* Mutant: a handler that needs a session takes any token it finds.
Credential_Forward ==
    IF Takes.cred \in {"session", "bearer", "forward", "optional"} THEN forward_token ELSE Nothing

\* The credential the handler passes on, by what it takes.
Credential ==
    CASE Takes.cred \in {"session", "optional"} -> IF session = Nothing THEN Nothing ELSE session.token
      [] Takes.cred \in {"bearer", "forward"} -> forward_token
      [] Takes.cred = "header" -> IF req.bearer = "none" THEN Nothing ELSE [kind |-> req.bearer]
      [] Takes.cred = "none" -> Nothing

\* A handler without the credential it takes: a signed-in user was meant, or the
\* route is declared wrong.
HandlerRefuses ==
    /\ pc = "handler"
    /\ Credential = Nothing
    /\ \/ Takes.cred = "session" /\ Reject("unauthorized", 401)
       \/ Takes.cred = "bearer" /\ Reject("internal", 500)
    /\ UNCHANGED <<row, kept, req, session, sent>>

\* parse_body or parse_query, a limiter, or the size of an upload.
HandlerRejects ==
    /\ pc = "handler"
    /\ \/ Parses(req.route, req.told) /\ Reject("invalid_params", 422)
       \/ req.route \in Uploads /\ Reject("payload_too_large", 413)
       \/ Limited(req.route, req.told) /\ Reject("rate_limited", 429)
    /\ UNCHANGED <<row, kept, req, session, sent>>

\* Of the calls the handler makes, one whose failure ends the request.
HandlerAsks ==
    /\ pc = "handler"
    /\ Takes.via # "nothing"
    /\ Credential = Nothing =>
           Takes.cred \notin {"session", "bearer"} /\ req.route # "session/delete"
    /\ sent' = Credential
    /\ pc' = "core"
    /\ UNCHANGED <<row, kept, req, session, answer>>

\* health answers by itself, and so does a sign-out without a session.
HandlerAnswers ==
    /\ pc = "handler"
    /\ Takes.via = "nothing" \/ (req.route = "session/delete" /\ session = Nothing)
    /\ pc' = "answered"
    /\ answer' = Answer("bff", Nothing, Success(200))
    /\ UNCHANGED <<row, kept, req, session, sent>>

CoreAnswers(reply) ==
    /\ pc = "core"
    /\ pc' = "answered"
    /\ answer' = Answer("core", reply, Told(Takes.via, reply))
    /\ UNCHANGED <<row, kept, req, session, sent>>

Next ==
    \/ RowGoes \/ csrf_guard \/ Find \/ FindFails \/ Hydrate \/ route_auth
    \/ HandlerRefuses \/ HandlerRejects \/ HandlerAsks \/ HandlerAnswers
    \/ \E reply \in Replies : CoreAnswers(reply)

Spec == Init /\ [][Next]_vars

(***************************************************************************)
(* Properties                                                              *)
(***************************************************************************)

\* The state is well typed: at each stage a request has the session, the
\* credential and the answer that stage gives it.
TypeOK ==
    /\ row \in BOOLEAN
    /\ kept \in BOOLEAN
    /\ req \in Request
    /\ pc \in {"csrf_guard", "find", "hydrate", "route_auth", "handler", "core", "answered"}
    /\ session \in Session \cup {Nothing}
    /\ sent \in Token \cup {Nothing}
    /\ answer = NoAnswer <=> pc # "answered"
    /\ answer # NoAnswer => answer.told.status \in 200 .. 599

\* The bodies whose line in the table leaves the sign-in check to the controller:
\* those that tell the field the BFF itself works on.
ControllerChecks(r) == r.told = "told" /\ ROUTE_AUTH[r.route][r.told] = "token"

\* A request the route table lets through has the credential its controller
\* takes: no controller finds the table wrong (checked_token's 500), and the only
\* ones that still answer 401 are the two whose lines in routes/route_auth.ts say
\* that the controller checks.
AdmittedHasCredential ==
    answer.by = "bff" =>
        /\ answer.told.code # "internal"
        /\ answer.told.code = "unauthorized" /\ req.route \in DOMAIN ROUTE_AUTH =>
               \/ ~Admits
               \/ ControllerChecks(req)

\* The site-admin check and the call it guards are about one user: on a route
\* where the table judged a session, what Core gets is that session's token,
\* unless the request carries a bearer beside its cookie (enforce_route_auth.ts
\* tests session_data, checked_token prefers the bearer).
JudgedIsSent ==
    sent # Nothing /\ Rule \in {"session", "site_admin"} =>
        /\ session # Nothing
        /\ Rule = "site_admin" => session.role = "admin"
        /\ sent # session.token =>
               Rule = "site_admin" /\ req.bearer # "none" /\ session.token.kind = "session"

\* A browser whose session is in the table from the moment a request comes until
\* it is answered is never told by the BFF itself that it is signed out, not even
\* when the table cannot be read (middleware/session_auth.ts).
SignedInNeverTold401 == kept /\ answer.by = "bff" => answer.told.status # 401

\* What a client is told of its call: success only if Core said so, "signed out"
\* and "no such record" only if Core said that; a Core too old for the BFF is a
\* 502 (errors/upstream_error.ts, version skew).
CoreFailuresAreTold ==
    answer.by = "core" /\ answer.reply # Unreachable /\ Takes.via \in {"post", "post_body"} =>
        LET reply == answer.reply  told == answer.told
        IN  /\ told.ok => reply.json /\ reply.http < 400 /\ reply.ok # "false"
            /\ told.status = 404 => reply.json /\ reply.says # "unknown api route" /\ reply.code # "route_not_found"
            /\ told.status = 401 => reply.http = 401 \/ reply.code = "unauthorized"
=============================================================================
