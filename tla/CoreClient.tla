------------------------------ MODULE CoreClient ------------------------------
(***************************************************************************)
(* What becomes of a reply of Core: repositories/core_client.ts reads it,  *)
(* errors/upstream_error.ts turns a failure into an ApiError, and          *)
(* middleware/error_handler.ts tells the client.  A reply has an HTTP      *)
(* status, is JSON or not, and when it is, may be marked ok, carry a code  *)
(* and a message; of the message only the two wordings the code looks for  *)
(* matter.                                                                 *)
(***************************************************************************)
EXTENDS Naturals

Wordings == {"unknown api route", "unrecognized key", "other"}

Reply == [http : {200, 400, 401, 404, 500}, json : BOOLEAN, ok : {"true", "false", "absent"},
          code : {"none", "unauthorized", "not_found", "route_not_found", "other"}, says : Wordings]

\* No answer at all: the connection is refused or times out.
Unreachable == [http |-> 0]

ApiError(code, status) == [ok |-> FALSE, code |-> code, status |-> status]

Success(status) == [ok |-> TRUE, code |-> "none", status |-> status]

network_error == ApiError("network_error", 502)

CODE_FOR_STATUS == [s \in {400, 401, 403, 404, 409, 422, 429} |->
    CASE s \in {400, 422} -> "invalid_params"
      [] s = 401 -> "unauthorized"
      [] s = 403 -> "forbidden"
      [] s = 404 -> "not_found"
      [] s = 409 -> "conflict"
      [] s = 429 -> "rate_limited"]

STATUS_MAP == [unauthorized |-> 401, forbidden |-> 403, not_found |-> 404,
               conflict |-> 409, invalid_params |-> 422, rate_limited |-> 429]

CodeOf(reply) ==
    CASE reply.code # "none" -> reply.code
      [] reply.code = "none" /\ reply.http \in DOMAIN CODE_FOR_STATUS -> CODE_FOR_STATUS[reply.http]
      [] OTHER -> IF reply.http >= 500 THEN "upstream_error" ELSE "unknown"

\* The status of an error: its code's, else Core's own, else 502.
StatusOf(code, http) ==
    IF code \in DOMAIN STATUS_MAP THEN STATUS_MAP[code] ELSE IF http >= 400 THEN http ELSE 502

\* Core lacks the route: it is older than the BFF.
RouteMissing(reply) ==
    \/ ~reply.json /\ reply.http = 404
    \/ reply.json /\ CodeOf(reply) = "route_not_found"
    \/ reply.json /\ CodeOf(reply) = "not_found" /\ reply.says = "unknown api route"

\* Mutant: a missing route is not told from a missing record.
UpstreamErrorAsIs(reply) == ApiError(CodeOf(reply), StatusOf(CodeOf(reply), reply.http))

upstream_error(reply) ==
    CASE RouteMissing(reply) -> ApiError("upstream_route_missing", 502)
      [] ~RouteMissing(reply) /\ ~reply.json -> ApiError("parse_error", IF reply.http >= 400 THEN reply.http ELSE 502)
      [] ~RouteMissing(reply) /\ reply.json /\ reply.says = "unrecognized key" -> ApiError("upstream_version_mismatch", 502)
      [] OTHER -> ApiError(CodeOf(reply), StatusOf(CodeOf(reply), reply.http))

\* CoreClient.post: the reads and writes of every repository.
post(reply) ==
    IF reply.json /\ reply.ok = "true" /\ reply.http < 400 THEN Success(200) ELSE upstream_error(reply)

\* CoreClient.post_body: the routes forwarded unchanged, answered with 200.
post_body(reply) ==
    IF reply.json /\ reply.ok # "false" /\ reply.http < 400 THEN Success(200) ELSE upstream_error(reply)

\* ProxyService._open_stream: a stream, or an error with Core's status.
open_stream(reply) ==
    IF reply.http < 400 THEN Success(200) ELSE ApiError("upstream_error", reply.http)

\* CoreClient.raw, raw_stream: the client gets Core's status and bytes.
relay(reply) ==
    IF reply.http < 400 THEN Success(reply.http) ELSE ApiError("relayed", reply.http)

\* CoreClient.get_json: the same, of a JSON body.
get_json(reply) == IF reply.json THEN relay(reply) ELSE ApiError("parse_error", 502)

\* What the client is told, by the way the handler asks.
Told(via, reply) ==
    CASE reply = Unreachable -> network_error
      [] reply # Unreachable /\ via = "post" -> post(reply)
      [] reply # Unreachable /\ via = "post_body" -> post_body(reply)
      [] reply # Unreachable /\ via = "stream" -> open_stream(reply)
      [] reply # Unreachable /\ via = "relay" -> relay(reply)
      [] reply # Unreachable /\ via = "get_json" -> get_json(reply)
=============================================================================
