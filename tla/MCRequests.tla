----------------------------- MODULE MCRequests -----------------------------
(***************************************************************************)
(* An instance of Requests for TLC: two of everything that may meet.       *)
(***************************************************************************)
EXTENDS Requests

\* A signed-in user and an anonymous caller, with half the limit.
Limits == [user |-> 2, anon |-> 1]

\* Core answers, refuses, lacks the route or the record, is another version or
\* another program.
CoreReplies ==
    LET Json(http, ok, code, says) == [http |-> http, json |-> TRUE, ok |-> ok, code |-> code, says |-> says]
        Html(http) == [http |-> http, json |-> FALSE, ok |-> "absent", code |-> "none", says |-> "other"]
    IN  {[http |-> 0]} \cup {Html(http) : http \in {200, 401, 404, 500}} \cup
        {Json(200, "true", "none", "other"), Json(200, "absent", "none", "other"),
         Json(200, "false", "none", "other"), Json(401, "false", "none", "other"),
         Json(404, "false", "not_found", "other"), Json(404, "false", "none", "unknown api route"),
         Json(404, "false", "route_not_found", "other"), Json(400, "false", "none", "unrecognized key"),
         Json(500, "false", "unauthorized", "other"), Json(404, "true", "none", "other")}

\* A channel of two addresses and a channel of the org.
Destinations == [mail |-> "email", phone |-> "email", ops |-> "channel_ref"]

\* Up to two removals and three writes.
Lists(n) == UNION {[1..k -> Rules] : k \in 0..n}
UpToTwo == Lists(2)
UpToThree == Lists(3)

TwoRealms == <<"realm1", "realm2">>
=============================================================================
