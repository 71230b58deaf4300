--------------------------- MODULE SessionIdentity ---------------------------
(***************************************************************************)
(* What a BFF session promises, seen from Core.  A session has an actor,   *)
(* the person who signed in, and speaks to Core as one user: the actor, or *)
(* the user a site admin acts as.  Only these steps exist: a session       *)
(* starts speaking as its actor, an admin's session switches to another    *)
(* user and back, and sessions end for good.  Sessions.tla implements it   *)
(* (session_service.ts, header lines 1-13).                                *)
(***************************************************************************)
CONSTANTS
    Sids,    \* session ids
    Users,
    Admins,  \* the site admins among Users
    None

VARIABLES
    session, \* [actor, as] of each live session, None for the others
    ids      \* the session ids ever handed out

promise == <<session, ids>>

PromiseInit ==
    /\ session = [s \in Sids |-> None]
    /\ ids = {}

Start(s, u) ==
    /\ s \notin ids
    /\ ids' = ids \cup {s}
    /\ session' = [session EXCEPT ![s] = [actor |-> u, as |-> u]]

ActAs(s, v) ==
    /\ session[s] # None
    /\ session[s].actor \in Admins
    /\ v # session[s].actor
    /\ session' = [session EXCEPT ![s].as = v]
    /\ UNCHANGED ids

Stop(s) ==
    /\ session[s] # None
    /\ session' = [session EXCEPT ![s].as = session[s].actor]
    /\ UNCHANGED ids

End(S) ==
    /\ session' = [s \in Sids |-> IF s \in S THEN None ELSE session[s]]
    /\ UNCHANGED ids

PromiseNext ==
    \/ \E s \in Sids, u \in Users : Start(s, u) \/ ActAs(s, u)
    \/ \E s \in Sids : Stop(s)
    \/ \E S \in SUBSET Sids : End(S)

Promise == PromiseInit /\ [][PromiseNext]_promise
==============================================================================
