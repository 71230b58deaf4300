----------------------------- MODULE MCSessions -----------------------------
(***************************************************************************)
(* Instances of Sessions for TLC: an admin and one or two users, two       *)
(* sessions, and as many requests as an interleaving of interest takes.    *)
(***************************************************************************)
EXTENDS Sessions, TLC

CONSTANTS admin, bob, carol, s1, s2, r1, r2, r3, r4, r5

Two == {admin, bob}
Three == {admin, bob, carol}

\* One way to sign in, and everything a session cookie is good for.
CookieOps == {"password"} \cup SessionOps

\* The same, and a password changed in one of the sessions.
RaceOps == CookieOps \cup {"change_password"}

\* Four requests, if they are password sign-ins and what a session cookie is good
\* for; three, if anything else is asked for.
Begun == {r \in Requests : req[r].pc # "new"}
OnlyRaces == \A r \in Begun : req[r].op \in RaceOps
Bounded == Cardinality(Begun) <= 3 \/ OnlyRaces

\* Requests differ in their names only, so it is one that arrives next, whichever.
FirstOf(waiting) == IF waiting = {} THEN {} ELSE {CHOOSE r \in waiting : TRUE}

\* Sessions, with no request begun beyond these.
RacesNext ==
    \/ /\ Cardinality(Begun) < 3 \/ OnlyRaces
       /\ \E r \in FirstOf(Requests \ Begun) : Arrival(r) /\ Bounded'
    \/ \E r \in Requests : Continue(r)
    \/ \E s \in Sids : Lapse(s)

RacesSpec == Init /\ [][RacesNext]_vars

\* Session ids are interchangeable, and so are requests.
Symmetric == Permutations(Sids) \cup Permutations(Requests)
=============================================================================
