\* Stopping while Core cannot be asked.
SPECIFICATION Spec
CONSTANTS
    None = None
    admin = admin
    bob = bob
    carol = carol
    s1 = s1
    s2 = s2
    r1 = r1
    r2 = r2
    r3 = r3
    r4 = r4
    r5 = r5
    Users <- Three
    Admins = {admin}
    Tokens = {1, 2, 3}
    Sids = {s1}
    Requests = {r1, r2, r3}
    Ops <- CookieOps
    Faults = {"core"}
    MaxConcurrent = 1
SYMMETRY Symmetric
\* The requests are bounded: when the last one has answered, nothing is left to do.
CHECK_DEADLOCK FALSE
INVARIANTS OwnProfileAfterStop
