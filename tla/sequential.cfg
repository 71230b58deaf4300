\* One request at a time and nothing fails: the token accounting.
SPECIFICATION Spec
CONSTANTS
    None = None
    admin = admin
    bob = bob
    carol = carol
    s1 = s1
    s2 = s2
    r1 = r1
    r2 = r2
    r3 = r3
    r4 = r4
    r5 = r5
    Users <- Three
    Admins = {admin}
    Tokens = {1, 2, 3, 4, 5}
    Sids = {s1, s2}
    Requests = {r1, r2, r3, r4, r5}
    Ops <- CookieOps
    Faults = {}
    MaxConcurrent = 1
SYMMETRY Symmetric
\* The requests are bounded: when the last one has answered, nothing is left to do.
CHECK_DEADLOCK FALSE
INVARIANTS NoOrphanToken OwnProfileAfterStop
