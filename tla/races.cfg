\* Sign-in, act-as, stop, sign-out and a changed password racing, and among three
\* requests every way to sign in and to be ended from elsewhere; with every fault.
SPECIFICATION RacesSpec
CONSTANTS
    None = None
    admin = admin
    bob = bob
    carol = carol
    s1 = s1
    s2 = s2
    r1 = r1
    r2 = r2
    r3 = r3
    r4 = r4
    r5 = r5
    Users <- Three
    Admins = {admin}
    Tokens = {1, 2, 3, 4}
    Sids = {s1, s2}
    Requests = {r1, r2, r3, r4}
    Ops <- AllOps
    Faults <- AllFaults
    MaxConcurrent = 3
SYMMETRY Symmetric
\* The requests are bounded: when the last one has answered, nothing is left to do.
CHECK_DEADLOCK FALSE
INVARIANTS TypeOK BearerIsActingUser OneSessionPerToken DeadBearerExplained RoleFollowsIdentity SignedInUntilSignedOut
PROPERTIES ImplementsPromise SessionsEndForAReason
