\* One session: its sign-in and three more requests or switches, over four seconds.
SPECIFICATION FairSpec
CONSTANTS
    None = None
    Sids = {s1}
    Requests = {1, 2, 3, 4}
    Ttl = 2
    Idle = 1
    MaxTime = 3
    MaxPrunes = 1
\* The clock is bounded, so the requests run out.
CHECK_DEADLOCK FALSE
INVARIANTS TypeOK AbsoluteLifetime IdleReapExplained
PROPERTIES IdleTimeoutEnforced ExpiredRowsGo
