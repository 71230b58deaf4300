\* Two realms of one org; the limiters stand still.
SPECIFICATION InstallSpec
CONSTANTS
    Keys = {"a", "b"}
    Limit = 2
    Window = 3
    Start = 3
    MaxTime = 9
    Second = 2
    MaxCount = 4
    LimitOf <- Limits
    Replies <- CoreReplies
    CookieUser = "ann"
    BearerUser = "bob"
    Browsers = {"c1", "c2"}
    Destination <- Destinations
    Workers = {"w1", "w2"}
    Rules = {"r1", "r2"}
    ToRemove <- UpToTwo
    Writes <- UpToThree
    Realms <- TwoRealms
    Askers = {"page", "health"}
    Ttl = 2
    Timeout = 2
    End = 9
\* A request ends.
CHECK_DEADLOCK FALSE
INVARIANTS UnreadNeverBlocks
