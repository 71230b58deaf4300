\* Windows of three ticks, over three windows; every route, every credential;
\* two changes of a channel, two realms, two workers, two askers.
SPECIFICATION PartsSpec
CONSTANTS
    Keys = {"a", "b"}
    Limit = 2
    Window = 3
    Start = 3
    MaxTime = 9
    Second = 2
    MaxCount = 4
    LimitOf <- Limits
    Replies <- CoreReplies
    CookieUser = "ann"
    BearerUser = "bob"
    Browsers = {"c1", "c2"}
    Destination <- Destinations
    Workers = {"w1", "w2"}
    Rules = {"r1", "r2"}
    ToRemove <- UpToTwo
    Writes <- UpToThree
    Realms <- TwoRealms
    Askers = {"page", "health"}
    Ttl = 2
    Timeout = 2
    End = 9
\* The clock is bounded, the limiters answer at once, and a request ends.
CHECK_DEADLOCK FALSE
INVARIANTS PartsTypeOK AtMostLimitPerWindow RetryAfterExact HeldKeysAreRecent AtMostTwiceTheLimit CredentialFits SignedInNeverTold401 CoreFailuresAreTold AnswerSaysWhatCoreHas ReportIsCore
PROPERTIES RetryAfterIsEnough LostOnlyToOverlap VerdictIsRenewed
