SPECIFICATION CheckSpec
CONSTANTS
    Catalog <- RunEvents
    Selectors <- NamedSelectors
    Channels = {mail}
    RuleIds = {1, 2}
    Items <- SixRows
    Step = 2
    ListCap = 4
    Changes = 2
    Orgs = {"org1", "org2"}
    Notes <- FourNotes
    Stamps <- CloseStamps
    Sizes = {1, 2}
    PageCap = 2
    Window = 2
    MaxAttempts = 3
    MaxAsks = 2
    MaxTime = 4
    Runs <- FourRuns
    MAX_SUB_DEPTH = 2
    MaxUnread = 2
    Begun <- Starts
    Ended <- Completions
    Spans <- TwoBars
    Now = 5
    NotKnown <- Unfinished
    Depths <- FiveDepths
    MAX_DEPTH = 3
    Facts <- BrokenRuns
    Refs <- Callees
    Named <- SubTeamNames
    SUB_TEAM_CAP = 3
    Root = "root"
    Workflows <- Callers
    Agents = {"p", "q", "s"}
    AgentUses <- Uses
INVARIANTS
    EveryAgentIsChecked
CHECK_DEADLOCK FALSE
