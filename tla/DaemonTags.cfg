SPECIFICATION Spec
CONSTANTS
    s1 = s1
    s2 = s2
    Sessions <- TwoSessions
    Forks = {1, 2}
    MaxRuns = 0
    RunOn <- TwoDeadlines
    Throttle <- Unthrottled
    After <- NoAfter
    Tags <- FirstTagged
    TagThrottle <- CiBudget
    Project <- OneProject
    Polls = {1}
    DefaultIdle = 1
    Debounce = 0
    WakeGrace = 1
    LossGrace = 1
    SessionTimeout = 0
    Window = 2
    Window1M = 4
    Model1M <- None
    EnableTags <- NoFilter
    DisableTags <- NoFilter
    TokenValues = {}
    PromptKinds = {"user"}
    MaxPrompts = 2
    MaxTime = 4
    MaxCrashes = 0
    LastInput = 4
    HookDeaths = FALSE
    LateHooks = FALSE
    SessionsEnd = FALSE
    Pruning = FALSE
    Urgent = FALSE
PROPERTIES
    TagBudgetShared
    ParkMeansServed
