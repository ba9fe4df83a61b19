SPECIFICATION Spec
CONSTANTS
    s1 = s1
    s2 = s2
    Sessions <- OneSession
    Forks = {1}
    MaxRuns = 0
    RunOn <- OneIdle
    Throttle <- Unthrottled
    After <- NoAfter
    Tags <- Untagged
    TagThrottle <- NoTagThrottle
    Project <- OneProject
    Polls = {1, 2}
    DefaultIdle = 1
    Debounce = 1
    WakeGrace = 1
    LossGrace = 1
    SessionTimeout = 0
    Window = 2
    Window1M = 4
    Model1M <- None
    EnableTags <- NoFilter
    DisableTags <- NoFilter
    TokenValues = {}
    PromptKinds = {"user", "bare"}
    MaxPrompts = 2
    MaxTime = 3
    MaxCrashes = 0
    LastInput = 3
    HookDeaths = FALSE
    LateHooks = TRUE
    SessionsEnd = FALSE
    Pruning = FALSE
    Urgent = FALSE
PROPERTIES
    NoRefire
