SPECIFICATION FairSpec
CONSTANTS
    s1 = s1
    s2 = s2
    Sessions <- OneSession
    Forks = {1}
    MaxRuns = 0
    RunOn <- OneIdle
    Throttle <- Unthrottled
    After <- NoAfter
    Tags <- Untagged
    TagThrottle <- NoTagThrottle
    Project <- OneProject
    Polls = {1, 2}
    DefaultIdle = 1
    Debounce = 1
    WakeGrace = 1
    LossGrace = 1
    SessionTimeout = 4
    Window = 2
    Window1M = 4
    Model1M <- None
    EnableTags <- NoFilter
    DisableTags <- NoFilter
    TokenValues = {}
    PromptKinds = {"user"}
    MaxPrompts = 2
    MaxTime = 8
    MaxCrashes = 1
    LastInput = 1
    HookDeaths = TRUE
    LateHooks = TRUE
    SessionsEnd = TRUE
    Pruning = TRUE
    Urgent = TRUE
INVARIANTS
    OneLiveWait
PROPERTIES
    BaselineStable
    DeadSessionsClosed
