SPECIFICATION Spec
CONSTANTS
    s1 = s1
    s2 = s2
    Sessions <- OneSession
    Forks = {1, 2}
    MaxRuns = 1
    RunOn <- IdleAndContext
    Throttle <- ThrottleFirst
    After <- FirstAfterSecond
    Tags <- Untagged
    TagThrottle <- NoTagThrottle
    Project <- OneProject
    Polls = {1}
    DefaultIdle = 1
    Debounce = 1
    WakeGrace = 1
    LossGrace = 1
    SessionTimeout = 0
    Window = 2
    Window1M = 4
    Model1M <- None
    EnableTags <- NoFilter
    DisableTags <- NoFilter
    TokenValues = {2}
    PromptKinds = {"user", "bare", "foreign"}
    MaxPrompts = 2
    MaxTime = 3
    MaxCrashes = 1
    LastInput = 3
    HookDeaths = FALSE
    LateHooks = FALSE
    SessionsEnd = FALSE
    Pruning = FALSE
    Urgent = FALSE
INVARIANTS
    TypeOK
    RegistryTruthful
PROPERTIES
    NoRefire
    OwnForksKeepPause
    ThrottleRespected
    DependentsFollow
