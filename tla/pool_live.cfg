\* One key, its traffic, model discovery and a restart.
SPECIFICATION DiscoverySpec
CONSTANTS
    Key = {k1}
    Caller = {c1}
    NoKey = NoKey
    Model = {m1}
    Axis = {"rpm"}
    RetryAfter <- NoneOnly
    HeaderLimit <- NoneOnly
    HeaderRemaining <- NoneOnly
    OfficialLimit = {}
    CountCap = 0
    ShortRetry = 1
    LowRemaining = 0
    ManySent = 1
    CooldownSeconds = 1
    FailThreshold = 1
    MaxTier = 0
    Escalation <- MCEscalation
    RealModelCooldown = 1
    FailCap = 1
    ConfiguredLimit <- MCConfiguredLimit
    WindowTicks <- MCWindowTicks
    Requester = {r1, r2}
    Alone = {r2}
    Free = {k1}
    DiscoveryBackoff <- MCBackoff
    WatcherEnabled = {TRUE, FALSE}
    Watcher = {"watch"}
    SavedDeadline <- MCSaved
    SavedBudget <- MCSavedBudget
    RunLimit = 1
    MaxOutages = 1
INVARIANTS
    SelectableHasNoDeadline
PROPERTIES
    DeadlineRunsOut
    DisabledKeyReturns
    ModelsAreFoundAgain
