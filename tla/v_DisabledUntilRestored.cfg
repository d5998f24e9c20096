\* The pool without the operator, against a statement of the repository.
SPECIFICATION TrafficSpec
CONSTANTS
    Key = {k1}
    Caller = {c1, c2}
    NoKey = NoKey
    Model = {}
    Axis = {"rpm"}
    RpmLimit <- NoLimit
    RpdLimit <- NoLimit
    RetryAfter <- NoneOrOne
    HeaderLimit <- NoneOnly
    HeaderRemaining <- NoneOnly
    OfficialLimit = {}
    CountCap = 0
    ShortRetry = 1
    LowRemaining = 0
    ManySent = 1
    CooldownSeconds = 2
    FailThreshold = 2
    MaxTier = 2
    Escalation <- MCEscalation
    RealModelCooldown = 3
    FailCap = 2
    ConfiguredLimit <- MCConfiguredLimit
    WindowTicks <- MCWindowTicks
PROPERTIES
    DisabledUntilRestored
