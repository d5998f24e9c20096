\* One key with a minute and a day limit, two concurrent callers.
SPECIFICATION Spec
CONSTANTS
    Key = {k1}
    Caller = {c1, c2}
    NoKey = NoKey
    Model = {m1}
    Axis = {"rpm", "rpd"}
    RpmLimit = 2
    RpdLimit = 3
    RetryAfter <- NoneOrOne
    HeaderLimit <- NoneOrOne
    HeaderRemaining <- NoneOrZero
    OfficialLimit = {4}
    CountCap = 4
    ShortRetry = 1
    LowRemaining = 0
    ManySent = 1
    CooldownSeconds = 2
    FailThreshold = 2
    MaxTier = 2
    Escalation <- MCEscalation
    RealModelCooldown = 3
    FailCap = 2
    ConfiguredLimit <- MCConfiguredLimit
    WindowTicks <- MCWindowTicks
SYMMETRY Symmetry
INVARIANTS
    IInv
    ConfiguredLimitRespected
    ConfiguredRpmRespected
PROPERTIES
    HalfOpenExclusive
    ImplementsAdmission
    ObservedLimitOnlyTightens
