SPECIFICATION Spec
CONSTANTS
    o1 = o1
    g1 = g1
    g2 = g2
    g3 = g3
    c1 = c1
    hermes = hermes
    reader = reader
    nobody = nobody
    Provider <- MCProvider
    NameOrder <- MCNameOrder
    Fallback <- MCFallback
    Name <- MCName
    Alias <- MCAlias
    AgentDefault <- MCAgents
    ModelFallbacks <- MCFallbacks
    Words <- MCWords
    Key <- MCKey
    Pool <- MCPool
    KeyTier <- MCTier
    Offers <- MCOffers
    NameRank <- MCNameRank
    AgentHash <- MCHash
    Nobody = nobody
    AllowPaid = FALSE
    AutoModel <- MCAutoModel
    AgentProfile <- MCProfiles
    Group <- MCGroup
    Priority <- MCPriority
    Meta <- MCMeta
    AgentSignals <- MCSignals
    Asked <- MCAsked
    Strategy = {"least_rate", "least_failed", "priority", "round_robin", "random"}
    FailThreshold = 1
    Forwarded <- MCForwarded
    MaxLoad = 2
    MaxMeanwhile = 1
    MaxTurns = 3
CHECK_DEADLOCK FALSE
INVARIANTS
    DegradedStayBehind
    NoDeploymentTwice
    ListedIsServed
    ForwardAsksOnce
    AnsweredAsShown
    ScopedListIsServed
    FailuresNeverHelp
PROPERTIES
    TurnsMoveOn
