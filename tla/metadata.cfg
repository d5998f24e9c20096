\* One model with one deployment, two requests at a time, a named agent, a catalogue, and up
\* to two faults.
SPECIFICATION Spec
CONSTANTS
    Deployment = {d1}
    Model = {m1}
    m1 = m1
    ModelOf <- MCModelOf
    Caller = {c1, c2}
    Agent = {a1}
    NoAgent = NoAgent
    Null = Null
    LimitType = {"rpd"}
    LimitValue = {1, 3}
    CatalogueRpd = 2
    LastDay = 2
    MaxTokens = 1
    MaxRequests = 2
    MaxFaults = 2
CONSTRAINT CatalogueOrTraffic
SYMMETRY Symmetry
INVARIANTS
    TypeOK
    TotalsNest
    TokensSplit
    ErrorsFollowUsage
    DeploymentMatchesAttempts
PROPERTIES
    LimitsOnlyTighten
CHECK_DEADLOCK FALSE
