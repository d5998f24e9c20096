\* A restart after one request whose tokens were estimated.
SPECIFICATION Spec
CONSTANTS
    Deployment = {d1}
    Model = {m1}
    m1 = m1
    ModelOf <- MCModelOf
    Caller = {c1}
    Agent = {}
    NoAgent = NoAgent
    Null = Null
    LimitType = {"rpd"}
    LimitValue = {}
    CatalogueRpd = 2
    LastDay = 1
    MaxTokens = 1
    MaxRequests = 1
    MaxFaults = 1
PROPERTIES
    EstimatesAreNotReported
CHECK_DEADLOCK FALSE
