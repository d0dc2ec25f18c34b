CONSTANTS
    Together = {{"Ingest"}}
    Capacity = 1
    NoValue = NoValue
    Deployments <- MCDeployments
    MaxTick = 3
    MaxBlock = 2
    MaxEvent = 1
    MaxSetting = 2
    MaxSnapshot = 2
    MaxRestart = 2
    MaxFault = 1
    Thread = {t1}
    User = {"u1"}
    Code = {"c1"}
    MaxId = 1
    Stores = {"UserStore"}
    Tiers <- MCTiers
    None = None
    MaxCall <- MCMaxCall
    MaxScan = 0
SPECIFICATION MCSpec
INVARIANTS
    PairLag
    HashNotAhead
    NoStepBack
PROPERTIES
    RestoreExact
    Delivered
CHECK_DEADLOCK FALSE
