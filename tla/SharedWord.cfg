CONSTANTS
    Together <- Both
    Capacity = 1
    NoValue = NoValue
    Deployments = {{"indexer", "snapshot"}}
    MaxTick = 0
    MaxBlock = 1
    MaxEvent = 0
    MaxSetting = 0
    MaxSnapshot = 1
    MaxRestart = 0
    MaxFault = 0
    Thread = {t1, t2}
    User = {"u1"}
    Code = {"c1", "c2"}
    MaxId = 1
    Stores = {"UserStore"}
    Tiers <- MCTiers
    None = None
    MaxCall <- MCMaxCall
    MaxScan = 0
SPECIFICATION MCSpec
INVARIANT SharedKeepsWord
CHECK_DEADLOCK FALSE
