CONSTANTS
    Together = {{"Relational"}}
    Capacity = 1
    NoValue = NoValue
    Deployments = {{"feed", "receiver"}}
    MaxTick = 0
    MaxBlock = 0
    MaxEvent = 0
    MaxSetting = 0
    MaxSnapshot = 0
    MaxRestart = 0
    MaxFault = 0
    Thread = {t1, t2}
    User = {"u1", "u2"}
    Code = {"c1", "c2"}
    MaxId = 2
    Stores = {"UserStore", "Referrals", "AlertStore", "ApiKeyStore", "CompetitionStore"}
    Tiers <- MCTiers
    None = None
    MaxCall <- MCMaxCall
    MaxScan = 1
SPECIFICATION MCSpec
INVARIANTS
    CodesExact
    ListsExact
    OwnerOnly
    TierBetween
PROPERTIES
    CallsReturn
CHECK_DEADLOCK FALSE
