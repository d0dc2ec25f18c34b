CONSTANTS
    Together <- OneByOne
    u1 = u1
    Users = {u1}
    Positions = {p1, p2}
    Orders = {o1}
    Owner <- MCOwner
    MaxSize = 2
    MaxEvent = 4
    MaxRestart = 2
    Timeframes <- MCTimeframes
    Prices = {1, 2}
    MaxTime = 4
    MaxTick = 3
    MaxShutdown = 1
    MaxExit = 1
    MaxFault = 1
    Market = {"m1", "m2"}
    Trader = {"a", "b", "c"}
    Mixes <- MCMixes
    None = None
    MaxEntries = 2
    HistoryLimit = 1
    MaxLogged = 3
    MaxRebuild = 2
    MaxSnapshot = 2
    MaxReopen = 2
SPECIFICATION MCSpec
INVARIANTS
    TypeOK
    OpenCountMatches
    ReplayAgrees
    OpenInterestMatches
    MatchesTicks
    StoreSorted
    LaterRecordCovers
    PartitionsAgree
    BoardFresh
    DailyMatches
SYMMETRY Symmetric
CHECK_DEADLOCK FALSE
