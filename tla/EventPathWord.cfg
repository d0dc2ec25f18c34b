CONSTANTS
    Together <- Stores
    u1 = u1
    Users = {u1}
    Positions = {p1}
    Orders = {}
    Owner <- MCOwner
    MaxSize = 2
    MaxEvent = 2
    MaxRestart = 0
    Timeframes <- OneTimeframe
    Prices = {1}
    MaxTime = 2
    MaxTick = 3
    MaxShutdown = 1
    MaxExit = 0
    MaxFault = 0
    Market = {"m1"}
    Trader = {"a"}
    Mixes <- TwoDays
    None = None
    MaxEntries = 1
    HistoryLimit = 1
    MaxLogged = 2
    MaxRebuild = 0
    MaxSnapshot = 1
    MaxReopen = 1
SPECIFICATION MCSpec
INVARIANT EventPathKeepsWord
CHECK_DEADLOCK FALSE
