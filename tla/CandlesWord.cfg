CONSTANTS
    Together = {{"Candles"}}
    u1 = u1
    Users = {u1}
    Positions = {p1}
    Orders = {}
    Owner <- MCOwner
    MaxSize = 2
    MaxEvent = 2
    MaxRestart = 0
    Timeframes <- OneTimeframe
    Prices = {1, 2}
    MaxTime = 3
    MaxTick = 5
    MaxShutdown = 1
    MaxExit = 1
    MaxFault = 1
    Market = {"m1"}
    Trader = {"a"}
    Mixes <- TwoDays
    None = None
    MaxEntries = 1
    HistoryLimit = 1
    MaxLogged = 0
    MaxRebuild = 0
    MaxSnapshot = 1
    MaxReopen = 1
SPECIFICATION MCSpec
INVARIANT CandlesKeepWord
CHECK_DEADLOCK FALSE
