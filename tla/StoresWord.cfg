CONSTANTS
    Together <- Both
    Thread = {t1, t2}
    Id = {"r1", "r2"}
    Owner <- MCOwner
    Level <- MCLevel
    Kinds = {"PositionTable"}
    MaxCall = 3
    MaxRead = 0
    InitialFileSize = 2
    Timestamps = {1, 4}
    BucketWidth = 2
    MaxWrite = 1
    MaxRestart = 0
    MaxFault = 0
SPECIFICATION MCSpec
INVARIANT StoresKeepWord
CHECK_DEADLOCK FALSE
