CONSTANTS
    Together <- OneByOne
    Thread = {t1, t2}
    Id = {"r1", "r2", "r3"}
    Owner <- MCOwner
    Level <- MCLevel
    Kinds = {"PositionTable", "OrderTable", "BalanceCache"}
    MaxCall = 3
    MaxRead = 1
    InitialFileSize = 1
    Timestamps = {1, 3}
    BucketWidth = 2
    MaxWrite = 3
    MaxRestart = 2
    MaxFault = 1
SPECIFICATION MCSpec
INVARIANTS
    TypeOK
    IndexExact
    BookExact
    BalanceExact
    ReadComplete
    CrashKeepsRecords
    FlushedSurvives
    UpsertsSorted
    MappingCovers
    RangeMatches
PROPERTIES
    CallsReturn
    ImplementsJournal
CHECK_DEADLOCK FALSE
