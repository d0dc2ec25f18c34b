CONSTANTS
    Policies = {"EveryWrite", "Interval", "None"}
    MaxSegmentSize = 2
    MaxEntry = 4
    MaxSegment = 4
    MaxRestart = 2
    MaxFault = 1
    MaxAhead = 1
SPECIFICATION Spec
INVARIANTS
    TypeOK
    ReplayInAppendOrder
    FsyncedSurvives
    LossIsSuffix
    AckedIsFsynced
