CONSTANTS
    MaxCall = 2
    MaxBlock = 2
    MaxSnapshot = 2
    MaxRestart = 2
    MaxFault = 1
SPECIFICATION Spec
INVARIANTS
    TypeOK
    NoLoss
    NoDouble
CHECK_DEADLOCK FALSE
