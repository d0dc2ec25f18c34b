CONSTANTS
    MaxCall = 3
    MaxBlock = 2
    MaxSnapshot = 2
    MaxRestart = 1
    MaxFault = 0
SPECIFICATION Spec
INVARIANT RecoveryKeepsWord
CHECK_DEADLOCK FALSE
