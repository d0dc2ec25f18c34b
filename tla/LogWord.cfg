CONSTANTS
    Policies = {"EveryWrite"}
    MaxSegmentSize = 1
    MaxEntry = 4
    MaxSegment = 4
    MaxRestart = 2
    MaxFault = 1
    MaxAhead = 0
SPECIFICATION Spec
INVARIANT LogKeepsWord
