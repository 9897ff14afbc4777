CONSTANTS
    concurrent_connections = 2
    request_rate = 4
    Second = 2
    duration = 2
    MaxWait = 1
    MaxTime = 8
SPECIFICATION FairSpec
INVARIANT ReportCovers
INVARIANT RateKept
PROPERTY LoadEnds
CHECK_DEADLOCK FALSE
