CONSTANTS
    ping = ping
    bad = bad
    Inputs <- MCInputs
    Fatal <- MCFatal
    SocketBuffer = 2
    Size <- Oversized
    MaxExecutions = 2
    MaxRestarts = 0
SPECIFICATION FairSpec
PROPERTY ExecutionEnds
CHECK_DEADLOCK FALSE
