CONSTANTS
    query = query
    bad = bad
    p1 = p1
    p2 = p2
    Inputs <- MCInputs
    Fatal <- MCFatal
    Ports <- MCPorts
    MaxExecutions = 2
    MaxRestarts = 1
SPECIFICATION FairSpec
INVARIANT TypeOK
INVARIANT StrayAnswersSharePort
INVARIANT FailedInputNotTaken
PROPERTY ExecutionEnds
CHECK_DEADLOCK FALSE
