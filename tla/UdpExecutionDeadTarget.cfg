CONSTANTS
    query = query
    bad = bad
    p1 = p1
    p2 = p2
    Inputs <- MCInputs
    Fatal <- MCFatal
    Ports <- MCPorts
    MaxExecutions = 2
    MaxRestarts = 0
SPECIFICATION Spec
INVARIANT DeadTargetDetected
CHECK_DEADLOCK FALSE
