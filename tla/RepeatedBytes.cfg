CONSTANTS
    Data <- UpToEight
SPECIFICATION ScanSpec
INVARIANT ScanAnswers
CHECK_DEADLOCK FALSE
