CONSTANTS
    Executions <- MCExecutions
    hash_edge <- Colliding
    entropy_category <- Entropy
    parse_questions <- OneQuestion
    SnapshotEvery = 2
    HistoryCap = 3
    HistoryDrop = 2
    WindowSize = 2
    GrowthMin = 3
    MaxExecutions = 8
SPECIFICATION Spec
INVARIANT CollectorsConcur
INVARIANT CountsConcur
INVARIANT EdgeCountsArePaths
INVARIANT SnapshotsLatest
INVARIANT DiscoveryRateBlind
CHECK_DEADLOCK FALSE
