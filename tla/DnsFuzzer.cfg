SPECIFICATION Spec
CONSTANTS
    Bytes = {0, 255}
    Draws = {0, 3, 6, 19}
    Deltas = {65535}
    MaxFlips = 1
    Panic = Panic
    Ids = {4660}
    Names <- ShortNames
    QueryTypes = {1}
    PatternBound = 3
    MutationBound = 3
INVARIANT AnalyzerSeesThrough
INVARIANT HeaderSurvives
INVARIANT IndicesInBounds
PROPERTY ClassNeverHit
CHECK_DEADLOCK FALSE
