SPECIFICATION Spec
CONSTANTS
    Bytes = {130, 255}
    Draws = {0, 12}
    Deltas = {65535}
    MaxFlips = 1
    Panic = Panic
    Topics <- Empty
    ClientIds <- Empty
    Payloads <- Payload
    Words = {60}
    RandomTopic <- Topic
    MaxFilters = 2
    PatternBound = 3
    MutationBound = 3
INVARIANT TypeOK
INVARIANT GeneratedValid
INVARIANT ValidLooksMqtt
INVARIANT OversizedStaysInvalid
INVARIANT PanicTakesThreeMutations
PROPERTY ProtocolNameNeverHit
CHECK_DEADLOCK FALSE
