CONSTANTS
    a = a
    short = short
    empty = empty
    DNS = DNS
    MQTT = MQTT
    Inputs <- MCInputs
    Protocols <- MCProtocols
    Options <- MCOptions
    Hashes <- MCHashes
    InputHash <- MCHash
    InputSize <- MCSize
    ErrorMessages <- MCErrors
    Outcomes <- MCOutcomes
    Seeds <- OneSeed
    Fragile <- ShortCases
    Brittle <- EmptyCases
    CorpusCap = 2
    Faults <- AllFaults
    Iterations = 2
    MaxRuns = 2
SPECIFICATION FairSpec
INVARIANT TypeOK
INVARIANT CountsAgree
INVARIANT CorpusIsLatest
INVARIANT CrashesKept
INVARIANT SummaryVouches
INVARIANT MetadataFollowsInput
PROPERTY CampaignEnds
CHECK_DEADLOCK FALSE
