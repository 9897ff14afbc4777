CONSTANTS
    a = a
    short = short
    empty = empty
    DNS = DNS
    MQTT = MQTT
    Inputs <- MCInputs
    Protocols <- MCProtocols
    Options <- MCOptions
    Hashes <- MCHashes
    InputHash <- MCHash
    InputSize <- MCSize
    ErrorMessages <- MCErrors
    Outcomes <- MCOutcomes
    Seeds <- OneSeed
    Fragile <- ShortCases
    Brittle <- EmptyCases
    CorpusCap = 2
    Faults <- NoFaults
    Iterations = 2
    MaxRuns = 1
SPECIFICATION PromptSpec
PROPERTY CrashReported
CHECK_DEADLOCK FALSE
