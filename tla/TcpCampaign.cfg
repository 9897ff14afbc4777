CONSTANTS
    ping = ping
    bad = bad
    short = short
    Inputs <- MCInputs
    Fatal <- MCFatal
    Fragile <- MCFragile
    Hashes <- MCHashes
    InputHash <- MCHash
    InputSize <- MCBytes
    Size <- Fitting
    Seed = ping
    SocketBuffer = 2
    CorpusCap = 2
    MaxExecutions = 2
    MaxRestarts = 2
SPECIFICATION CampaignSpec
INVARIANT TypeOK
INVARIANT ConnectErrorsInnocent
INVARIANT DeathReported
INVARIANT KillersKept
PROPERTY ImplementsCampaign
CHECK_DEADLOCK FALSE
