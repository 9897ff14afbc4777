CONSTANTS
    small = small
    large = large
    huge = huge
    h1 = h1
    h2 = h2
    DNS = DNS
    MQTT = MQTT
    Inputs <- MCInputs
    InputSize <- MCInputSize
    Protocols <- MCProtocols
    Hashes <- MCHashes
    InputHash <- MCInputHash
    ErrorMessages <- MCErrors
SPECIFICATION DetectorSpec
INVARIANT DetectorTypeOK
INVARIANT HashIndexAgrees
INVARIANT EveryReportAccounted
INVARIANT StatsAgree
PROPERTY ImplementsLog
