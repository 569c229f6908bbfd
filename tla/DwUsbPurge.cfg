SPECIFICATION FairSpec
CONSTANTS
    control = control
    bulk = bulk
    port = port
    None = None
    Transfers <- BulkOnly
    Channels <- OneChannel
    Kind <- MixedKinds
    TtPort <- NoPort
    Lengths <- ZeroOrOnePacket
    Outcomes = {"nak"}
    MaxRequests = 1
    MaxMoved = 2
    Purges = {bulk}
    Processors = 1
PROPERTIES
    PurgeEnds
CHECK_DEADLOCK FALSE
