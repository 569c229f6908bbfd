SPECIFICATION CalmSpec
CONSTANTS
    control = control
    bulk = bulk
    port = port
    None = None
    Transfers <- ControlAndBulk
    Channels <- OneChannel
    Kind <- MixedKinds
    TtPort <- OnePort
    Lengths <- MixedPackets
    Outcomes = {"nak", "short", "stall", "error"}
    MaxRequests = 2
    MaxMoved = 3
    Purges = {bulk}
    Processors = 2
INVARIANTS
    CompletedOnce
    ClaimsAreLive
    DataInPlace
    FreeChannelsAreClean
CHECK_DEADLOCK FALSE
