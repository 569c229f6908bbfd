SPECIFICATION FairDeviceSpec
CONSTANTS
    control = control
    bulk = bulk
    port = port
    None = None
    Transfers <- ControlAndBulk
    Channels <- TwoChannels
    Kind <- MixedKinds
    TtPort <- OnePort
    Lengths <- ZeroOrOnePacket
    Outcomes = {"nak", "nyet"}
    MaxRequests = 1
    MaxMoved = 2
    Purges = {}
    Processors = 2
INVARIANTS
    TypeOK
    ChannelsAccounted
    
    WaitersAreWoken

    
CHECK_DEADLOCK FALSE
