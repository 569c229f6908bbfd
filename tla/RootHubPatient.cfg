SPECIFICATION FairSpec
CONSTANTS
    Requests <- Everything
    HubWaits = TRUE
    Idle = Idle
INVARIANTS
    TypeOK
    ResetEnds
    ResumeEnds
    NoticeFindsChange
    ResetInHand
PROPERTIES
    ResetAnswered
    PortFeaturesKeepChanges
