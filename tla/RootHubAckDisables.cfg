SPECIFICATION Spec
CONSTANTS
    Requests <- Enumeration
    HubWaits = TRUE
    Idle = Idle
PROPERTIES
    AckKeepsPortEnabled
