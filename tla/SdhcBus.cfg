\* Every bus operation in any order, on a host that may answer late or never.
SPECIFICATION Spec
CONSTANTS
    BaseClockFrequencyKhz = 250000
    SpecVersion = 2
    Frequencies <- CardFrequencies
    ResetTypes = {"RESET_ALL", "RESET_DAT"}
    Widths = {1, 4}
    Speeds <- SomeSpeeds
    CrashdumpMode = FALSE
    Retries = 2
INVARIANTS
    TypeOK
    ClockNeverTooFast
    ClockSurvives
    ResetsAreOver
PROPERTIES
    OperationReturns
