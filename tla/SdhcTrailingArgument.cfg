\* The argument of a CMD53 write with trailing bytes.
SPECIFICATION Spec
CONSTANTS
    UShortRange = 65536
    Commands <- TrailingWriteCommands
    HwErrors <- NoErrors
    MayTimeOut = FALSE
    SdioClient = FALSE
    HaltOnError = TRUE
    InlineReissue = TRUE
    SlowInterrupts = FALSE
INVARIANTS
    ArgumentMatchesTransfer
