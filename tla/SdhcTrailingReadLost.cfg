\* Reads with trailing bytes.
SPECIFICATION Spec
CONSTANTS
    UShortRange = 65536
    Commands <- TrailingReadCommands
    HwErrors <- NoErrors
    MayTimeOut = FALSE
    SdioClient = FALSE
    HaltOnError = TRUE
    InlineReissue = TRUE
    SlowInterrupts = TRUE
INVARIANTS
    SuccessMovedEverything
