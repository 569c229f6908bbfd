\* Writes with trailing bytes, on a host that raises events faster than they are handled.
SPECIFICATION FairSpec
CONSTANTS
    UShortRange = 65536
    Commands <- TrailingWriteCommands
    HwErrors <- SomeErrors
    MayTimeOut = FALSE
    SdioClient = FALSE
    HaltOnError = TRUE
    InlineReissue = TRUE
    SlowInterrupts = TRUE
PROPERTIES
    RequestSettles
