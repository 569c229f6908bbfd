\* sdport masks and unmasks the card interrupt while commands run, and takes
\* its time between the parts of a transfer.
SPECIFICATION FairSpec
CONSTANTS
    UShortRange = 65536
    Commands <- OrdinaryCommands
    HwErrors <- NoErrors
    MayTimeOut = FALSE
    SdioClient = TRUE
    HaltOnError = TRUE
    InlineReissue = FALSE
    SlowInterrupts = FALSE
PROPERTIES
    RequestSettles
