\* Requests without trailing bytes; errors, timeouts and resets.
SPECIFICATION Spec
CONSTANTS
    UShortRange = 65536
    Commands <- OrdinaryCommands
    HwErrors <- SomeErrors
    MayTimeOut = TRUE
    SdioClient = FALSE
    HaltOnError = TRUE
    InlineReissue = TRUE
    SlowInterrupts = FALSE
INVARIANTS
    TypeOK
    RequestOwned
    CompletedOnce
    DataPortReady
    SuccessMovedEverything
    AnswerIsEarned
    NoLostWakeup
    ArgumentMatchesTransfer
PROPERTIES
    KeepsPromise
