CONSTANTS
    MaxBufs = 2
    MaxBytes = 2
    MaxCalls = 2
    MaxDeeds = 1
    Kinds <- MCKinds
    MemLimit = 3
    HandlerMay = {"warn", "ob_start", "flush"}
    AsideMay = {"echo"}
    MayFlushInClean = FALSE
SPECIFICATION Spec
INVARIANTS TypeOK StackIsLive RedirectionIsUndone StartComesFirst ScriptBytesInOrder
PROPERTIES LostOnlyOnPurpose CloseTerminates
