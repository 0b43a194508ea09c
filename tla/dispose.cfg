CONSTANTS
    d1 = d1
    Dials = {d1}
    NoDial = NoDial
    MaxStates = 1
    CancelWindows <- AnyTime
    EapData = {TRUE, FALSE}
    Failures <- AllFailures
    MayDispose = TRUE
    Overlap = FALSE
    Inline = FALSE
SPECIFICATION Spec
CHECK_DEADLOCK FALSE
INVARIANTS
    SyncRootIsLock
    PermitsAreAccountedFor
    DisposeEndsAttempt
