CONSTANTS
    d1 = d1
    d2 = d2
    Dials = {d1, d2}
    NoDial = NoDial
    MaxStates = 0
    CancelWindows <- During
    EapData = {FALSE}
    Failures <- StartFailures
    MayDispose = FALSE
    Overlap = TRUE
    Inline = TRUE
SPECIFICATION Spec
CHECK_DEADLOCK FALSE
SYMMETRY Symmetric
INVARIANTS
    TypeOK
    SyncRootIsLock
    PermitsAreAccountedFor
    ThrownLeavesNoAttempt
