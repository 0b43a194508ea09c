CONSTANTS
    d1 = d1
    Dials = {d1}
    NoDial = NoDial
    MaxStates = 1
    CancelWindows <- AnyTime
    EapData = {TRUE, FALSE}
    Failures <- RasFailures
    MayDispose = FALSE
    Overlap = FALSE
    Inline = FALSE
SPECIFICATION FairSpec
INVARIANTS
    HandleIsOurs
    NoOrphanedAttempt
    BusyWhilePending
    IdleIsNotBusy
    EapFreedOnce
PROPERTIES
    KeepsPromise
