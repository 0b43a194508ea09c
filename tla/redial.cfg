CONSTANTS
    d1 = d1
    d2 = d2
    Dials = {d1, d2}
    NoDial = NoDial
    MaxStates = 1
    CancelWindows <- Early
    EapData = {TRUE, FALSE}
    Failures <- RasFailures
    MayDispose = FALSE
    Overlap = FALSE
    Inline = FALSE
SPECIFICATION FairSpec
INVARIANTS
    HandleIsOurs
    ResultStaysConnected
    IdleIsNotBusy
    EapFreedOnce
    NothingEscapesToRas
PROPERTIES
    LastCallbackStops
    KeepsPromise
