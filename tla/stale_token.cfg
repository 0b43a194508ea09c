CONSTANTS
    d1 = d1
    d2 = d2
    Dials = {d1, d2}
    NoDial = NoDial
    MaxStates = 0
    CancelWindows <- Late
    EapData = {TRUE, FALSE}
    Failures <- NoFailure
    MayDispose = FALSE
    Overlap = FALSE
    Inline = FALSE
SPECIFICATION FairSpec
INVARIANT
    CanceledByOwnToken
