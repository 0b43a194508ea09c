CONSTANTS
    c1 = c1
    c2 = c2
    p1 = p1
    t1 = t1
    t2 = t2
    NoItem = NoItem
    Threads = {t1, t2}
    Conns = {c1, c2}
    Ports = {p1}
    Machines <- SomeMachines
    MaxRefs <- Bounds
    Asks <- Work
    MaxData = 2
    MaxCalls = 2
    Failures <- SomeFailures
    Codes <- SomeCodes
SPECIFICATION FairSpec
INVARIANTS
    TypeOK
    EnumerationIsSnapshot
    HangUpKeepsItsWord
PROPERTIES
    LossIsTold
    BuffersAreOwned
    EveryRequestEnds
