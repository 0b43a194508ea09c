CONSTANTS
    c1 = c1
    c2 = c2
    u1 = u1
    NoConn = NoConn
    Pool = Pool
    Conns = {c1, c2}
    Users = {u1}
    Runners = {Pool, u1}
    Targets = {NoConn}
    Failures <- NoFailure
    MayDispose = FALSE
    MaxCalls = 3
    MaxRegs = 6
SPECIFICATION FairSpec
INVARIANTS
    ChangesAreSignalled
    LoneChangeIsRight
PROPERTIES
    EveryChangeIsNoticed
    KeepsItsWord
