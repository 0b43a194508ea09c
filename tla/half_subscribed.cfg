CONSTANTS
    c1 = c1
    u1 = u1
    NoConn = NoConn
    Pool = Pool
    Conns = {c1}
    Users = {u1}
    Runners = {Pool}
    Targets = {c1}
    Failures <- NoFailure
    MayDispose = FALSE
    MaxCalls = 2
    MaxRegs = 4
SPECIFICATION FairSpec
INVARIANT
    ActiveMeansWatching
