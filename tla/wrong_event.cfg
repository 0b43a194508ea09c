CONSTANTS
    c1 = c1
    c2 = c2
    u1 = u1
    NoConn = NoConn
    Pool = Pool
    Conns = {c1, c2}
    Users = {u1}
    Runners = {Pool}
    Targets = {NoConn}
    Failures <- NoFailure
    MayDispose = FALSE
    MaxCalls = 1
    MaxRegs = 2
SPECIFICATION FairSpec
INVARIANT
    ConnectedMeansEstablished
