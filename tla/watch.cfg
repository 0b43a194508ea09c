CONSTANTS
    c1 = c1
    u1 = u1
    u2 = u2
    NoConn = NoConn
    Pool = Pool
    Conns = {c1}
    Users = {u1, u2}
    Runners = {u1}
    Targets = {NoConn, c1}
    Failures <- SomeFailures
    MayDispose = TRUE
    MaxCalls = 3
    MaxRegs = 6
SPECIFICATION FairSpec
CHECK_DEADLOCK FALSE
INVARIANTS
    TypeOK
    OneSubscriber
    SubscriptionsAreLive
    CallbackIsSet
PROPERTIES
    StopIsFinal
    EveryCallReturns
