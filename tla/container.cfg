CONSTANTS
    a = a
    b = b
    c = c
    Types = {a, b, c}
    NoType = NoType
    Lives <- Lifes
    Dep <- Deps
    Scopes = {s1, s2}
    Root = Root
    NoLifetime = NoLifetime
    Threads = {t1, t2}
    Throwing = {b}
    Faulty = {c}
    MaxCalls = 4
    MaxMade = 12
SPECIFICATION Spec
SYMMETRY Symmetric
INVARIANTS
    TypeOK
    OneInstance
    NoCaptive
    OwnersDispose
