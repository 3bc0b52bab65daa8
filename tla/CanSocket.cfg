SPECIFICATION Spec
CONSTANTS
    p1 = p1
    p2 = p2
    m1 = m1
    Sockets = {s1, s2}
    Wrapped = {s1}
    AppCores = {c1, c2}
    Ports = {p1, p2}
    Modules = {m1}
    ModuleOf <- MCModuleOf
    MaxChannels = 2
    NoCore = NoCore
    NoPort = NoPort
INVARIANTS TypeOK NodeAccounting NothingLeaks StartedCoreIsWired WrapperFollowsSocket
PROPERTY ImplementsPorts
