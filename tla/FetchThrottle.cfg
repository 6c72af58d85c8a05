CONSTANTS
    t1 = t1
    t2 = t2
    t3 = t3
    t4 = t4
    hostA = hostA
    hostB = hostB
    NoHost = NoHost
    Tasks = {t1, t2, t3, t4}
    Preconnects = {p1}
    Hosts = {hostA, hostB}
    HostOf <- MCHostOf
    MaxConcurrent = 2
    MaxPerHost = 1
SPECIFICATION Spec
CHECK_DEADLOCK FALSE
INVARIANTS
    Accounted
    NoLostDispatch
    DrainedIsQuiet
PROPERTIES
    NoOvertaking
    EveryTaskEnds
    DrainEnds
