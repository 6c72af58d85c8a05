CONSTANTS
    ka = ka
    pa = pa
    la = la
    na = na
    sa = sa
    hostA = hostA
    NoHost = NoHost
    None = None
    Keys = {ka}
    KeyOf <- MCKeyOf
    HostOf <- MCHostOf
    Hosts = {hostA}
    MaxExpected = 1
    MaxBytes = 1
    Sizes = {1}
    MaxConcurrent = 1
    MaxPerHost = 1
    AsyncReqs = {pa, la}
    Preloads = {pa}
    Keyless = {na}
    SyncReqs = {sa}
    Preconnects = {}
SPECIFICATION FairSpec
CHECK_DEADLOCK FALSE
INVARIANTS
    EveryGroupHasDriver
    AnswersFollowTasks
PROPERTIES
    ImplementsComponents
    EveryRequestAnswered
