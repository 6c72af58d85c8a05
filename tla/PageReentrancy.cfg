CONSTANTS
    MaxPending = 1
    MaxMessages = 2
    MaxEvents = 2
    MaxPosts = 2
    MaxPumps = 2
    MaxTraffic = 4
    MaxOpen = 2
SPECIFICATION Spec
CHECK_DEADLOCK FALSE
INVARIANT NoNestedScript
