CONSTANTS
    f1 = f1
    f2 = f2
    f3 = f3
    Callers = {f1, f2, f3}
    MaxLoops = 2
SPECIFICATION MultiFairSpec
CHECK_DEADLOCK FALSE
INVARIANTS
    LoopOwnsTransfers
    BlockedAreDriven
PROPERTIES
    TransfersEnd
    ShutdownReturns
