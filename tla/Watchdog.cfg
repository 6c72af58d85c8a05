CONSTANTS
    p1 = p1
    p2 = p2
    Pages = {p1, p2}
    NoFile = NoFile
    BurstMax = 2
    BurstSecs = 4
    Backoff = 1
    Grace = 1
    HangSecs = 1
    InitAdopts = TRUE
SPECIFICATION FairSpec
CHECK_DEADLOCK FALSE
INVARIANTS
    NoStrayBrowser
    CrashLoopGuard
PROPERTIES
    StopIsFinal
    StopEnds
    FailureIsAnswered
