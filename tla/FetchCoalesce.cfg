CONSTANTS
    ka = ka
    kb = kb
    pa = pa
    pb = pb
    la = la
    sa = sa
    None = None
    Keys = {ka, kb}
    AsyncReqs = {pa, pb, la}
    SyncReqs = {sa}
    Preloads = {pa, pb}
    KeyOf <- MCKeyOf
    MaxExpected = 1
    MaxBytes = 3
    Sizes = {1, 2}
SPECIFICATION Spec
CHECK_DEADLOCK FALSE
INVARIANTS
    TableSound
    WaitersAreLed
    BytesExact
    AnswerIsForKey
PROPERTIES
    ImplementsSingleFlight
    EveryRequestEnds
