CONSTANTS
    Processes = {p1, p2}
    Keys = {1, 2}
    Requests <- OneEach
    Responses = {1, 2}
    Cap = 2
    MaxAge = 0
    Lifetimes = {1}
    MaxClock = 1
    MaxSurprises = 1
    NoRow = NoRow
    NoBody = NoBody
SYMMETRY Symmetry
SPECIFICATION CacheSpec
INVARIANTS
    EntryIsOneResponse
    EveryFileHasRow
    WithinBudget
