CONSTANTS
    Processes = {p1}
    Keys = {1, 2}
    Requests <- Variants
    Responses = {1, 2}
    Cap = 2
    MaxAge = 0
    Lifetimes = {0, 1}
    MaxClock = 0
    MaxSurprises = 0
    NoRow = NoRow
    NoBody = NoBody
SPECIFICATION CacheSpec
INVARIANTS
    FreshEntryAnswers
