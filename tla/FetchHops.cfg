CONSTANTS
    f1 = f1
    f2 = f2
    hostA = hostA
    hostB = hostB
    Fetches = {f1, f2}
    Navigations = {f2}
    Urls <- MCUrls
    Starts <- MCStarts
    MaxPerOrigin = 1
    MaxRedirects = 2
SPECIFICATION Spec
CHECK_DEADLOCK FALSE
INVARIANTS
    SlotsSound
    SecretsStayHome
PROPERTIES
    EveryFetchEnds
    StopIsHeeded
