\* Two concurrent calls, of one client or of two, for one feed; one retry.
CONSTANTS
    c1 = c1
    c2 = c2
    i1 = i1
    i2 = i2
    k1 = k1
    Calls = {c1, c2}
    Clients = {i1, i2}
    Keys = {k1}
    MaxRetries = 1
    Stale = 1
SPECIFICATION FairSpec
INVARIANTS
    TypeOK
    TriesEverything
PROPERTIES
    CacheBridgesOutage
    CallsEnd
