\* Three concurrent requests of two clients; two faults.
CONSTANTS
    c1 = c1
    c2 = c2
    r1 = r1
    r2 = r2
    r3 = r3
    Clients = {c1, c2}
    Requests = {r1, r2, r3}
    Limit = 2
    FailClosed = TRUE
    Resends = TRUE
    MaxFaults = 2
SPECIFICATION FairSpec
INVARIANTS
    TypeOK
    BudgetKept
    BudgetUsed
PROPERTY RecoversWithoutFaults
