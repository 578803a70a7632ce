\* Two concurrent requests of one client; one fault.
CONSTANTS
    c1 = c1
    r1 = r1
    r2 = r2
    Clients = {c1}
    Requests = {r1, r2}
    Limit = 2
    FailClosed = TRUE
    Resends = FALSE
    MaxFaults = 1
SPECIFICATION FairSpec
PROPERTY ClientRecovers
