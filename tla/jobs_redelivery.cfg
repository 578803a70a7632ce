\* Two workers, one job: faults and re-sent pushes, but no lock runs out under
\* a live holder.
CONSTANTS
    j1 = j1
    w1 = w1
    w2 = w2
    Jobs = {j1}
    Workers = {w1, w2}
    NoJob = NoJob
    MaxRetries = 3
    Faults = TRUE
    Redelivery = TRUE
    LapseWhileHeld = FALSE
    ReadOutlastsPoll = FALSE
SPECIFICATION FairSpec
INVARIANTS
    LockOwned
PROPERTIES
    CompletedFinal
    LocksFreed
