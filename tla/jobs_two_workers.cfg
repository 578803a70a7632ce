\* Two workers, one job, nothing fails but the executions.
CONSTANTS
    j1 = j1
    w1 = w1
    w2 = w2
    Jobs = {j1}
    Workers = {w1, w2}
    NoJob = NoJob
    MaxRetries = 3
    Faults = FALSE
    Redelivery = FALSE
    LapseWhileHeld = FALSE
    ReadOutlastsPoll = TRUE
SPECIFICATION FairSpec
PROPERTY JobsFinish
