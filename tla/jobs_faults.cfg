\* Two workers and two jobs: processes die, Redis and the database fail, locks
\* run out under live holders; no push is duplicated.
CONSTANTS
    j1 = j1
    j2 = j2
    w1 = w1
    w2 = w2
    Jobs = {j1, j2}
    Workers = {w1, w2}
    NoJob = NoJob
    MaxRetries = 3
    Faults = TRUE
    Redelivery = FALSE
    LapseWhileHeld = TRUE
    ReadOutlastsPoll = FALSE
SPECIFICATION Spec
SYMMETRY Symmetry
INVARIANTS
    TypeOK
    OneMessage
    ExclusiveExecution
    MessageState
    RetryBudget
    RowConsistent
    MetersBounded
PROPERTIES
    LifecycleSpec
