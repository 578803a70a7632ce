\* The one worker of docker-compose.yml, an accumulator and a market list, a
\* feed that changes at any moment; locks may run out, nothing else fails.
CONSTANTS
    j1 = j1
    j2 = j2
    w1 = w1
    Jobs = {j1, j2}
    Workers = {w1}
    NoJob = NoJob
    MaxRetries = 3
    Faults = FALSE
    Redelivery = FALSE
    LapseWhileHeld = TRUE
    ReadOutlastsPoll = TRUE
    JobType <- OneOfEach
SPECIFICATION ExecutionSpec
INVARIANT OnlyOutagesFail
PROPERTY JobsFinish
