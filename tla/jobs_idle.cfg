\* The one worker of docker-compose.yml with its REDIS_TIMEOUT of 5 s, one job;
\* nothing fails.
CONSTANTS
    j1 = j1
    w1 = w1
    Jobs = {j1}
    Workers = {w1}
    NoJob = NoJob
    MaxRetries = 3
    Faults = FALSE
    Redelivery = FALSE
    LapseWhileHeld = FALSE
    ReadOutlastsPoll = FALSE
SPECIFICATION FairSpec
PROPERTY JobsFinish
