------------------------------ MODULE JobQueue ------------------------------
(***************************************************************************)
(* The background prediction jobs: POST /api/v1/jobs (routes/jobs.py,      *)
(* jobs.py), the Redis list jobs:prediction, the Redis locks               *)
(* job-lock:{id}, and any number of app.job_worker processes.              *)
(*                                                                         *)
(* A step is one Redis command or one database session.  The executor is   *)
(* abstracted to "returns" or "raises"; what it computes is the business   *)
(* of other modules.                                                       *)
(***************************************************************************)
EXTENDS Naturals, Sequences

CONSTANTS
    Jobs,            \* the job ids handed out by POST /jobs
    Workers,         \* the app.job_worker processes
    NoJob,           \* what a worker holds between two messages
    MaxRetries,      \* jobs.py MAX_RETRIES
    Faults,          \* may processes die, and Redis or the database fail?
    Redelivery,      \* may the Redis client re-send an RPUSH that was applied?
    LapseWhileHeld,  \* may a lock's 3600 s run out under a live holder?
    ReadOutlastsPoll \* is REDIS_TIMEOUT longer than the 5 s a BLPOP waits?

ASSUME JobQueueAssumption ==
    /\ MaxRetries \in Nat \ {0}
    /\ NoJob \notin Jobs
    /\ {Faults, Redelivery, LapseWhileHeld, ReadOutlastsPoll} \subseteq BOOLEAN

VARIABLES
    job,      \* the prediction_jobs table
    api,      \* how far the POST that creates each job has come
    queue,    \* the list jobs:prediction
    locked,   \* the jobs whose key job-lock:{id} exists; its value, "1",
              \* does not say who set it
    pc,       \* where each worker is
    cur,      \* the message each worker is handling
    meter     \* the metrics counters, per job

vars == <<job, api, queue, locked, pc, cur, meter>>

Lifecycle == INSTANCE JobLifecycle

-----------------------------------------------------------------------------
(* Types and initial state.                                                *)

\* "popped"    BLPOP returned, SET NX not yet sent
\* "locked"    the lock was acquired, the row not yet marked RUNNING
\* "executing" inside execute_prediction_job
\* "failing"   it raised, the failure is not yet recorded
\* "retrying"  the row is QUEUED again, the failure not yet counted
\* "givingUp"  the row is FAILED, the failure not yet counted
\* "exhausted" JOB_RETRIES is counted, JOB_FAILED not yet
\* "backoff"   sleeping before the message is pushed again
\* "finishing" it returned, the result is not yet stored
\* "releasing" in the finally block
PCs == {"idle", "popped", "locked", "executing", "failing", "retrying",
        "givingUp", "exhausted", "backoff", "finishing", "releasing", "down"}

\* Between SET NX and DELETE.
Holding == {"locked", "executing", "failing", "retrying", "givingUp",
            "exhausted", "backoff", "finishing", "releasing"}

\* The worker has the job's message and has not yet dealt with it.
Carrying == {"popped", "locked", "executing", "failing", "retrying",
             "givingUp", "exhausted", "backoff", "finishing"}

Meter == [completed : Nat, failed : Nat, retries : Nat]

TypeOK ==
    /\ job \in [Jobs -> Lifecycle!Row]
    /\ api \in [Jobs -> {"new", "created", "accepted", "error"}]
    /\ queue \in Seq(Jobs)
    /\ locked \subseteq Jobs
    /\ pc \in [Workers -> PCs]
    /\ cur \in [Workers -> Jobs \cup {NoJob}]
    /\ \A w \in Workers : cur[w] = NoJob <=> pc[w] \in {"idle", "down"}
    /\ meter \in [Jobs -> Meter]

Init ==
    /\ Lifecycle!Init
    /\ api = [j \in Jobs |-> "new"]
    /\ queue = <<>>
    /\ locked = {}
    /\ pc = [w \in Workers |-> "idle"]
    /\ cur = [w \in Workers |-> NoJob]
    /\ meter = [j \in Jobs |-> [completed |-> 0, failed |-> 0, retries |-> 0]]

-----------------------------------------------------------------------------
(* Helpers.                                                                *)

InQueue(j) == \E i \in 1..Len(queue) : queue[i] = j

Goto(w, label) == pc' = [pc EXCEPT ![w] = label] /\ UNCHANGED cur

\* Mutant: the worker forgets that it has dealt with the job.
DropKeepsJob(w, label) == Goto(w, label)

Drop(w, label) == /\ pc'  = [pc EXCEPT ![w] = label]
                  /\ cur' = [cur EXCEPT ![w] = NoJob]

\* RPUSH.  A client that re-sends a command whose reply was lost pushes twice.
Push(j) == \/ queue' = Append(queue, j)
           \/ Redelivery /\ queue' = Append(Append(queue, j), j)

\* An RPUSH that raises may have been applied or not.
PushRaises(j) == queue' = queue \/ Push(j)

-----------------------------------------------------------------------------
(* POST /api/v1/jobs: two steps, and nothing that repairs the first when   *)
(* the second fails.                                                       *)

CreateJob(j) ==
    /\ api[j] = "new"
    /\ job' = [job EXCEPT ![j] = Lifecycle!NewRow]
    /\ api' = [api EXCEPT ![j] = "created"]
    /\ UNCHANGED <<queue, locked, pc, cur, meter>>

EnqueueJob(j) ==
    /\ api[j] = "created"
    /\ Push(j)
    /\ api' = [api EXCEPT ![j] = "accepted"]
    /\ UNCHANGED <<job, locked, pc, cur, meter>>

\* The RPUSH raises, or the API process dies: the client sees a 500 or a
\* closed connection, the committed row stays.
EnqueueFails(j) ==
    /\ Faults
    /\ api[j] = "created"
    /\ PushRaises(j)
    /\ api' = [api EXCEPT ![j] = "error"]
    /\ UNCHANGED <<job, locked, pc, cur, meter>>

-----------------------------------------------------------------------------
(* run_worker                                                              *)

\* Mutant: the message is read and stays in the list.
PollKeepsMessage(w) ==
    /\ pc[w] = "idle"
    /\ queue # <<>>
    /\ cur' = [cur EXCEPT ![w] = Head(queue)]
    /\ pc' = [pc EXCEPT ![w] = "popped"]
    /\ UNCHANGED <<job, api, queue, locked, meter>>

Poll(w) ==
    /\ pc[w] = "idle"
    /\ queue # <<>>
    /\ queue' = Tail(queue)
    /\ cur' = [cur EXCEPT ![w] = Head(queue)]
    /\ pc' = [pc EXCEPT ![w] = "popped"]
    /\ UNCHANGED <<job, api, locked, meter>>

\* BLPOP returned nothing within its timeout: continue.
PollTimesOut(w) ==
    /\ pc[w] = "idle"
    /\ queue = <<>>
    /\ UNCHANGED vars

\* The client stops reading after REDIS_TIMEOUT; unless that is longer than the
\* server waits, an idle BLPOP may raise first, outside the try block.
PollRaises(w) ==
    /\ ~ReadOutlastsPoll
    /\ pc[w] = "idle"
    /\ queue = <<>>
    /\ Goto(w, "down")
    /\ UNCHANGED <<job, api, queue, locked, meter>>

\* The server popped the message and the reply was lost.  The client re-sends
\* the BLPOP, or gives up: the call is outside the try block, so that ends the
\* process.
PollLosesMessage(w) ==
    /\ Faults
    /\ pc[w] = "idle"
    /\ queue # <<>>
    /\ queue' = Tail(queue)
    /\ \E label \in {"idle", "down"} : Goto(w, label)
    /\ UNCHANGED <<job, api, locked, meter>>

-----------------------------------------------------------------------------
(* process_job                                                             *)

\* Mutant: SET without NX.
AcquireLockAnyway(w) ==
    /\ pc[w] = "popped"
    /\ locked' = locked \cup {cur[w]}
    /\ Goto(w, "locked")
    /\ UNCHANGED <<job, api, queue, meter>>

AcquireLock(w) ==
    /\ pc[w] = "popped"
    /\ cur[w] \notin locked
    /\ locked' = locked \cup {cur[w]}
    /\ Goto(w, "locked")
    /\ UNCHANGED <<job, api, queue, meter>>

\* SET NX returned nothing: return.  The message is gone.
LockBusy(w) ==
    /\ pc[w] = "popped"
    /\ cur[w] \in locked
    /\ Drop(w, "idle")
    /\ UNCHANGED <<job, api, queue, locked, meter>>

\* SET NX raises before the try block, applied or not; run_worker logs it.
AcquireFails(w) ==
    /\ Faults
    /\ pc[w] = "popped"
    /\ locked' \in {locked, locked \cup {cur[w]}}
    /\ Drop(w, "idle")
    /\ UNCHANGED <<job, api, queue, meter>>

\* Only a COMPLETED row is skipped; a FAILED or RUNNING one is run again.
SkipCompleted(w) ==
    /\ pc[w] = "locked"
    /\ job[cur[w]].status = "completed"
    /\ Goto(w, "releasing")
    /\ UNCHANGED <<job, api, queue, locked, meter>>

\* Mutant: a COMPLETED row is run again.
StartJobAnyway(w) ==
    /\ pc[w] = "locked"
    /\ job' = [job EXCEPT ![cur[w]] = Lifecycle!Started(@)]
    /\ Goto(w, "executing")
    /\ UNCHANGED <<api, queue, locked, meter>>

StartJob(w) ==
    /\ pc[w] = "locked"
    /\ job[cur[w]].status # "completed"
    /\ job' = [job EXCEPT ![cur[w]] = Lifecycle!Started(@)]
    /\ Goto(w, "executing")
    /\ UNCHANGED <<api, queue, locked, meter>>

\* The executor returns; JOB_COMPLETED is counted before the commit.
ExecuteReturns(w) ==
    /\ pc[w] = "executing"
    /\ meter' = [meter EXCEPT ![cur[w]].completed = @ + 1]
    /\ Goto(w, "finishing")
    /\ UNCHANGED <<job, api, queue, locked>>

ExecuteRaises(w) ==
    /\ pc[w] = "executing"
    /\ Goto(w, "failing")
    /\ UNCHANGED <<job, api, queue, locked, meter>>

\* Mutant: the message is pushed again after the last attempt too.
RecordFailureRetries(w) ==
    /\ pc[w] = "failing"
    /\ job' = [job EXCEPT ![cur[w]] = Lifecycle!AfterFailure(@)]
    /\ Goto(w, "retrying")
    /\ UNCHANGED <<api, queue, locked, meter>>

\* The row is committed; should_retry is a local from here on.
RecordFailure(w) ==
    /\ pc[w] = "failing"
    /\ job' = [job EXCEPT ![cur[w]] = Lifecycle!AfterFailure(@)]
    /\ Goto(w, IF job[cur[w]].retry + 1 < MaxRetries THEN "retrying" ELSE "givingUp")
    /\ UNCHANGED <<api, queue, locked, meter>>

\* Mutant: every failure counts as the last one.
CountRetryAsFailed(w) ==
    /\ pc[w] \in {"retrying", "givingUp"}
    /\ meter' = [meter EXCEPT ![cur[w]].retries = @ + 1, ![cur[w]].failed = @ + 1]
    /\ Goto(w, IF pc[w] = "retrying" THEN "backoff" ELSE "releasing")
    /\ UNCHANGED <<job, api, queue, locked>>

\* JOB_RETRIES is counted after every failure, the last one included.
CountRetry(w) ==
    /\ pc[w] \in {"retrying", "givingUp"}
    /\ meter' = [meter EXCEPT ![cur[w]].retries = @ + 1]
    /\ Goto(w, IF pc[w] = "retrying" THEN "backoff" ELSE "exhausted")
    /\ UNCHANGED <<job, api, queue, locked>>

CountFailed(w) ==
    /\ pc[w] = "exhausted"
    /\ meter' = [meter EXCEPT ![cur[w]].failed = @ + 1]
    /\ Goto(w, "releasing")
    /\ UNCHANGED <<job, api, queue, locked>>

\* Mutant: the retry is not pushed.
RequeueForgotten(w) ==
    /\ pc[w] = "backoff"
    /\ Goto(w, "releasing")
    /\ UNCHANGED <<job, api, queue, locked, meter>>

\* After the sleep the message is pushed while the lock is still held.
RequeueJob(w) ==
    /\ pc[w] = "backoff"
    /\ Push(cur[w])
    /\ Goto(w, "releasing")
    /\ UNCHANGED <<job, api, locked, meter>>

RequeueFails(w) ==
    /\ Faults
    /\ pc[w] = "backoff"
    /\ PushRaises(cur[w])
    /\ Goto(w, "releasing")
    /\ UNCHANGED <<job, api, locked, meter>>

CompleteJob(w) ==
    /\ pc[w] = "finishing"
    /\ job' = [job EXCEPT ![cur[w]] = Lifecycle!AfterSuccess(@)]
    /\ Goto(w, "releasing")
    /\ UNCHANGED <<api, queue, locked, meter>>

\* The row that the session of the worker's stage commits, if it does.
Committed(w) ==
    LET row == job[cur[w]]
    IN  CASE pc[w] = "failing"   -> Lifecycle!AfterFailure(row)
          [] pc[w] = "finishing" -> Lifecycle!AfterSuccess(row)
          [] pc[w] = "locked" /\ row.status # "completed" -> Lifecycle!Started(row)
          [] OTHER -> row

\* A database session raises, its commit applied or not; the finally block runs.
SessionFails(w) ==
    /\ Faults
    /\ pc[w] \in {"locked", "failing", "finishing"}
    /\ job' \in {job, [job EXCEPT ![cur[w]] = Committed(w)]}
    /\ Goto(w, "releasing")
    /\ UNCHANGED <<api, queue, locked, meter>>

\* DELETE removes the key whoever set it.
ReleaseLock(w) ==
    /\ pc[w] = "releasing"
    /\ locked' = locked \ {cur[w]}
    /\ Drop(w, "idle")
    /\ UNCHANGED <<job, api, queue, meter>>

\* DELETE raises and was not applied; run_worker logs the exception.
ReleaseFails(w) ==
    /\ Faults
    /\ pc[w] = "releasing"
    /\ Drop(w, "idle")
    /\ UNCHANGED <<job, api, queue, locked, meter>>

-----------------------------------------------------------------------------
(* Redis and the machines.                                                 *)

\* Mutant: the key is set without EX.
LockNeverExpires(j) == FALSE /\ j \in locked /\ UNCHANGED vars

\* The key's 3600 s are over: long after its holder died or failed to delete
\* it or, with LapseWhileHeld, during an execution that takes as long.
LockExpires(j) ==
    /\ j \in locked
    /\ LapseWhileHeld \/ \A w \in Workers : ~(pc[w] \in Holding /\ cur[w] = j)
    /\ locked' = locked \ {j}
    /\ UNCHANGED <<job, api, queue, pc, cur, meter>>

\* The process is killed, or a failing Redis makes its BLPOP raise.
Crash(w) ==
    /\ Faults
    /\ pc[w] # "down"
    /\ Drop(w, "down")
    /\ UNCHANGED <<job, api, queue, locked, meter>>

Restart(w) ==
    /\ pc[w] = "down"
    /\ Goto(w, "idle")
    /\ UNCHANGED <<job, api, queue, locked, meter>>

-----------------------------------------------------------------------------

Api(j) == CreateJob(j) \/ EnqueueJob(j) \/ EnqueueFails(j)

\* What a worker does when nothing fails.
WorkerStep(w) ==
    \/ Poll(w) \/ PollTimesOut(w)
    \/ AcquireLock(w) \/ LockBusy(w)
    \/ SkipCompleted(w) \/ StartJob(w)
    \/ ExecuteReturns(w) \/ ExecuteRaises(w)
    \/ RecordFailure(w) \/ CountRetry(w) \/ CountFailed(w)
    \/ RequeueJob(w) \/ CompleteJob(w) \/ ReleaseLock(w)

WorkerFault(w) ==
    \/ PollLosesMessage(w) \/ PollRaises(w) \/ AcquireFails(w) \/ RequeueFails(w)
    \/ SessionFails(w) \/ ReleaseFails(w)
    \/ Crash(w) \/ Restart(w)

Next == \/ \E j \in Jobs : Api(j) \/ LockExpires(j)
        \/ \E w \in Workers : WorkerStep(w) \/ WorkerFault(w)

Spec == Init /\ [][Next]_vars

\* A running worker keeps running: every await of process_job is bounded (HTTP
\* and Redis timeouts, a sleep of at most ten seconds); a POST that has
\* committed its row goes on to RPUSH; Redis expires keys.  No client has to
\* send a request, nothing has to fail, and nobody has to restart a worker:
\* docker-compose.yml has no restart policy.
Fairness ==
    /\ \A w \in Workers : WF_vars(WorkerStep(w))
    /\ \A j \in Jobs : WF_vars(EnqueueJob(j)) /\ WF_vars(LockExpires(j))

FairSpec == Spec /\ Fairness

-----------------------------------------------------------------------------
(* Properties.                                                             *)

\* The list holds no job twice.
NoDuplicates == \A i, k \in 1..Len(queue) : queue[i] = queue[k] => i = k

\* A job has one message: in the list, or with one worker that has not dealt
\* with it, or not pushed yet.  The pop, the drop on a busy lock, the retry
\* push and every error path of job_worker.py preserve it, as long as the
\* Redis client does not re-send a push.
OneMessage ==
    /\ NoDuplicates
    /\ \A w \in Workers : pc[w] \in Carrying => ~InQueue(cur[w])
    /\ \A v, w \in Workers :
          pc[v] \in Carrying /\ pc[w] \in Carrying /\ cur[v] = cur[w] => v = w
    /\ \A j \in Jobs : api[j] \in {"new", "created"} =>
          ~InQueue(j) /\ \A w \in Workers : cur[w] # j

\* What the lock is for: no two workers are between marking a row RUNNING and
\* recording how its execution ended.
ExclusiveExecution ==
    \A v, w \in Workers :
        /\ pc[v] \in {"executing", "failing", "finishing"}
        /\ pc[w] \in {"executing", "failing", "finishing"}
        /\ cur[v] = cur[w]
        => v = w

\* README "retries failed jobs up to three attempts": retry_count never passes
\* MAX_RETRIES, a job that can still run has attempts left, and FAILED means
\* that all of them were used.
RetryBudget ==
    \A j \in Jobs :
        /\ job[j].retry <= MaxRetries
        /\ job[j].status \in {"queued", "running"} => job[j].retry < MaxRetries
        /\ job[j].status = "failed" => job[j].retry = MaxRetries

\* Where a job's message is says what its row says: waiting, with an attempt
\* left, while the message is in the list, popped or about to be pushed again;
\* RUNNING, with the current attempt not counted yet, while a worker executes
\* it; FAILED when it is given up.  RetryBudget, TerminalFinal and LifecycleSpec rest on this.
Waiting(j) == job[j].status = "queued" /\ job[j].retry < MaxRetries
Active(j)  == job[j].status = "running" /\ job[j].retry < MaxRetries

MessageState ==
    /\ \A j \in Jobs :
          /\ InQueue(j) => Waiting(j)
          /\ api[j] = "new" => job[j] = Lifecycle!NoRow
          /\ api[j] = "created" => Waiting(j)
    /\ \A w \in Workers :
          /\ pc[w] \in {"popped", "locked", "retrying", "backoff"} => Waiting(cur[w])
          /\ pc[w] \in {"executing", "failing", "finishing"} => Active(cur[w])
          /\ pc[w] \in {"givingUp", "exhausted"} => job[cur[w]].status = "failed"

\* The row never shows the leftovers of another attempt as its outcome: a
\* result if and only if COMPLETED, no error once COMPLETED, an error when
\* FAILED or when an attempt has been counted.
RowConsistent ==
    \A j \in Jobs :
        /\ job[j].result <=> job[j].status = "completed"
        /\ job[j].status = "completed" => ~job[j].error
        /\ job[j].status = "failed" => job[j].error
        /\ job[j].status \in {"queued", "running"} =>
              (job[j].error <=> job[j].retry > 0)

\* The counters of metrics.py never say more than the table: no failure and no
\* end of a job is counted twice, JOB_FAILED only counts FAILED rows and
\* JOB_COMPLETED, which is counted first, misses no COMPLETED row.  JOB_FAILED
\* may miss a FAILED row: its worker may end between the commit and the count.
MetersBounded ==
    \A j \in Jobs :
        /\ meter[j].retries <= job[j].retry
        /\ meter[j].failed <= 1
        /\ meter[j].failed = 1 => job[j].status = "failed"
        /\ meter[j].completed <= 1
        /\ job[j].status = "completed" => meter[j].completed = 1

\* COMPLETED and FAILED are final: no later step of any worker touches the row.
TerminalFinal ==
    [][\A j \in Jobs : job[j].status \in {"completed", "failed"} =>
          job'[j] = job[j]]_vars

\* A stored result is final even when messages are duplicated.
CompletedFinal ==
    [][\A j \in Jobs : job[j].status = "completed" => job'[j] = job[j]]_vars

\* A worker only ever deletes the lock it set: while a worker is between SET
\* NX and DELETE the key exists, and no other worker is there too.
LockOwned ==
    /\ \A w \in Workers : pc[w] \in Holding => cur[w] \in locked
    /\ \A v, w \in Workers :
          pc[v] \in Holding /\ pc[w] \in Holding /\ cur[v] = cur[w] => v = w

\* The implementation of the observable life of a row.
LifecycleSpec == Lifecycle!Spec

\* README "retries failed jobs up to three attempts": an accepted job ends
\* COMPLETED or FAILED.
JobsFinish ==
    \A j \in Jobs :
        api[j] = "accepted" ~> job[j].status \in {"completed", "failed"}

\* No lock is held for ever, whatever happened to the worker that set it.
LocksFreed == \A j \in Jobs : j \in locked ~> j \notin locked

=============================================================================
