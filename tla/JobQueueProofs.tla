--------------------------- MODULE JobQueueProofs ---------------------------
(***************************************************************************)
(* Theorems about JobQueue, for any sets of jobs and workers, any          *)
(* MAX_RETRIES and any combination of the switches the hypotheses do not   *)
(* name.                                                                   *)
(***************************************************************************)
EXTENDS JobQueue, TLAPS

LEMMA Constants == MaxRetries \in Nat \ {0} /\ NoJob \notin Jobs
BY JobQueueAssumption DEF JobQueueAssumption

-----------------------------------------------------------------------------
(* The list jobs:prediction.                                               *)

LEMMA PushType ==
    ASSUME queue \in Seq(Jobs), NEW j \in Jobs, PushRaises(j) \/ Push(j)
    PROVE  queue' \in Seq(Jobs)
BY DEF Push, PushRaises

LEMMA PopType ==
    ASSUME queue \in Seq(Jobs), queue # <<>>
    PROVE  /\ Head(queue) \in Jobs
           /\ Tail(queue) \in Seq(Jobs)
           /\ Len(queue) \in Nat \ {0}
           /\ Len(Tail(queue)) = Len(queue) - 1
           /\ \A i \in 1..Len(Tail(queue)) : Tail(queue)[i] = queue[i + 1]
           /\ Head(queue) = queue[1]
OBVIOUS

-----------------------------------------------------------------------------
(* Types.                                                                  *)

LEMMA RowOps ==
    ASSUME NEW row \in Lifecycle!Row
    PROVE  /\ Lifecycle!NewRow \in Lifecycle!Row
           /\ Lifecycle!NoRow \in Lifecycle!Row
           /\ Lifecycle!Started(row) \in Lifecycle!Row
           /\ Lifecycle!AfterFailure(row) \in Lifecycle!Row
           /\ Lifecycle!AfterSuccess(row) \in Lifecycle!Row
<1> USE DEF Lifecycle!Row
<1>1. Lifecycle!NoRow \in Lifecycle!Row
  BY DEF Lifecycle!NoRow
<1>2. Lifecycle!NewRow \in Lifecycle!Row
  BY <1>1 DEF Lifecycle!NewRow
<1>3. Lifecycle!Started(row) \in Lifecycle!Row
  BY DEF Lifecycle!Started
<1>4. Lifecycle!AfterFailure(row) \in Lifecycle!Row
  <2>1. row.retry + 1 \in Nat
    OBVIOUS
  <2>2. [row EXCEPT !.retry = @ + 1] \in Lifecycle!Row
    BY <2>1
  <2> QED BY <2>1, Zenon DEF Lifecycle!AfterFailure
<1>5. Lifecycle!AfterSuccess(row) \in Lifecycle!Row
  BY DEF Lifecycle!AfterSuccess
<1> QED BY <1>1, <1>2, <1>3, <1>4, <1>5

LEMMA MeterOps ==
    ASSUME NEW m \in Meter
    PROVE  /\ [m EXCEPT !.completed = @ + 1] \in Meter
           /\ [m EXCEPT !.retries = @ + 1] \in Meter
           /\ [m EXCEPT !.failed = @ + 1] \in Meter
<1>1. m.completed + 1 \in Nat /\ m.retries + 1 \in Nat /\ m.failed + 1 \in Nat
  BY DEF Meter
<1> QED BY <1>1, Zenon DEF Meter

LEMMA InitType == Init => TypeOK
BY Constants
   DEF Init, TypeOK, Lifecycle!Init, Lifecycle!Row, Lifecycle!NoRow, PCs, Meter

\* The row a failing session may have committed.
LEMMA CommittedType ==
    ASSUME TypeOK, NEW w \in Workers, cur[w] \in Jobs
    PROVE  Committed(w) \in Lifecycle!Row
<1>1. job[cur[w]] \in Lifecycle!Row
  BY DEF TypeOK
<1> QED BY <1>1, RowOps DEF Committed

\* A worker past its BLPOP has a message.
LEMMA CurIsJob ==
    ASSUME TypeOK, NEW w \in Workers, pc[w] \notin {"idle", "down"}
    PROVE  cur[w] \in Jobs
BY DEF TypeOK

LEMMA StepType == TypeOK /\ [Next]_vars => TypeOK'
<1> SUFFICES ASSUME TypeOK, [Next]_vars PROVE TypeOK'
    OBVIOUS
<1> USE Constants
<1>1. ASSUME NEW j \in Jobs, Api(j) \/ LockExpires(j) PROVE TypeOK'
  <2>1. CASE CreateJob(j)
    BY <2>1, RowOps DEF CreateJob, TypeOK
  <2>2. CASE EnqueueJob(j) \/ EnqueueFails(j)
    BY <2>2, PushType DEF EnqueueJob, EnqueueFails, TypeOK
  <2>3. CASE LockExpires(j)
    BY <2>3 DEF LockExpires, TypeOK
  <2> QED BY <1>1, <2>1, <2>2, <2>3 DEF Api
<1>2. ASSUME NEW w \in Workers, WorkerStep(w) PROVE TypeOK'
  <2>1. CASE Poll(w)
    BY <2>1, PopType DEF Poll, TypeOK, PCs
  <2>2. CASE PollTimesOut(w)
    BY <2>2 DEF PollTimesOut, TypeOK, vars
  <2>3. CASE AcquireLock(w) \/ LockBusy(w)
    <3>1. cur[w] \in Jobs
      BY <2>3, CurIsJob DEF AcquireLock, LockBusy
    <3>2. CASE AcquireLock(w)
      BY <3>1, <3>2 DEF AcquireLock, Goto, TypeOK, PCs
    <3>3. CASE LockBusy(w)
      BY <3>3 DEF LockBusy, Drop, TypeOK, PCs
    <3> QED BY <2>3, <3>2, <3>3
  <2>4. CASE SkipCompleted(w)
    BY <2>4 DEF SkipCompleted, Goto, TypeOK, PCs
  <2>5. CASE StartJob(w)
    BY <2>5, CurIsJob, RowOps DEF StartJob, Goto, TypeOK, PCs
  <2>6. CASE ExecuteReturns(w)
    <3>1. cur[w] \in Jobs
      BY <2>6, CurIsJob DEF ExecuteReturns
    <3>2. meter' \in [Jobs -> Meter]
      BY <2>6, <3>1, MeterOps DEF ExecuteReturns, TypeOK
    <3> QED BY <2>6, <3>2 DEF ExecuteReturns, Goto, TypeOK, PCs
  <2>7. CASE ExecuteRaises(w)
    BY <2>7 DEF ExecuteRaises, Goto, TypeOK, PCs
  <2>8. CASE RecordFailure(w)
    <3>1. cur[w] \in Jobs
      BY <2>8, CurIsJob DEF RecordFailure
    <3>2. job' \in [Jobs -> Lifecycle!Row]
      BY <2>8, <3>1, RowOps DEF RecordFailure, TypeOK
    <3> QED BY <2>8, <3>1, <3>2 DEF RecordFailure, Goto, TypeOK, PCs
  <2>9. CASE RequeueJob(w)
    BY <2>9, CurIsJob, PushType DEF RequeueJob, Goto, TypeOK, PCs
  <2>10. CASE CompleteJob(w)
    BY <2>10, CurIsJob, RowOps DEF CompleteJob, Goto, TypeOK, PCs
  <2>11. CASE ReleaseLock(w)
    BY <2>11 DEF ReleaseLock, Drop, TypeOK, PCs
  <2>12. CASE CountRetry(w) \/ CountFailed(w)
    <3>1. cur[w] \in Jobs /\ meter[cur[w]] \in Meter
      BY <2>12, CurIsJob DEF CountRetry, CountFailed, TypeOK
    <3>2. meter' \in [Jobs -> Meter]
      BY <2>12, <3>1, MeterOps DEF CountRetry, CountFailed, TypeOK
    <3> QED BY <2>12, <3>2 DEF CountRetry, CountFailed, Goto, TypeOK, PCs
  <2> QED BY <1>2, <2>1, <2>2, <2>3, <2>4, <2>5, <2>6, <2>7, <2>8, <2>9,
             <2>10, <2>11, <2>12 DEF WorkerStep
<1>3. ASSUME NEW w \in Workers, WorkerFault(w) PROVE TypeOK'
  <2>1. CASE PollLosesMessage(w)
    BY <2>1, PopType DEF PollLosesMessage, Goto, TypeOK, PCs
  <2>2. CASE AcquireFails(w)
    BY <2>2, CurIsJob DEF AcquireFails, Drop, TypeOK, PCs
  <2>3. CASE RequeueFails(w)
    BY <2>3, CurIsJob, PushType DEF RequeueFails, Goto, TypeOK, PCs
  <2>4. CASE SessionFails(w)
    <3>1. cur[w] \in Jobs
      BY <2>4, CurIsJob DEF SessionFails
    <3>2. job' \in [Jobs -> Lifecycle!Row]
      BY <2>4, <3>1, CommittedType DEF SessionFails, TypeOK
    <3> QED BY <2>4, <3>2 DEF SessionFails, Goto, TypeOK, PCs
  <2>5. CASE ReleaseFails(w)
    BY <2>5 DEF ReleaseFails, Drop, TypeOK, PCs
  <2>6. CASE PollRaises(w) \/ Crash(w) \/ Restart(w)
    BY <2>6 DEF PollRaises, Crash, Restart, Goto, Drop, TypeOK, PCs
  <2> QED BY <1>3, <2>1, <2>2, <2>3, <2>4, <2>5, <2>6 DEF WorkerFault
<1>4. CASE UNCHANGED vars
  BY <1>4 DEF vars, TypeOK
<1> QED BY <1>1, <1>2, <1>3, <1>4 DEF Next

\* Every reachable state of the job table, the list, the locks and the workers
\* has its type.
THEOREM TypeCorrect == Spec => []TypeOK
<1>1. Init => TypeOK
  BY InitType
<1>2. TypeOK /\ [Next]_vars => TypeOK'
  BY StepType
<1> QED BY <1>1, <1>2, PTL DEF Spec

-----------------------------------------------------------------------------
(* One message per job, when no push is duplicated.                        *)

LEMMA PopMessages ==
    ASSUME queue \in Seq(Jobs), queue # <<>>, queue' = Tail(queue), NoDuplicates
    PROVE  /\ NoDuplicates'
           /\ InQueue(Head(queue))
           /\ \A j : InQueue(j)' <=> InQueue(j) /\ j # Head(queue)
<1> USE PopType
<1>1. NoDuplicates'
  BY DEF NoDuplicates
<1>2. InQueue(Head(queue))
  BY DEF InQueue
<1>3. ASSUME NEW j, InQueue(j)'
      PROVE  InQueue(j) /\ j # Head(queue)
  <2>1. PICK i \in 1..Len(Tail(queue)) : Tail(queue)[i] = j
    BY <1>3 DEF InQueue
  <2>2. i + 1 \in 1..Len(queue) /\ queue[i + 1] = j
    BY <2>1
  <2> QED BY <2>2 DEF InQueue, NoDuplicates
<1>4. ASSUME NEW j, InQueue(j), j # Head(queue)
      PROVE  InQueue(j)'
  <2>1. PICK i \in 1..Len(queue) : queue[i] = j
    BY <1>4 DEF InQueue
  <2>2. i - 1 \in 1..Len(Tail(queue)) /\ Tail(queue)[i - 1] = j
    BY <1>4, <2>1
  <2> QED BY <2>2 DEF InQueue
<1> QED BY <1>1, <1>2, <1>3, <1>4

LEMMA PushMessages ==
    ASSUME queue \in Seq(Jobs), NEW j \in Jobs, ~Redelivery, Push(j),
           NoDuplicates, ~InQueue(j)
    PROVE  /\ NoDuplicates'
           /\ \A k : InQueue(k)' <=> InQueue(k) \/ k = j
<1>1. queue' = Append(queue, j) /\ Len(queue') = Len(queue) + 1
      /\ Len(queue) \in Nat
      /\ queue'[Len(queue) + 1] = j
      /\ \A i \in 1..Len(queue) : queue'[i] = queue[i]
  BY DEF Push
<1>2. NoDuplicates'
  BY <1>1 DEF NoDuplicates, InQueue
<1>3. ASSUME NEW k PROVE InQueue(k)' <=> InQueue(k) \/ k = j
  BY <1>1 DEF InQueue
<1> QED BY <1>2, <1>3

LEMMA SameMessages ==
    ASSUME UNCHANGED queue
    PROVE  /\ NoDuplicates' <=> NoDuplicates
           /\ \A j : InQueue(j)' <=> InQueue(j)
BY DEF NoDuplicates, InQueue

LEMMA RowStatus ==
    ASSUME NEW row \in Lifecycle!Row
    PROVE  /\ Lifecycle!NoRow.status = "absent" /\ Lifecycle!NoRow.retry = 0
           /\ Lifecycle!NewRow.status = "queued" /\ Lifecycle!NewRow.retry = 0
           /\ Lifecycle!Started(row).status = "running"
           /\ Lifecycle!Started(row).retry = row.retry
           /\ Lifecycle!AfterFailure(row).status =
                 IF row.retry + 1 < MaxRetries THEN "queued" ELSE "failed"
           /\ Lifecycle!AfterFailure(row).retry = row.retry + 1
           /\ Lifecycle!AfterSuccess(row).status = "completed"
           /\ Lifecycle!AfterSuccess(row).retry = row.retry
           /\ row.retry \in Nat
BY DEF Lifecycle!Row, Lifecycle!NoRow, Lifecycle!NewRow, Lifecycle!Started,
       Lifecycle!AfterFailure, Lifecycle!AfterSuccess

\* The inductive invariant behind every theorem that assumes no duplicated push.
MsgInv == TypeOK /\ OneMessage /\ MessageState /\ RetryBudget

LEMMA InitMsg == Init => MsgInv
<1> SUFFICES ASSUME Init PROVE MsgInv
    OBVIOUS
<1>1. \A j : ~InQueue(j)
  <2>1. Len(queue) = 0
    BY DEF Init
  <2> QED BY <2>1 DEF InQueue
<1>2. \A j \in Jobs : job[j] = Lifecycle!NoRow /\ api[j] = "new"
  BY DEF Init, Lifecycle!Init
<1>3. \A w \in Workers : pc[w] = "idle" /\ cur[w] = NoJob
  BY DEF Init
<1>4. NoDuplicates
  BY DEF Init, NoDuplicates
<1>5. OneMessage
  BY <1>1, <1>3, <1>4, Constants DEF OneMessage, Carrying
<1>6. MessageState
  BY <1>1, <1>2, <1>3 DEF MessageState
<1>7. Lifecycle!NoRow.status = "absent" /\ Lifecycle!NoRow.retry = 0
  BY DEF Lifecycle!NoRow
<1>8. RetryBudget
  <2>1. \A j \in Jobs : job[j].status = "absent" /\ job[j].retry = 0
    BY <1>2, <1>7
  <2>2. 0 <= MaxRetries
    BY Constants
  <2> QED BY <2>1, <2>2 DEF RetryBudget
<1> QED BY <1>5, <1>6, <1>8, InitType DEF MsgInv

\* A step that moves no message, changes no row and takes one worker to a point
\* where it carries its message as before, or carries none.
LEMMA QuietStep ==
    ASSUME MsgInv, NEW w \in Workers,
           UNCHANGED <<job, api, queue>>,
           \A v \in Workers \ {w} : pc'[v] = pc[v] /\ cur'[v] = cur[v],
           \/ pc'[w] \notin Carrying /\ cur'[w] \in {cur[w], NoJob}
           \/ /\ pc[w] \in Carrying
              /\ cur'[w] = cur[w]
              /\ \/ {pc[w], pc'[w]} \subseteq {"popped", "locked", "retrying", "backoff"}
                 \/ {pc[w], pc'[w]} \subseteq {"executing", "failing", "finishing"}
                 \/ {pc[w], pc'[w]} \subseteq {"givingUp", "exhausted"}
    PROVE  OneMessage' /\ MessageState' /\ RetryBudget'
<1> USE SameMessages DEF MsgInv
<1>1. OneMessage'
  BY Constants DEF OneMessage, Carrying
<1>2. MessageState'
  BY DEF MessageState, Waiting, Active, Carrying
<1>3. RetryBudget'
  BY DEF RetryBudget
<1> QED BY <1>1, <1>2, <1>3

\* A step of the worker that carries a job's message: it changes that row only,
\* and the message goes where the row's new status says.
LEMMA RowStep ==
    ASSUME MsgInv, NEW w \in Workers, NEW row, NEW label,
           pc[w] \in Carrying,
           job' = [job EXCEPT ![cur[w]] = row],
           pc' = [pc EXCEPT ![w] = label],
           UNCHANGED <<api, queue, cur>>,
           row.retry \in Nat,
           row.retry <= MaxRetries,
           row.status \in {"queued", "running"} => row.retry < MaxRetries,
           row.status = "failed" => row.retry = MaxRetries,
           \/ label = "executing" /\ row.status = "running"
           \/ label = "retrying" /\ row.status = "queued"
           \/ label = "givingUp" /\ row.status = "failed"
           \/ label = "releasing"
    PROVE  OneMessage' /\ MessageState' /\ RetryBudget'
<1> DEFINE j == cur[w]
<1> USE SameMessages DEF MsgInv
<1>1. /\ j \in Jobs
      /\ ~InQueue(j)
      /\ api[j] \notin {"new", "created"}
      /\ \A v \in Workers : pc[v] \in Carrying /\ cur[v] = j => v = w
  BY CurIsJob DEF OneMessage, Carrying
<1>2. /\ job'[j] = row
      /\ \A k \in Jobs \ {j} : job'[k] = job[k]
  BY <1>1 DEF TypeOK
<1>3. /\ pc'[w] = label
      /\ \A v \in Workers \ {w} : pc'[v] = pc[v]
  BY DEF TypeOK
<1>4. OneMessage'
  BY <1>3 DEF OneMessage, Carrying
<1>5. MessageState'
  <2>1. ASSUME NEW k \in Jobs
        PROVE  /\ InQueue(k)' => Waiting(k)'
               /\ api'[k] = "new" => job'[k] = Lifecycle!NoRow
               /\ api'[k] = "created" => Waiting(k)'
    <3>1. CASE k = j
      BY <1>1, <3>1
    <3>2. CASE k # j
      BY <1>2, <3>2 DEF MessageState, Waiting
    <3> QED BY <3>1, <3>2
  <2>2. ASSUME NEW v \in Workers
        PROVE  /\ pc'[v] \in {"popped", "locked", "retrying", "backoff"} => Waiting(cur[v])'
               /\ pc'[v] \in {"executing", "failing", "finishing"} => Active(cur[v])'
               /\ pc'[v] \in {"givingUp", "exhausted"} => job'[cur'[v]].status = "failed"
    <3>1. CASE v = w
      BY <1>2, <1>3, <3>1 DEF Waiting, Active
    <3>2. CASE v # w
      BY <1>1, <1>2, <1>3, <3>2, CurIsJob
         DEF MessageState, Waiting, Active, Carrying
    <3> QED BY <3>1, <3>2
  <2> QED BY <2>1, <2>2 DEF MessageState
<1>6. RetryBudget'
  BY <1>1, <1>2 DEF RetryBudget
<1> QED BY <1>4, <1>5, <1>6

\* The message of a job nobody carries is pushed, or not.
LEMMA PushStep ==
    ASSUME MsgInv, ~Redelivery, NEW j \in Jobs, ~InQueue(j), Waiting(j),
           PushRaises(j), UNCHANGED job,
           \A k \in Jobs : api'[k] \in {"new", "created"} =>
              api'[k] = api[k] /\ k # j,
           \A w \in Workers :
              \/ pc'[w] = pc[w] /\ cur'[w] = cur[w] /\ cur[w] # j
              \/ pc'[w] \notin Carrying /\ cur'[w] = cur[w]
              \/ pc[w] \in Carrying /\ cur[w] # j
                    /\ pc'[w] = pc[w] /\ cur'[w] = cur[w]
    PROVE  OneMessage' /\ MessageState' /\ RetryBudget'
<1> USE DEF MsgInv
<1>1. /\ NoDuplicates'
      /\ \A k : InQueue(k)' => InQueue(k) \/ k = j
  BY PushMessages, SameMessages DEF PushRaises, TypeOK, OneMessage
<1>2. \A w \in Workers :
         pc'[w] \in Carrying => pc[w] = pc'[w] /\ cur[w] = cur'[w] /\ cur[w] # j
  OBVIOUS
<1>3. \A w \in Workers : cur'[w] = cur[w]
  OBVIOUS
<1>4. OneMessage'
  BY <1>1, <1>2, <1>3 DEF OneMessage
<1>5. MessageState'
  BY <1>1, <1>2, <1>3 DEF MessageState, Waiting, Active, Carrying
<1>6. RetryBudget'
  BY DEF RetryBudget
<1> QED BY <1>4, <1>5, <1>6

\* BLPOP takes a message away, for worker w or for nobody.
LEMMA PopStep ==
    ASSUME MsgInv, NEW w \in Workers, pc[w] = "idle",
           queue # <<>>, queue' = Tail(queue), UNCHANGED <<job, api>>,
           \A v \in Workers \ {w} : pc'[v] = pc[v] /\ cur'[v] = cur[v],
           \/ pc'[w] = "popped" /\ cur'[w] = Head(queue)
           \/ pc'[w] \in {"idle", "down"} /\ cur'[w] = cur[w]
    PROVE  OneMessage' /\ MessageState' /\ RetryBudget'
<1> USE DEF MsgInv
<1>1. /\ NoDuplicates'
      /\ InQueue(Head(queue))
      /\ \A j : InQueue(j)' <=> InQueue(j) /\ j # Head(queue)
      /\ Head(queue) \in Jobs
  BY PopMessages, PopType DEF TypeOK, OneMessage
<1>2. OneMessage'
  BY <1>1 DEF OneMessage, Carrying
<1>3. MessageState'
  BY <1>1 DEF MessageState, Waiting, Active
<1>4. RetryBudget'
  BY DEF RetryBudget
<1> QED BY <1>2, <1>3, <1>4

LEMMA CreateStep ==
    ASSUME MsgInv, NEW j \in Jobs, CreateJob(j)
    PROVE  OneMessage' /\ MessageState' /\ RetryBudget'
<1> USE SameMessages, Constants DEF MsgInv, CreateJob
<1>1. ~InQueue(j) /\ \A w \in Workers : cur[w] # j
  BY DEF OneMessage
<1>2. /\ job'[j].status = "queued" /\ job'[j].retry = 0
      /\ api'[j] = "created"
      /\ \A k \in Jobs \ {j} : job'[k] = job[k] /\ api'[k] = api[k]
  BY DEF TypeOK, Lifecycle!NewRow, Lifecycle!NoRow
<1>3. OneMessage'
  BY <1>1, <1>2 DEF OneMessage
<1>4. MessageState'
  <2>1. ASSUME NEW k \in Jobs
        PROVE  /\ InQueue(k)' => Waiting(k)'
               /\ api'[k] = "new" => job'[k] = Lifecycle!NoRow
               /\ api'[k] = "created" => Waiting(k)'
    BY <1>1, <1>2 DEF MessageState, Waiting
  <2>2. ASSUME NEW w \in Workers
        PROVE  /\ pc[w] \in {"popped", "locked", "retrying", "backoff"} => Waiting(cur[w])'
               /\ pc[w] \in {"executing", "failing", "finishing"} => Active(cur[w])'
               /\ pc[w] \in {"givingUp", "exhausted"} => job'[cur[w]].status = "failed"
    BY <1>1, <1>2, CurIsJob DEF MessageState, Waiting, Active
  <2> QED BY <2>1, <2>2 DEF MessageState
<1>5. RetryBudget'
  BY <1>2 DEF RetryBudget
<1> QED BY <1>3, <1>4, <1>5

\* The budget of the row a failing session may have committed.
LEMMA CommittedRow ==
    ASSUME MsgInv, NEW w \in Workers, pc[w] \in {"locked", "failing", "finishing"}
    PROVE  LET row == Committed(w)
           IN  /\ cur[w] \in Jobs
               /\ row.retry \in Nat /\ row.retry <= MaxRetries
               /\ row.status \in {"queued", "running"} => row.retry < MaxRetries
               /\ row.status = "failed" => row.retry = MaxRetries
<1>1. /\ cur[w] \in Jobs /\ job[cur[w]] \in Lifecycle!Row
      /\ job[cur[w]].retry < MaxRetries /\ job[cur[w]].retry \in Nat
      /\ pc[w] = "locked" => Waiting(cur[w])
  BY CurIsJob, RowStatus DEF MsgInv, TypeOK, MessageState, Waiting, Active
<1>2. CASE pc[w] = "locked"
  <2>1. Committed(w) = Lifecycle!Started(job[cur[w]])
    BY <1>1, <1>2 DEF Committed, Waiting
  <2> QED BY <1>1, <2>1, RowStatus, Constants
<1>3. CASE pc[w] = "failing"
  <2>1. Committed(w) = Lifecycle!AfterFailure(job[cur[w]])
    BY <1>3 DEF Committed
  <2> QED BY <1>1, <2>1, RowStatus, Constants
<1>4. CASE pc[w] = "finishing"
  <2>1. Committed(w) = Lifecycle!AfterSuccess(job[cur[w]])
    BY <1>4 DEF Committed
  <2> QED BY <1>1, <2>1, RowStatus, Constants
<1> QED BY <1>2, <1>3, <1>4

LEMMA StepMsg ==
    ASSUME ~Redelivery
    PROVE  MsgInv /\ [Next]_vars => MsgInv'
<1> SUFFICES ASSUME MsgInv, [Next]_vars
             PROVE  OneMessage' /\ MessageState' /\ RetryBudget'
  BY StepType DEF MsgInv
<1> USE DEF MsgInv
<1>1. ASSUME NEW j \in Jobs, Api(j) \/ LockExpires(j)
      PROVE  OneMessage' /\ MessageState' /\ RetryBudget'
  <2>1. CASE CreateJob(j)
    BY <2>1, CreateStep
  <2>2. CASE EnqueueJob(j) \/ EnqueueFails(j)
    <3>1. /\ ~InQueue(j) /\ Waiting(j)
          /\ \A w \in Workers : cur[w] # j
      BY <2>2 DEF EnqueueJob, EnqueueFails, OneMessage, MessageState
    <3>2. PushRaises(j)
      BY <2>2 DEF EnqueueJob, EnqueueFails, PushRaises
    <3>3. /\ UNCHANGED <<job, pc, cur>>
          /\ \A k \in Jobs : api'[k] \in {"new", "created"} =>
                api'[k] = api[k] /\ k # j
      BY <2>2 DEF EnqueueJob, EnqueueFails, TypeOK
    <3> QED BY <3>1, <3>2, <3>3, PushStep
  <2>3. CASE LockExpires(j)
    BY <2>3, SameMessages
       DEF LockExpires, OneMessage, MessageState, RetryBudget, Waiting, Active
  <2> QED BY <1>1, <2>1, <2>2, <2>3 DEF Api
<1>2. ASSUME NEW w \in Workers, WorkerStep(w)
      PROVE  OneMessage' /\ MessageState' /\ RetryBudget'
  <2>1. CASE Poll(w)
    BY <2>1, PopStep DEF Poll, TypeOK
  <2>2. CASE PollTimesOut(w)
    BY <2>2, SameMessages
       DEF PollTimesOut, vars, OneMessage, MessageState, RetryBudget, Waiting, Active
  <2>3. CASE AcquireLock(w) \/ LockBusy(w)
    BY <2>3, QuietStep DEF AcquireLock, LockBusy, Goto, Drop, TypeOK, Carrying
  <2>4. CASE SkipCompleted(w)
    BY <2>4, QuietStep DEF SkipCompleted, Goto, TypeOK, Carrying
  <2>5. CASE StartJob(w)
    <3>1. /\ cur[w] \in Jobs /\ job[cur[w]] \in Lifecycle!Row
          /\ Waiting(cur[w])
      BY <2>5, CurIsJob DEF StartJob, TypeOK, MessageState
    <3> DEFINE row == Lifecycle!Started(job[cur[w]])
    <3> HIDE DEF row
    <3>2. row.status = "running" /\ row.retry \in Nat /\ row.retry < MaxRetries
      BY <3>1, RowStatus, Constants DEF Waiting, row
    <3>3. /\ pc[w] \in Carrying
          /\ job' = [job EXCEPT ![cur[w]] = row]
          /\ UNCHANGED <<api, queue, cur>>
      BY <2>5 DEF StartJob, Goto, Carrying, row
    <3>4. row.retry <= MaxRetries
      BY <3>2, Constants
    <3> QED BY <2>5, <3>1, <3>2, <3>3, <3>4, RowStep DEF StartJob, Goto
  <2>6. CASE ExecuteReturns(w) \/ ExecuteRaises(w)
    BY <2>6, QuietStep DEF ExecuteReturns, ExecuteRaises, Goto, TypeOK, Carrying
  <2>7. CASE RecordFailure(w)
    <3>1. /\ cur[w] \in Jobs /\ job[cur[w]] \in Lifecycle!Row
          /\ Active(cur[w])
      BY <2>7, CurIsJob DEF RecordFailure, TypeOK, MessageState
    <3> DEFINE row == Lifecycle!AfterFailure(job[cur[w]])
    <3> HIDE DEF row
    <3>2. /\ row.retry \in Nat /\ row.retry <= MaxRetries
          /\ row.retry = job[cur[w]].retry + 1
          /\ IF row.retry < MaxRetries THEN row.status = "queued"
             ELSE row.status = "failed" /\ row.retry = MaxRetries
      BY <3>1, RowStatus, Constants DEF Active, row
    <3>3. /\ pc[w] \in Carrying
          /\ job' = [job EXCEPT ![cur[w]] = row]
          /\ UNCHANGED <<api, queue, cur>>
      BY <2>7 DEF RecordFailure, Goto, Carrying, row
    <3> QED BY <2>7, <3>1, <3>2, <3>3, RowStep DEF RecordFailure, Goto
  <2>8. CASE RequeueJob(w)
    <3>1. /\ cur[w] \in Jobs /\ ~InQueue(cur[w]) /\ Waiting(cur[w])
          /\ api[cur[w]] \notin {"new", "created"}
          /\ \A v \in Workers \ {w} : pc[v] \in Carrying => cur[v] # cur[w]
      BY <2>8, CurIsJob DEF RequeueJob, OneMessage, MessageState, Carrying
    <3>2. PushRaises(cur[w])
      BY <2>8 DEF RequeueJob, PushRaises
    <3> QED BY <2>8, <3>1, <3>2, PushStep DEF RequeueJob, Goto, TypeOK, Carrying
  <2>9. CASE CompleteJob(w)
    <3>1. /\ cur[w] \in Jobs /\ job[cur[w]] \in Lifecycle!Row
          /\ Active(cur[w])
      BY <2>9, CurIsJob DEF CompleteJob, TypeOK, MessageState
    <3> DEFINE row == Lifecycle!AfterSuccess(job[cur[w]])
    <3> HIDE DEF row
    <3>2. row.status = "completed" /\ row.retry \in Nat /\ row.retry < MaxRetries
      BY <3>1, RowStatus, Constants DEF Active, row
    <3>3. /\ pc[w] \in Carrying
          /\ job' = [job EXCEPT ![cur[w]] = row]
          /\ UNCHANGED <<api, queue, cur>>
      BY <2>9 DEF CompleteJob, Goto, Carrying, row
    <3>4. row.retry <= MaxRetries
      BY <3>2, Constants
    <3> QED BY <2>9, <3>1, <3>2, <3>3, <3>4, RowStep DEF CompleteJob, Goto
  <2>10. CASE ReleaseLock(w)
    BY <2>10, QuietStep DEF ReleaseLock, Drop, TypeOK, Carrying
  <2>11. CASE CountRetry(w) \/ CountFailed(w)
    BY <2>11, QuietStep DEF CountRetry, CountFailed, Goto, TypeOK, Carrying
  <2> QED BY <1>2, <2>1, <2>2, <2>3, <2>4, <2>5, <2>6, <2>7, <2>8, <2>9,
             <2>10, <2>11 DEF WorkerStep
<1>3. ASSUME NEW w \in Workers, WorkerFault(w)
      PROVE  OneMessage' /\ MessageState' /\ RetryBudget'
  <2>1. CASE PollLosesMessage(w)
    BY <2>1, PopStep DEF PollLosesMessage, Goto, TypeOK
  <2>2. CASE AcquireFails(w)
    BY <2>2, QuietStep DEF AcquireFails, Drop, TypeOK, Carrying
  <2>3. CASE RequeueFails(w)
    <3>1. /\ cur[w] \in Jobs /\ ~InQueue(cur[w]) /\ Waiting(cur[w])
          /\ api[cur[w]] \notin {"new", "created"}
          /\ \A v \in Workers \ {w} : pc[v] \in Carrying => cur[v] # cur[w]
      BY <2>3, CurIsJob DEF RequeueFails, OneMessage, MessageState, Carrying
    <3> QED BY <2>3, <3>1, PushStep DEF RequeueFails, Goto, TypeOK, Carrying
  <2>4. CASE SessionFails(w)
    <3>1. CASE UNCHANGED job
      BY <2>4, <3>1, QuietStep DEF SessionFails, Goto, TypeOK, Carrying
    <3>2. CASE job' = [job EXCEPT ![cur[w]] = Committed(w)]
      <4> DEFINE row == Committed(w)
      <4>1. /\ row.retry \in Nat /\ row.retry <= MaxRetries
            /\ row.status \in {"queued", "running"} => row.retry < MaxRetries
            /\ row.status = "failed" => row.retry = MaxRetries
        BY <2>4, CommittedRow DEF SessionFails
      <4>2. pc[w] \in Carrying /\ UNCHANGED <<api, queue, cur>>
            /\ pc' = [pc EXCEPT ![w] = "releasing"]
        BY <2>4 DEF SessionFails, Goto, Carrying
      <4> HIDE DEF row
      <4> QED BY <3>2, <4>1, <4>2, RowStep DEF row
    <3> QED BY <2>4, <3>1, <3>2 DEF SessionFails
  <2>5. CASE ReleaseFails(w)
    BY <2>5, QuietStep DEF ReleaseFails, Drop, TypeOK, Carrying
  <2>6. CASE PollRaises(w) \/ Crash(w) \/ Restart(w)
    BY <2>6, QuietStep DEF PollRaises, Crash, Restart, Goto, Drop, TypeOK, Carrying
  <2> QED BY <1>3, <2>1, <2>2, <2>3, <2>4, <2>5, <2>6 DEF WorkerFault
<1>4. CASE UNCHANGED vars
  BY <1>4, SameMessages
     DEF vars, OneMessage, MessageState, RetryBudget, Waiting, Active
<1> QED BY <1>1, <1>2, <1>3, <1>4 DEF Next

\* As long as no push is duplicated, a job has one message, which is where the
\* row's status says, and the retry budget is kept: whatever crashes, fails, is
\* lost or expires.
THEOREM MessageInvariant ==
    ASSUME ~Redelivery
    PROVE  Spec => []MsgInv
<1>1. Init => MsgInv
  BY InitMsg
<1>2. MsgInv /\ [Next]_vars => MsgInv'
  BY StepMsg
<1> QED BY <1>1, <1>2, PTL DEF Spec

\* The message of a job is never in two places.
THEOREM OneMessageAlways ==
    ASSUME ~Redelivery
    PROVE  Spec => []OneMessage
<1>1. MsgInv => OneMessage
  BY DEF MsgInv
<1> QED BY <1>1, MessageInvariant, PTL

\* MAX_RETRIES bounds the failed attempts of every job, and FAILED means that
\* all of them were made.
THEOREM RetriesBounded ==
    ASSUME ~Redelivery
    PROVE  Spec => []RetryBudget
<1>1. MsgInv => RetryBudget
  BY DEF MsgInv
<1> QED BY <1>1, MessageInvariant, PTL

\* Two workers never execute the same job, even if the lock runs out under a
\* live holder: the single message already excludes it.
THEOREM ExclusiveByMessage ==
    ASSUME ~Redelivery
    PROVE  Spec => []ExclusiveExecution
<1>1. MsgInv => ExclusiveExecution
  BY DEF MsgInv, OneMessage, ExclusiveExecution, Carrying
<1> QED BY <1>1, MessageInvariant, PTL

-----------------------------------------------------------------------------
(* What the rows go through.                                               *)

LEMMA StepLifecycle == MsgInv /\ [Next]_vars => [Lifecycle!Next]_job
<1> SUFFICES ASSUME MsgInv, [Next]_vars, job' # job
             PROVE  Lifecycle!Next
  OBVIOUS
<1> USE DEF MsgInv
<1>1. ASSUME NEW j \in Jobs, CreateJob(j) PROVE Lifecycle!Next
  <2>1. job[j].status = "absent"
    BY <1>1 DEF CreateJob, MessageState, Lifecycle!NoRow
  <2> QED BY <1>1, <2>1 DEF CreateJob, Lifecycle!Next, Lifecycle!Create
<1>2. ASSUME NEW w \in Workers, StartJob(w) PROVE Lifecycle!Next
  <2>1. cur[w] \in Jobs /\ job[cur[w]].status = "queued"
    BY <1>2, CurIsJob DEF StartJob, MessageState, Waiting
  <2> QED BY <1>2, <2>1 DEF StartJob, Lifecycle!Next, Lifecycle!Start
<1>3. ASSUME NEW w \in Workers, RecordFailure(w) PROVE Lifecycle!Next
  <2>1. /\ cur[w] \in Jobs
        /\ job[cur[w]].status = "running" /\ job[cur[w]].retry < MaxRetries
    BY <1>3, CurIsJob DEF RecordFailure, MessageState, Active
  <2> QED BY <1>3, <2>1 DEF RecordFailure, Lifecycle!Next, Lifecycle!Fail
<1>4. ASSUME NEW w \in Workers, CompleteJob(w) PROVE Lifecycle!Next
  <2>1. cur[w] \in Jobs /\ job[cur[w]].status = "running"
    BY <1>4, CurIsJob DEF CompleteJob, MessageState, Active
  <2> QED BY <1>4, <2>1 DEF CompleteJob, Lifecycle!Next, Lifecycle!Complete
<1>5. ASSUME NEW w \in Workers, SessionFails(w) PROVE Lifecycle!Next
  <2>1. /\ cur[w] \in Jobs
        /\ job' = [job EXCEPT ![cur[w]] = Committed(w)]
    BY <1>5, CurIsJob DEF SessionFails
  <2>2. CASE pc[w] = "locked"
    <3>1. job[cur[w]].status = "queued"
      BY <2>2 DEF MessageState, Waiting
    <3>2. job' = [job EXCEPT ![cur[w]] = Lifecycle!Started(job[cur[w]])]
      BY <2>1, <2>2, <3>1 DEF Committed
    <3> QED BY <2>1, <3>1, <3>2 DEF Lifecycle!Next, Lifecycle!Start
  <2>3. CASE pc[w] = "failing"
    <3>1. job[cur[w]].status = "running" /\ job[cur[w]].retry < MaxRetries
      BY <2>3 DEF MessageState, Active
    <3>2. job' = [job EXCEPT ![cur[w]] = Lifecycle!AfterFailure(job[cur[w]])]
      BY <2>1, <2>3 DEF Committed
    <3> QED BY <2>1, <3>1, <3>2 DEF Lifecycle!Next, Lifecycle!Fail
  <2>4. CASE pc[w] = "finishing"
    <3>1. job[cur[w]].status = "running"
      BY <2>4 DEF MessageState, Active
    <3>2. job' = [job EXCEPT ![cur[w]] = Lifecycle!AfterSuccess(job[cur[w]])]
      BY <2>1, <2>4 DEF Committed
    <3> QED BY <2>1, <3>1, <3>2 DEF Lifecycle!Next, Lifecycle!Complete
  <2> QED BY <1>5, <2>2, <2>3, <2>4 DEF SessionFails
<1>6. \/ \E j \in Jobs : CreateJob(j)
      \/ \E w \in Workers : \/ StartJob(w) \/ RecordFailure(w) \/ CompleteJob(w)
                            \/ SessionFails(w)
  BY DEF Next, vars, Api, WorkerStep, WorkerFault, EnqueueJob, EnqueueFails,
         LockExpires, Poll, PollTimesOut, PollLosesMessage, PollRaises, AcquireLock,
         LockBusy, AcquireFails, SkipCompleted, ExecuteReturns, ExecuteRaises,
         CountRetry, CountFailed, RequeueJob, RequeueFails, ReleaseLock,
         ReleaseFails, Crash, Restart
<1> QED BY <1>1, <1>2, <1>3, <1>4, <1>5, <1>6

\* The queue, the locks and the workers implement the observable life of a row.
THEOREM ImplementsLifecycle ==
    ASSUME ~Redelivery
    PROVE  Spec => LifecycleSpec
<1>1. Init => Lifecycle!Init
  BY DEF Init
<1>2. MsgInv /\ [Next]_vars => [Lifecycle!Next]_job
  BY StepLifecycle
<1> QED BY <1>1, <1>2, MessageInvariant, PTL
        DEF Spec, LifecycleSpec, Lifecycle!Spec

\* No step of any worker changes a COMPLETED or FAILED row.
THEOREM TerminalRowsFinal ==
    ASSUME ~Redelivery
    PROVE  Spec => TerminalFinal
<1> DEFINE Final == \A j \in Jobs : job[j].status \in {"completed", "failed"} =>
                       job'[j] = job[j]
<1>1. MsgInv /\ [Next]_vars => [Final]_vars
  <2> SUFFICES ASSUME MsgInv, [Next]_vars PROVE Final
    OBVIOUS
  <2>1. CASE UNCHANGED job
    BY <2>1
  <2>2. CASE Lifecycle!Next
    BY <2>2 DEF Lifecycle!Next, Lifecycle!Create, Lifecycle!Start,
       Lifecycle!Fail, Lifecycle!Complete, MsgInv, TypeOK
  <2> QED BY <2>1, <2>2, StepLifecycle
<1> QED BY <1>1, MessageInvariant, PTL DEF Spec, TerminalFinal

-----------------------------------------------------------------------------
(* The lock, when pushes may be duplicated but no lock runs out under its  *)
(* live holder.                                                            *)

\* A worker between marking a row RUNNING and recording the outcome works on a
\* row that is not COMPLETED.
ActiveRows ==
    \A w \in Workers : pc[w] \in {"executing", "failing", "finishing"} =>
        job[cur[w]].status # "completed"

LockInv == TypeOK /\ LockOwned /\ ActiveRows

\* A step that leaves the rows and the locks alone, and brings nobody between
\* SET NX and DELETE.
LEMMA LockQuietStep ==
    ASSUME LockInv, NEW w \in Workers, UNCHANGED job,
           locked \subseteq locked',
           \A v \in Workers \ {w} : pc'[v] = pc[v] /\ cur'[v] = cur[v],
           pc'[w] \in Holding => pc[w] \in Holding /\ cur'[w] = cur[w],
           pc'[w] \in {"executing", "failing", "finishing"} =>
              pc[w] \in {"executing", "failing", "finishing"}
    PROVE  LockOwned' /\ ActiveRows'
<1> USE DEF LockInv
<1>1. LockOwned'
  BY DEF LockOwned
<1>2. ActiveRows'
  BY DEF ActiveRows, Holding
<1> QED BY <1>1, <1>2

\* The holder of a job's lock writes its row.
LEMMA LockRowStep ==
    ASSUME LockInv, NEW w \in Workers, NEW row, NEW label \in Holding,
           pc[w] \in Holding,
           job' = [job EXCEPT ![cur[w]] = row],
           pc' = [pc EXCEPT ![w] = label],
           UNCHANGED <<locked, cur>>,
           label \in {"executing", "failing", "finishing"} =>
              row.status # "completed"
    PROVE  LockOwned' /\ ActiveRows'
<1> USE DEF LockInv
<1>1. cur[w] \in Jobs
  BY CurIsJob DEF Holding
<1>2. /\ job'[cur[w]] = row
      /\ \A k \in Jobs \ {cur[w]} : job'[k] = job[k]
      /\ pc'[w] = label
      /\ \A v \in Workers \ {w} : pc'[v] = pc[v]
  BY <1>1 DEF TypeOK
<1>3. LockOwned'
  BY <1>2 DEF LockOwned
<1>4. ActiveRows'
  <2>1. ASSUME NEW v \in Workers, pc'[v] \in {"executing", "failing", "finishing"}
        PROVE  job'[cur[v]].status # "completed"
    <3>1. CASE v = w
      BY <1>2, <2>1, <3>1
    <3>2. CASE v # w
      <4>1. pc[v] \in Holding /\ pc[v] \in {"executing", "failing", "finishing"}
        BY <1>2, <2>1, <3>2 DEF Holding
      <4>2. cur[v] \in Jobs /\ cur[v] # cur[w]
        BY <3>2, <4>1, CurIsJob DEF LockOwned, Holding
      <4> QED BY <1>2, <4>1, <4>2 DEF ActiveRows
    <3> QED BY <3>1, <3>2
  <2> QED BY <2>1 DEF ActiveRows
<1> QED BY <1>3, <1>4

LEMMA StepLock ==
    ASSUME ~LapseWhileHeld
    PROVE  LockInv /\ [Next]_vars => LockInv'
<1> SUFFICES ASSUME LockInv, [Next]_vars PROVE LockOwned' /\ ActiveRows'
  BY StepType DEF LockInv
<1> USE DEF LockInv
<1>1. ASSUME NEW j \in Jobs, Api(j) \/ LockExpires(j)
      PROVE  LockOwned' /\ ActiveRows'
  <2>1. CASE CreateJob(j)
    <3>1. \A k \in Jobs : job'[k].status = "completed" => job[k].status = "completed"
      BY <2>1 DEF CreateJob, TypeOK, Lifecycle!NewRow, Lifecycle!NoRow
    <3> QED BY <2>1, <3>1, CurIsJob DEF CreateJob, LockOwned, ActiveRows
  <2>2. CASE EnqueueJob(j) \/ EnqueueFails(j)
    BY <2>2 DEF EnqueueJob, EnqueueFails, LockOwned, ActiveRows
  <2>3. CASE LockExpires(j)
    BY <2>3 DEF LockExpires, LockOwned, ActiveRows
  <2> QED BY <1>1, <2>1, <2>2, <2>3 DEF Api
<1>2. ASSUME NEW w \in Workers, WorkerStep(w)
      PROVE  LockOwned' /\ ActiveRows'
  <2>1. CASE Poll(w)
    BY <2>1, LockQuietStep DEF Poll, TypeOK, Holding
  <2>2. CASE PollTimesOut(w)
    BY <2>2 DEF PollTimesOut, vars, LockOwned, ActiveRows
  <2>3. CASE AcquireLock(w)
    <3>1. /\ pc'[w] = "locked" /\ cur' = cur /\ job' = job
          /\ \A v \in Workers \ {w} : pc'[v] = pc[v]
          /\ cur[w] \notin locked /\ locked' = locked \cup {cur[w]}
      BY <2>3 DEF AcquireLock, Goto, TypeOK
    <3>2. \A v \in Workers \ {w} : pc[v] \in Holding => cur[v] # cur[w]
      BY <3>1 DEF LockOwned
    <3>3. LockOwned'
      BY <3>1, <3>2 DEF LockOwned
    <3>4. ActiveRows'
      BY <3>1 DEF ActiveRows
    <3> QED BY <3>3, <3>4
  <2>4. CASE LockBusy(w)
    BY <2>4, LockQuietStep DEF LockBusy, Drop, TypeOK, Holding
  <2>5. CASE SkipCompleted(w)
    BY <2>5, LockQuietStep DEF SkipCompleted, Goto, TypeOK, Holding
  <2>6. CASE StartJob(w)
    <3>1. Lifecycle!Started(job[cur[w]]).status # "completed"
      BY <2>6, CurIsJob, RowStatus DEF StartJob, TypeOK
    <3> QED BY <2>6, <3>1, LockRowStep DEF StartJob, Goto, Holding
  <2>7. CASE ExecuteReturns(w) \/ ExecuteRaises(w)
    BY <2>7, LockQuietStep DEF ExecuteReturns, ExecuteRaises, Goto, TypeOK, Holding
  <2>8. CASE RecordFailure(w)
    BY <2>8, LockRowStep DEF RecordFailure, Goto, Holding
  <2>9. CASE RequeueJob(w)
    BY <2>9, LockQuietStep DEF RequeueJob, Goto, TypeOK, Holding
  <2>10. CASE CompleteJob(w)
    BY <2>10, LockRowStep DEF CompleteJob, Goto, Holding
  <2>11. CASE ReleaseLock(w)
    <3>1. /\ pc'[w] = "idle" /\ job' = job /\ locked' = locked \ {cur[w]}
          /\ pc[w] \in Holding
          /\ \A v \in Workers \ {w} : pc'[v] = pc[v] /\ cur'[v] = cur[v]
      BY <2>11 DEF ReleaseLock, Drop, TypeOK, Holding
    <3>2. \A v \in Workers : pc'[v] \in Holding => v # w
      BY <3>1 DEF Holding
    <3>3. LockOwned'
      BY <3>1, <3>2 DEF LockOwned
    <3>4. ActiveRows'
      BY <3>1, <3>2 DEF ActiveRows, Holding
    <3> QED BY <3>3, <3>4
  <2>12. CASE CountRetry(w) \/ CountFailed(w)
    BY <2>12, LockQuietStep DEF CountRetry, CountFailed, Goto, TypeOK, Holding
  <2> QED BY <1>2, <2>1, <2>2, <2>3, <2>4, <2>5, <2>6, <2>7, <2>8, <2>9,
             <2>10, <2>11, <2>12 DEF WorkerStep
<1>3. ASSUME NEW w \in Workers, WorkerFault(w)
      PROVE  LockOwned' /\ ActiveRows'
  <2>1. CASE PollLosesMessage(w)
    BY <2>1, LockQuietStep DEF PollLosesMessage, Goto, TypeOK, Holding
  <2>2. CASE AcquireFails(w)
    BY <2>2, LockQuietStep DEF AcquireFails, Drop, TypeOK, Holding
  <2>3. CASE RequeueFails(w)
    BY <2>3, LockQuietStep DEF RequeueFails, Goto, TypeOK, Holding
  <2>4. CASE SessionFails(w)
    <3>1. CASE UNCHANGED job
      BY <2>4, <3>1, LockQuietStep DEF SessionFails, Goto, TypeOK, Holding
    <3>2. CASE job' = [job EXCEPT ![cur[w]] = Committed(w)]
      BY <2>4, <3>2, LockRowStep DEF SessionFails, Goto, Holding
    <3> QED BY <2>4, <3>1, <3>2 DEF SessionFails
  <2>5. CASE ReleaseFails(w)
    BY <2>5, LockQuietStep DEF ReleaseFails, Drop, TypeOK, Holding
  <2>6. CASE PollRaises(w) \/ Crash(w) \/ Restart(w)
    BY <2>6, LockQuietStep DEF PollRaises, Crash, Restart, Goto, Drop, TypeOK, Holding
  <2> QED BY <1>3, <2>1, <2>2, <2>3, <2>4, <2>5, <2>6 DEF WorkerFault
<1>4. CASE UNCHANGED vars
  BY <1>4 DEF vars, LockOwned, ActiveRows
<1> QED BY <1>1, <1>2, <1>3, <1>4 DEF Next

LEMMA LockInvariant ==
    ASSUME ~LapseWhileHeld
    PROVE  Spec => []LockInv
<1>1. Init => LockInv
  BY InitType DEF Init, LockInv, LockOwned, ActiveRows, Holding
<1>2. LockInv /\ [Next]_vars => LockInv'
  BY StepLock
<1> QED BY <1>1, <1>2, PTL DEF Spec

\* DELETE, which does not look at the key's value, removes the worker's own
\* lock, and two workers are never both between SET NX and DELETE for a job:
\* with crashes, lost replies and duplicated messages, as long as no lock runs
\* out under its live holder.
THEOREM LocksOwned ==
    ASSUME ~LapseWhileHeld
    PROVE  Spec => []LockOwned
<1>1. LockInv => LockOwned
  BY DEF LockInv
<1> QED BY <1>1, LockInvariant, PTL

\* Two workers never execute the same job, even if its message is duplicated.
THEOREM ExclusiveByLock ==
    ASSUME ~LapseWhileHeld
    PROVE  Spec => []ExclusiveExecution
<1>1. LockInv => ExclusiveExecution
  BY DEF LockInv, LockOwned, ExclusiveExecution, Holding
<1> QED BY <1>1, LockInvariant, PTL

\* A job whose POST has not been handled has no row and no message.
NewJobs ==
    \A j \in Jobs : api[j] = "new" =>
        /\ job[j] = Lifecycle!NoRow
        /\ ~InQueue(j)
        /\ \A w \in Workers : cur[w] # j

NewInv == TypeOK /\ NewJobs

LEMMA PushOthers ==
    ASSUME queue \in Seq(Jobs), NEW j \in Jobs, PushRaises(j) \/ Push(j)
    PROVE  \A k : InQueue(k)' => InQueue(k) \/ k = j
<1> SUFFICES ASSUME NEW k, InQueue(k)', k # j PROVE InQueue(k)
  OBVIOUS
<1>1. PICK i \in 1..Len(queue') : queue'[i] = k
  BY DEF InQueue
<1>2. Len(queue) \in Nat
  OBVIOUS
<1>3. i \in 1..Len(queue) /\ queue[i] = k
  <2>1. CASE queue' = queue
    BY <1>1, <2>1
  <2>2. CASE queue' = Append(queue, j)
    BY <1>1, <1>2, <2>2
  <2>3. CASE queue' = Append(Append(queue, j), j)
    <3> DEFINE q == Append(queue, j)
    <3>1. /\ q \in Seq(Jobs) /\ Len(q) = Len(queue) + 1
          /\ q[Len(queue) + 1] = j
          /\ \A n \in 1..Len(queue) : q[n] = queue[n]
      OBVIOUS
    <3> HIDE DEF q
    <3>2. /\ Len(queue') = Len(queue) + 2
          /\ queue'[Len(queue) + 2] = j
          /\ \A n \in 1..(Len(queue) + 1) : queue'[n] = q[n]
      BY <1>2, <2>3, <3>1 DEF q
    <3> QED BY <1>1, <1>2, <3>1, <3>2
  <2> QED BY <2>1, <2>2, <2>3 DEF Push, PushRaises
<1> QED BY <1>3 DEF InQueue

LEMMA PopOthers ==
    ASSUME queue \in Seq(Jobs), queue # <<>>, queue' = Tail(queue)
    PROVE  InQueue(Head(queue)) /\ \A k : InQueue(k)' => InQueue(k)
<1> USE PopType
<1>1. InQueue(Head(queue))
  BY DEF InQueue
<1>2. ASSUME NEW k, InQueue(k)' PROVE InQueue(k)
  <2>1. PICK i \in 1..Len(Tail(queue)) : Tail(queue)[i] = k
    BY <1>2 DEF InQueue
  <2>2. i + 1 \in 1..Len(queue) /\ queue[i + 1] = k
    BY <2>1
  <2> QED BY <2>2 DEF InQueue
<1> QED BY <1>1, <1>2

\* A step of worker w touches the row of its own job only, pushes no other job
\* and takes its next one from the list.
LEMMA NewStep ==
    ASSUME NewInv, NEW w \in Workers, UNCHANGED api,
           \A k \in Jobs : k # cur[w] => job'[k] = job[k],
           \A k : InQueue(k)' => InQueue(k) \/ k = cur[w],
           \A v \in Workers \ {w} : cur'[v] = cur[v],
           cur'[w] \in {cur[w], NoJob} \/ InQueue(cur'[w])
    PROVE  NewJobs'
<1> SUFFICES ASSUME NEW j \in Jobs, api[j] = "new"
             PROVE  /\ job'[j] = Lifecycle!NoRow
                    /\ ~InQueue(j)'
                    /\ \A v \in Workers : cur'[v] # j
  BY DEF NewJobs
<1>1. job[j] = Lifecycle!NoRow /\ ~InQueue(j) /\ \A v \in Workers : cur[v] # j
  BY DEF NewInv, NewJobs
<1> QED BY <1>1, Constants

LEMMA StepNew == NewInv /\ [Next]_vars => NewInv'
<1> SUFFICES ASSUME NewInv, [Next]_vars PROVE NewJobs'
  BY StepType DEF NewInv
<1> USE DEF NewInv
<1>1. ASSUME NEW j \in Jobs, Api(j) PROVE NewJobs'
  <2>1. \A k \in Jobs : api'[k] = "new" => k # j /\ api[k] = "new"
    BY <1>1 DEF Api, CreateJob, EnqueueJob, EnqueueFails, TypeOK
  <2>2. \A k \in Jobs : k # j => job'[k] = job[k]
    BY <1>1 DEF Api, CreateJob, EnqueueJob, EnqueueFails, TypeOK
  <2>3. \A k : InQueue(k)' => InQueue(k) \/ k = j
    <3>1. CASE UNCHANGED queue
      BY <3>1, SameMessages
    <3>2. CASE PushRaises(j) \/ Push(j)
      BY <3>2, PushOthers DEF TypeOK
    <3> QED BY <1>1, <3>1, <3>2 DEF Api, CreateJob, EnqueueJob, EnqueueFails
  <2>4. UNCHANGED cur
    BY <1>1 DEF Api, CreateJob, EnqueueJob, EnqueueFails
  <2> QED BY <2>1, <2>2, <2>3, <2>4 DEF NewJobs
<1>2. CASE UNCHANGED <<job, api, queue, cur>>
  BY <1>2, SameMessages DEF NewJobs
<1>3. ASSUME NEW w \in Workers, WorkerStep(w) \/ WorkerFault(w) PROVE NewJobs'
  <2>1. CASE Poll(w) \/ PollLosesMessage(w)
    BY <2>1, NewStep, PopOthers DEF Poll, PollLosesMessage, Goto, TypeOK
  <2>2. CASE RequeueJob(w) \/ RequeueFails(w)
    <3>1. \A k : InQueue(k)' => InQueue(k) \/ k = cur[w]
      BY <2>2, PushOthers, CurIsJob DEF RequeueJob, RequeueFails, TypeOK
    <3> QED BY <2>2, <3>1, NewStep DEF RequeueJob, RequeueFails, Goto
  <2>3. CASE StartJob(w) \/ RecordFailure(w) \/ CompleteJob(w) \/ SessionFails(w)
    BY <2>3, SameMessages, NewStep
       DEF StartJob, RecordFailure, CompleteJob, SessionFails, Goto, TypeOK
  <2>4. CASE UNCHANGED <<job, api, queue>> /\ \E label : Drop(w, label)
    BY <2>4, SameMessages, NewStep DEF Drop, TypeOK
  <2> QED BY <1>2, <1>3, <2>1, <2>2, <2>3, <2>4
          DEF WorkerStep, WorkerFault, PollTimesOut, PollRaises, vars, AcquireLock,
              LockBusy, AcquireFails, SkipCompleted, ExecuteReturns, ExecuteRaises,
              CountRetry, CountFailed, ReleaseLock, ReleaseFails, Crash, Restart, Goto
<1> QED BY <1>1, <1>2, <1>3 DEF Next, LockExpires, vars

LEMMA NewInvariant == Spec => []NewInv
<1>1. Init => NewInv
  <2> SUFFICES ASSUME Init PROVE NewJobs
    BY InitType DEF NewInv
  <2>1. Len(queue) = 0
    BY DEF Init
  <2>2. \A j : ~InQueue(j)
    BY <2>1 DEF InQueue
  <2> QED BY <2>2, Constants DEF Init, Lifecycle!Init, NewJobs
<1>2. NewInv /\ [Next]_vars => NewInv'
  BY StepNew
<1> QED BY <1>1, <1>2, PTL DEF Spec

\* A stored result is never overwritten, even if messages are duplicated.
THEOREM ResultsFinal ==
    ASSUME ~LapseWhileHeld
    PROVE  Spec => CompletedFinal
<1> DEFINE Final == \A j \in Jobs : job[j].status = "completed" => job'[j] = job[j]
<1>1. LockInv /\ NewInv /\ [Next]_vars => [Final]_vars
  <2> SUFFICES ASSUME LockInv, NewInv, [Next]_vars, NEW j \in Jobs,
                      job[j].status = "completed"
               PROVE  job'[j] = job[j]
    OBVIOUS
  <2> USE DEF LockInv, NewInv
  <2>1. CASE UNCHANGED job
    BY <2>1
  <2>2. ASSUME NEW k \in Jobs, CreateJob(k) PROVE job'[j] = job[j]
    <3>1. job[k].status = "absent"
      BY <2>2 DEF CreateJob, NewJobs, Lifecycle!NoRow
    <3> QED BY <2>2, <3>1 DEF CreateJob
  <2>3. ASSUME NEW w \in Workers, StartJob(w) \/ RecordFailure(w) \/ CompleteJob(w)
        PROVE  job'[j] = job[j]
    <3>1. job[cur[w]].status # "completed"
      BY <2>3 DEF StartJob, RecordFailure, CompleteJob, ActiveRows
    <3>2. cur[w] # j
      BY <3>1
    <3>3. job'[j] = job[j]
      BY <2>3, <3>2 DEF StartJob, RecordFailure, CompleteJob, TypeOK
    <3> QED BY <3>3
  <2>4. ASSUME NEW w \in Workers, SessionFails(w) PROVE job'[j] = job[j]
    <3>1. cur[w] = j => Committed(w) = job[j]
      BY <2>4 DEF SessionFails, ActiveRows, Committed
    <3>2. cur[w] \in Jobs
      BY <2>4, CurIsJob DEF SessionFails
    <3> QED BY <2>4, <3>1, <3>2 DEF SessionFails, TypeOK
  <2> QED
    BY <2>1, <2>2, <2>3, <2>4
    DEF Next, vars, Api, WorkerStep, WorkerFault, EnqueueJob, EnqueueFails,
        LockExpires, Poll, PollTimesOut, PollLosesMessage, PollRaises, AcquireLock,
        LockBusy, AcquireFails, SkipCompleted, ExecuteReturns, ExecuteRaises,
        CountRetry, CountFailed, RequeueJob, RequeueFails, ReleaseLock,
        ReleaseFails, Crash, Restart
<1> QED BY <1>1, LockInvariant, NewInvariant, PTL DEF Spec, CompletedFinal

-----------------------------------------------------------------------------
(* What the rows and the counters show, when no push is duplicated.        *)

\* Where a message is says what its row says.
THEOREM MessagesMatchRows ==
    ASSUME ~Redelivery
    PROVE  Spec => []MessageState
<1>1. MsgInv => MessageState
  BY DEF MsgInv
<1> QED BY <1>1, MessageInvariant, PTL

LEMMA RowColumns ==
    ASSUME NEW row \in Lifecycle!Row
    PROVE  /\ ~Lifecycle!NoRow.error /\ ~Lifecycle!NoRow.result
           /\ ~Lifecycle!NewRow.error /\ ~Lifecycle!NewRow.result
           /\ Lifecycle!Started(row).error = row.error
           /\ Lifecycle!Started(row).result = row.result
           /\ Lifecycle!AfterFailure(row).error = TRUE
           /\ Lifecycle!AfterFailure(row).result = row.result
           /\ Lifecycle!AfterSuccess(row).error = FALSE
           /\ Lifecycle!AfterSuccess(row).result = TRUE
BY DEF Lifecycle!Row, Lifecycle!NoRow, Lifecycle!NewRow, Lifecycle!Started,
       Lifecycle!AfterFailure, Lifecycle!AfterSuccess

\* A row as RowConsistent has it, and an error whatever the status, COMPLETED
\* excepted, exactly when a failure has been counted.
RowSound(row) ==
    /\ row.result <=> row.status = "completed"
    /\ row.status = "completed" => ~row.error
    /\ row.status # "completed" => (row.error <=> row.retry > 0)
    /\ row.status = "failed" => row.error

RowsSound == \A j \in Jobs : RowSound(job[j])

LEMMA RowOpsSound ==
    ASSUME NEW row \in Lifecycle!Row, RowSound(row)
    PROVE  /\ RowSound(Lifecycle!NoRow) /\ RowSound(Lifecycle!NewRow)
           /\ row.status # "completed" => RowSound(Lifecycle!Started(row))
           /\ row.status # "completed" => RowSound(Lifecycle!AfterFailure(row))
           /\ row.status # "completed" => RowSound(Lifecycle!AfterSuccess(row))
<1>1. RowSound(Lifecycle!NoRow) /\ RowSound(Lifecycle!NewRow)
  <2>1. ~(0 > 0)
    OBVIOUS
  <2>2. Lifecycle!NoRow.status = "absent" /\ Lifecycle!NoRow.retry = 0
    BY DEF Lifecycle!NoRow
  <2>3. Lifecycle!NewRow.status = "queued" /\ Lifecycle!NewRow.retry = 0
    BY DEF Lifecycle!NoRow, Lifecycle!NewRow
  <2> QED BY <2>1, <2>2, <2>3, RowColumns, Zenon DEF RowSound
<1>2. ASSUME row.status # "completed" PROVE RowSound(Lifecycle!Started(row))
  BY <1>2, RowColumns, RowStatus, Zenon DEF RowSound
<1>3. ASSUME row.status # "completed" PROVE RowSound(Lifecycle!AfterFailure(row))
  <2> DEFINE new == Lifecycle!AfterFailure(row)
  <2>1. (new.retry > 0) /\ new.status # "completed"
    BY RowStatus
  <2>2. new.error /\ (new.result <=> row.result)
    BY RowColumns, Zenon
  <2>3. ~row.result
    BY <1>3, Zenon DEF RowSound
  <2> HIDE DEF new
  <2>4. /\ new.result <=> new.status = "completed"
        /\ new.status = "completed" => ~new.error
        /\ new.status = "failed" => new.error
    BY <2>1, <2>2, <2>3, Zenon
  <2>5. new.status # "completed" => (new.error <=> new.retry > 0)
    BY <2>1, <2>2, Zenon
  <2>6. RowSound(new)
    BY <2>4, <2>5, Zenon DEF RowSound
  <2> QED BY <2>6 DEF new
<1>4. ASSUME row.status # "completed" PROVE RowSound(Lifecycle!AfterSuccess(row))
  <2>1. Lifecycle!AfterSuccess(row).status = "completed"
    BY RowStatus
  <2> QED BY <2>1, RowColumns, Zenon DEF RowSound
<1> QED BY <1>1, <1>2, <1>3, <1>4

\* No step of the API or of a worker rewrites a COMPLETED row: then the columns
\* of a row only depend on what the row has gone through.
LEMMA StepRows ==
    ASSUME TypeOK, RowsSound,
           \/ UNCHANGED job
           \/ \E j \in Jobs : job' = [job EXCEPT ![j] = Lifecycle!NewRow]
           \/ \E j \in Jobs :
                /\ job[j].status # "completed"
                /\ \/ job' = [job EXCEPT ![j] = Lifecycle!Started(job[j])]
                   \/ job' = [job EXCEPT ![j] = Lifecycle!AfterFailure(job[j])]
                   \/ job' = [job EXCEPT ![j] = Lifecycle!AfterSuccess(job[j])]
    PROVE  RowsSound'
<1>1. CASE UNCHANGED job
  BY <1>1 DEF RowsSound
<1>2. ASSUME NEW j \in Jobs, NEW row, job' = [job EXCEPT ![j] = row], RowSound(row)
      PROVE  RowsSound'
  <2>1. job'[j] = row /\ \A k \in Jobs \ {j} : job'[k] = job[k]
    BY <1>2 DEF TypeOK
  <2>2. \A k \in Jobs : RowSound(job'[k])
    BY <1>2, <2>1 DEF RowsSound
  <2> QED BY <2>2 DEF RowsSound
<1>3. ASSUME NEW j \in Jobs
      PROVE  /\ RowSound(Lifecycle!NewRow)
             /\ job[j].status # "completed" =>
                   /\ RowSound(Lifecycle!Started(job[j]))
                   /\ RowSound(Lifecycle!AfterFailure(job[j]))
                   /\ RowSound(Lifecycle!AfterSuccess(job[j]))
  <2>1. job[j] \in Lifecycle!Row /\ RowSound(job[j])
    BY DEF TypeOK, RowsSound
  <2> QED BY <2>1, RowOpsSound
<1> QED BY <1>1, <1>2, <1>3

LEMMA InitRows == Init => RowsSound
<1> SUFFICES ASSUME Init, NEW j \in Jobs PROVE RowSound(job[j])
  BY DEF RowsSound
<1>1. job[j] = Lifecycle!NoRow /\ Lifecycle!NoRow \in Lifecycle!Row
  BY DEF Init, Lifecycle!Init, Lifecycle!NoRow, Lifecycle!Row
<1>2. RowSound(Lifecycle!NoRow)
  <2>1. ~(0 > 0)
    OBVIOUS
  <2>2. Lifecycle!NoRow.status = "absent" /\ Lifecycle!NoRow.retry = 0
    BY DEF Lifecycle!NoRow
  <2> QED BY <1>1, <2>1, <2>2, RowColumns, Zenon DEF RowSound
<1> QED BY <1>1, <1>2

LEMMA RowsShow == RowsSound => RowConsistent
<1> SUFFICES ASSUME RowsSound, NEW j \in Jobs
             PROVE  /\ job[j].result <=> job[j].status = "completed"
                    /\ job[j].status = "completed" => ~job[j].error
                    /\ job[j].status = "failed" => job[j].error
                    /\ job[j].status \in {"queued", "running"} =>
                          (job[j].error <=> job[j].retry > 0)
  BY DEF RowConsistent
<1>1. job[j].status \in {"queued", "running"} => job[j].status # "completed"
  OBVIOUS
<1> QED BY <1>1, Zenon DEF RowsSound, RowSound

\* A row never shows the leftovers of another attempt as its outcome: no worker
\* writes a row that another has ended, since it has the job's only message.
THEOREM RowsConsistent ==
    ASSUME ~Redelivery
    PROVE  Spec => []RowConsistent
<1>1. MsgInv /\ RowsSound /\ [Next]_vars => RowsSound'
  <2> SUFFICES ASSUME MsgInv, RowsSound, Lifecycle!Next PROVE RowsSound'
    BY StepLifecycle DEF RowsSound
  <2> PICK j \in Jobs : \/ Lifecycle!Create(j) \/ Lifecycle!Start(j)
                        \/ Lifecycle!Fail(j) \/ Lifecycle!Complete(j)
    BY DEF Lifecycle!Next
  <2> QED BY StepRows DEF MsgInv, Lifecycle!Create, Lifecycle!Start,
                          Lifecycle!Fail, Lifecycle!Complete
<1> QED BY <1>1, InitRows, RowsShow, MessageInvariant, PTL DEF Spec

\* The same when messages are duplicated: then because it holds the lock.
THEOREM RowsConsistentByLock ==
    ASSUME ~LapseWhileHeld
    PROVE  Spec => []RowConsistent
<1>1. LockInv /\ RowsSound /\ [Next]_vars => RowsSound'
  <2> SUFFICES ASSUME LockInv, RowsSound, [Next]_vars PROVE RowsSound'
    OBVIOUS
  <2> USE DEF LockInv
  <2>1. CASE UNCHANGED job
    BY <2>1, StepRows
  <2>2. ASSUME NEW j \in Jobs, CreateJob(j) PROVE RowsSound'
    BY <2>2, StepRows DEF CreateJob
  <2>3. ASSUME NEW w \in Workers, StartJob(w) \/ RecordFailure(w) \/ CompleteJob(w)
        PROVE  RowsSound'
    <3>1. cur[w] \in Jobs /\ job[cur[w]].status # "completed"
      BY <2>3, CurIsJob DEF StartJob, RecordFailure, CompleteJob, ActiveRows
    <3>2. \/ job' = [job EXCEPT ![cur[w]] = Lifecycle!Started(job[cur[w]])]
          \/ job' = [job EXCEPT ![cur[w]] = Lifecycle!AfterFailure(job[cur[w]])]
          \/ job' = [job EXCEPT ![cur[w]] = Lifecycle!AfterSuccess(job[cur[w]])]
      BY <2>3 DEF StartJob, RecordFailure, CompleteJob
    <3> QED BY <3>1, <3>2, StepRows
  <2>4. ASSUME NEW w \in Workers, SessionFails(w) PROVE RowsSound'
    <3> DEFINE j == cur[w]
    <3>1. j \in Jobs
      BY <2>4, CurIsJob DEF SessionFails
    <3>2. pc[w] # "locked" => job[j].status # "completed"
      BY <2>4 DEF SessionFails, ActiveRows
    <3>3. CASE job[j].status # "completed"
      <4>1. Committed(w) \in {Lifecycle!Started(job[j]), Lifecycle!AfterFailure(job[j]),
                              Lifecycle!AfterSuccess(job[j])}
        BY <2>4, <3>3 DEF SessionFails, Committed
      <4>2. \/ UNCHANGED job
            \/ job' = [job EXCEPT ![j] = Lifecycle!Started(job[j])]
            \/ job' = [job EXCEPT ![j] = Lifecycle!AfterFailure(job[j])]
            \/ job' = [job EXCEPT ![j] = Lifecycle!AfterSuccess(job[j])]
        BY <2>4, <4>1 DEF SessionFails
      <4> QED BY <3>1, <3>3, <4>2, StepRows
    <3>4. CASE job[j].status = "completed"
      <4>1. Committed(w) = job[j]
        BY <2>4, <3>2, <3>4 DEF SessionFails, Committed
      <4>2. UNCHANGED job
        BY <2>4, <4>1 DEF SessionFails, TypeOK
      <4> QED BY <4>2, StepRows
    <3> QED BY <3>3, <3>4
  <2> QED
    BY <2>1, <2>2, <2>3, <2>4
    DEF Next, vars, Api, WorkerStep, WorkerFault, EnqueueJob, EnqueueFails,
        LockExpires, Poll, PollTimesOut, PollLosesMessage, PollRaises, AcquireLock,
        LockBusy, AcquireFails, SkipCompleted, ExecuteReturns, ExecuteRaises,
        CountRetry, CountFailed, RequeueJob, RequeueFails, ReleaseLock,
        ReleaseFails, Crash, Restart
<1> QED BY <1>1, InitRows, RowsShow, LockInvariant, PTL DEF Spec

\* An execution of the job may still return: its message is somewhere, or was
\* not pushed yet.
Pending(j) ==
    \/ api[j] \in {"new", "created"}
    \/ InQueue(j)
    \/ \E w \in Workers : pc[w] \in Carrying \ {"finishing"} /\ cur[w] = j

\* Once it has returned, or the message is lost, no step brings it back.
LEMMA PendingStep ==
    ASSUME MsgInv, [Next]_vars, NEW j \in Jobs, Pending(j)'
    PROVE  Pending(j)
<1> USE DEF MsgInv
<1>1. ASSUME NEW k \in Jobs, Api(k) PROVE Pending(j)
  <2>1. /\ UNCHANGED <<pc, cur>> /\ api[k] \in {"new", "created"}
        /\ \A i \in Jobs \ {k} : api'[i] = api[i]
    BY <1>1 DEF Api, CreateJob, EnqueueJob, EnqueueFails, TypeOK
  <2>2. \A i : InQueue(i)' => InQueue(i) \/ i = k
    <3>1. CASE UNCHANGED queue
      BY <3>1, SameMessages
    <3>2. CASE PushRaises(k) \/ Push(k)
      BY <3>2, PushOthers DEF TypeOK
    <3> QED BY <1>1, <3>1, <3>2 DEF Api, CreateJob, EnqueueJob, EnqueueFails
  <2> QED BY <2>1, <2>2 DEF Pending
<1>2. ASSUME UNCHANGED <<api, queue>>,
             \A w \in Workers : pc'[w] \in Carrying \ {"finishing"} =>
                pc[w] \in Carrying \ {"finishing"} /\ cur'[w] = cur[w]
      PROVE  Pending(j)
  BY <1>2, SameMessages DEF Pending
<1>3. ASSUME NEW w \in Workers, Poll(w) \/ PollLosesMessage(w) PROVE Pending(j)
  <2>1. InQueue(Head(queue)) /\ \A k : InQueue(k)' => InQueue(k)
    BY <1>3, PopOthers DEF Poll, PollLosesMessage, TypeOK
  <2>2. /\ UNCHANGED api
        /\ \A v \in Workers : pc'[v] \in Carrying =>
              (pc[v] = pc'[v] /\ cur'[v] = cur[v]) \/ cur'[v] = Head(queue)
    BY <1>3 DEF Poll, PollLosesMessage, Goto, TypeOK, Carrying
  <2> QED BY <2>1, <2>2 DEF Pending
<1>4. ASSUME NEW w \in Workers, RequeueJob(w) \/ RequeueFails(w) PROVE Pending(j)
  <2>1. \A k : InQueue(k)' => InQueue(k) \/ k = cur[w]
    BY <1>4, PushOthers, CurIsJob DEF RequeueJob, RequeueFails, TypeOK
  <2>2. /\ UNCHANGED <<api, cur>> /\ pc[w] = "backoff"
        /\ \A v \in Workers : pc'[v] \in Carrying => pc[v] = pc'[v]
    BY <1>4 DEF RequeueJob, RequeueFails, Goto, TypeOK, Carrying
  <2> QED BY <2>1, <2>2 DEF Pending, Carrying
<1>5. ASSUME NEW w \in Workers,
             \/ PollTimesOut(w) \/ AcquireLock(w) \/ LockBusy(w) \/ SkipCompleted(w)
             \/ StartJob(w) \/ ExecuteReturns(w) \/ ExecuteRaises(w) \/ RecordFailure(w)
             \/ CountRetry(w) \/ CountFailed(w) \/ PollRaises(w)
             \/ CompleteJob(w) \/ ReleaseLock(w) \/ AcquireFails(w) \/ SessionFails(w)
             \/ ReleaseFails(w) \/ Crash(w) \/ Restart(w)
      PROVE  Pending(j)
  <2>1. UNCHANGED <<api, queue>>
    BY <1>5 DEF PollTimesOut, vars, AcquireLock, LockBusy, SkipCompleted, StartJob,
                ExecuteReturns, ExecuteRaises, RecordFailure, CountRetry, CountFailed,
                PollRaises, CompleteJob, ReleaseLock, AcquireFails, SessionFails, ReleaseFails, Crash, Restart
  <2>2. \A v \in Workers : pc'[v] \in Carrying \ {"finishing"} =>
           pc[v] \in Carrying \ {"finishing"} /\ cur'[v] = cur[v]
    BY <1>5 DEF PollTimesOut, vars, AcquireLock, LockBusy, SkipCompleted, StartJob,
                ExecuteReturns, ExecuteRaises, RecordFailure, CountRetry, CountFailed,
                PollRaises, CompleteJob, ReleaseLock, AcquireFails, SessionFails, ReleaseFails, Crash, Restart, Goto, Drop,
                TypeOK, Carrying
  <2> QED BY <1>2, <2>1, <2>2
<1>6. CASE UNCHANGED <<api, queue, pc, cur>>
  BY <1>2, <1>6
<1> QED BY <1>1, <1>3, <1>4, <1>5, <1>6 DEF Next, WorkerStep, WorkerFault, LockExpires, vars

LEMMA ReturnEnds ==
    ASSUME MsgInv, NEW w \in Workers, ExecuteReturns(w)
    PROVE  /\ cur[w] \in Jobs /\ Pending(cur[w])
           /\ \A j \in Jobs : j = cur[w] => ~Pending(j)'
<1> USE DEF MsgInv
<1>1. /\ cur[w] \in Jobs /\ api[cur[w]] \notin {"new", "created"} /\ ~InQueue(cur[w])
      /\ \A v \in Workers : pc[v] \in Carrying /\ cur[v] = cur[w] => v = w
  BY CurIsJob DEF ExecuteReturns, OneMessage, Carrying
<1>2. /\ pc[w] = "executing" /\ pc'[w] = "finishing" /\ UNCHANGED <<api, queue, cur>>
      /\ \A v \in Workers \ {w} : pc'[v] = pc[v]
  BY DEF ExecuteReturns, Goto, TypeOK
<1>3. Pending(cur[w])
  BY <1>2 DEF Pending, Carrying
<1>4. \A j \in Jobs : j = cur[w] => ~Pending(j)'
  BY <1>1, <1>2, SameMessages DEF Pending
<1> QED BY <1>1, <1>3, <1>4

\* What the counters m of a job may be when its row is row.
MeterRow(m, row) ==
    /\ m.retries <= row.retry
    /\ m.failed <= 1
    /\ m.failed = 1 => row.status = "failed"
    /\ m.completed <= 1
    /\ row.status = "completed" => m.completed = 1

\* What they are when the job's worker is at label.
MeterAt(label, m, row) ==
    /\ label = "finishing" => m.completed = 1
    /\ label \in {"givingUp", "exhausted"} => m.failed = 0
    /\ label \in {"retrying", "givingUp"} => m.retries < row.retry

Counting == {"finishing", "retrying", "givingUp", "exhausted"}

\* JOB_COMPLETED is counted when the execution returns, once; the counters of a
\* recorded failure wait for its worker.
CountedOnce ==
    /\ \A j \in Jobs : Pending(j) => meter[j].completed = 0
    /\ \A w \in Workers : pc[w] \in Counting =>
          MeterAt(pc[w], meter[cur[w]], job[cur[w]])

MeterInv == MsgInv /\ MetersBounded /\ CountedOnce

LEMMA BoundedRows == MetersBounded <=> \A j \in Jobs : MeterRow(meter[j], job[j])
BY DEF MetersBounded, MeterRow

\* A step that counts nothing, changes no row and takes nobody to a count.
LEMMA MeterQuietStep ==
    ASSUME MeterInv, [Next]_vars, UNCHANGED <<job, meter>>,
           \A w \in Workers : pc'[w] \in Counting => pc[w] = pc'[w] /\ cur'[w] = cur[w]
    PROVE  MetersBounded' /\ CountedOnce'
<1>1. MetersBounded'
  BY DEF MeterInv, MetersBounded
<1>2. CountedOnce'
  BY PendingStep DEF MeterInv, CountedOnce
<1> QED BY <1>1, <1>2

\* A step of the worker that has the job's message, with its counters and row.
LEMMA MeterStep ==
    ASSUME MeterInv, [Next]_vars, NEW w \in Workers, NEW m, NEW row, NEW label,
           pc[w] \in Carrying,
           job' = [job EXCEPT ![cur[w]] = row],
           meter' = [meter EXCEPT ![cur[w]] = m],
           pc' = [pc EXCEPT ![w] = label],
           UNCHANGED cur,
           MeterRow(m, row),
           MeterAt(label, m, row),
           m.completed = meter[cur[w]].completed
              \/ \A j \in Jobs : j = cur[w] => ~Pending(j)'
    PROVE  MetersBounded' /\ CountedOnce'
<1> DEFINE j == cur[w]
<1>0. MsgInv /\ TypeOK /\ OneMessage /\ MetersBounded /\ CountedOnce
  BY DEF MeterInv, MsgInv
<1>1. /\ j \in Jobs
      /\ \A v \in Workers : pc[v] \in Carrying /\ cur[v] = j => v = w
  BY <1>0, CurIsJob DEF OneMessage, Carrying
<1>2. /\ job'[j] = row /\ meter'[j] = m /\ pc'[w] = label
      /\ \A k \in Jobs \ {j} : job'[k] = job[k] /\ meter'[k] = meter[k]
      /\ \A v \in Workers \ {w} : pc'[v] = pc[v]
  BY <1>0, <1>1 DEF TypeOK
<1>3. MetersBounded'
  <2>1. \A k \in Jobs : MeterRow(meter[k], job[k])
    BY <1>0, BoundedRows
  <2>2. \A k \in Jobs : MeterRow(meter'[k], job'[k])
    BY <1>2, <2>1
  <2> QED BY <2>2 DEF MetersBounded, MeterRow
<1>4. ASSUME NEW k \in Jobs, Pending(k)' PROVE meter'[k].completed = 0
  BY <1>0, <1>1, <1>2, <1>4, PendingStep DEF CountedOnce
<1>5. ASSUME NEW v \in Workers, pc'[v] \in Counting
      PROVE  MeterAt(pc'[v], meter'[cur'[v]], job'[cur'[v]])
  <2>1. CASE v = w
    BY <1>2, <2>1
  <2>2. CASE v # w
    <3>1. pc[v] \in Carrying /\ pc'[v] = pc[v]
      BY <1>2, <1>5, <2>2 DEF Counting, Carrying
    <3>2. cur[v] \in Jobs /\ cur[v] # j
      BY <1>0, <1>1, <2>2, <3>1, CurIsJob DEF Carrying
    <3> QED BY <1>0, <1>2, <1>5, <3>1, <3>2 DEF CountedOnce
  <2> QED BY <2>1, <2>2
<1> QED BY <1>3, <1>4, <1>5 DEF CountedOnce

LEMMA MeterFields ==
    ASSUME NEW m \in Meter
    PROVE  LET c == [m EXCEPT !.completed = m.completed + 1]
               r == [m EXCEPT !.retries = m.retries + 1]
               f == [m EXCEPT !.failed = m.failed + 1]
           IN  /\ c.completed = m.completed + 1 /\ c.failed = m.failed
               /\ c.retries = m.retries
               /\ r.completed = m.completed /\ r.failed = m.failed
               /\ r.retries = m.retries + 1
               /\ f.completed = m.completed /\ f.failed = m.failed + 1
               /\ f.retries = m.retries
               /\ m.completed \in Nat /\ m.failed \in Nat /\ m.retries \in Nat
BY DEF Meter

\* What the row and the counters of the job are when its worker has its message.
LEMMA MeterFacts ==
    ASSUME MeterInv, NEW w \in Workers, pc[w] \in Carrying
    PROVE  /\ cur[w] \in Jobs
           /\ job[cur[w]] \in Lifecycle!Row /\ job \in [Jobs -> Lifecycle!Row]
           /\ meter[cur[w]] \in Meter /\ meter \in [Jobs -> Meter]
           /\ MeterRow(meter[cur[w]], job[cur[w]])
           /\ pc[w] \in Counting => MeterAt(pc[w], meter[cur[w]], job[cur[w]])
           /\ pc[w] \in {"popped", "locked", "retrying", "backoff"} =>
                 job[cur[w]].status = "queued"
           /\ pc[w] \in {"executing", "failing", "finishing"} =>
                 job[cur[w]].status = "running"
           /\ pc[w] \in {"givingUp", "exhausted"} => job[cur[w]].status = "failed"
<1>1. cur[w] \in Jobs
  BY CurIsJob DEF MeterInv, MsgInv, Carrying
<1>2. MeterRow(meter[cur[w]], job[cur[w]])
  BY <1>1, BoundedRows DEF MeterInv
<1> QED BY <1>1, <1>2
        DEF MeterInv, MsgInv, TypeOK, MessageState, Waiting, Active, CountedOnce

\* The sessions: the row changes, the counters do not.
LEMMA MeterRowStep ==
    ASSUME MeterInv, [Next]_vars, NEW w \in Workers, NEW row, NEW label,
           job' = [job EXCEPT ![cur[w]] = row],
           pc' = [pc EXCEPT ![w] = label],
           UNCHANGED <<cur, meter>>,
           row.retry \in Nat,
           pc[w] \in {"locked", "failing", "finishing"},
           label \in {"executing", "retrying", "givingUp", "releasing"},
           row.status \in {"running", "queued", "failed", "completed"},
           row.status = "completed" => pc[w] = "finishing",
           label \in {"retrying", "givingUp"} => pc[w] = "failing",
           row.retry = job[cur[w]].retry + (IF pc[w] = "failing" THEN 1 ELSE 0)
    PROVE  MetersBounded' /\ CountedOnce'
<1> DEFINE m == meter[cur[w]]
<1>1. /\ pc[w] \in Carrying
      /\ m \in Meter /\ meter \in [Jobs -> Meter] /\ job[cur[w]] \in Lifecycle!Row
      /\ MeterRow(m, job[cur[w]]) /\ job[cur[w]].status \notin {"failed", "completed"}
      /\ pc[w] = "finishing" => m.completed = 1
  BY MeterFacts DEF Carrying, Counting, MeterAt
<1>2. m.retries \in Nat /\ m.failed \in Nat /\ job[cur[w]].retry \in Nat
  BY <1>1, MeterFields, RowStatus
<1>3. m.failed = 0
  BY <1>1, <1>2 DEF MeterRow
<1>4. MeterRow(m, row)
  BY <1>1, <1>2, <1>3 DEF MeterRow
<1>5. MeterAt(label, m, row)
  BY <1>1, <1>2, <1>3 DEF MeterRow, MeterAt
<1>6. meter' = [meter EXCEPT ![cur[w]] = m]
  BY <1>1
<1> HIDE DEF m
<1> QED BY <1>1, <1>4, <1>5, <1>6, MeterStep DEF m

LEMMA StepMeter ==
    ASSUME ~Redelivery
    PROVE  MeterInv /\ [Next]_vars => MeterInv'
<1> SUFFICES ASSUME MeterInv, [Next]_vars PROVE MetersBounded' /\ CountedOnce'
  BY StepMsg DEF MeterInv
<1>0. MsgInv /\ TypeOK /\ MessageState
  BY DEF MeterInv, MsgInv
<1>1. ASSUME NEW w \in Workers, ExecuteReturns(w) PROVE MetersBounded' /\ CountedOnce'
  <2> DEFINE j == cur[w]
  <2> DEFINE m == [meter[j] EXCEPT !.completed = meter[j].completed + 1]
  <2>1. /\ pc[w] \in Carrying /\ Pending(j)
        /\ \A k \in Jobs : k = j => ~Pending(k)'
    BY <1>0, <1>1, ReturnEnds DEF ExecuteReturns, Carrying
  <2>2. /\ j \in Jobs /\ job[j].status = "running" /\ meter[j] \in Meter
        /\ job \in [Jobs -> Lifecycle!Row] /\ MeterRow(meter[j], job[j])
    BY <1>1, <2>1, MeterFacts DEF ExecuteReturns
  <2>3. /\ m.completed = 1 /\ m.failed = meter[j].failed /\ m.retries = meter[j].retries
    BY <2>1, <2>2, MeterFields DEF MeterInv, CountedOnce
  <2>4. MeterRow(m, job[j]) /\ MeterAt("finishing", m, job[j])
    BY <2>2, <2>3 DEF MeterRow, MeterAt
  <2>5. /\ meter' = [meter EXCEPT ![j] = m] /\ UNCHANGED cur
        /\ job' = [job EXCEPT ![j] = job[j]]
        /\ pc' = [pc EXCEPT ![w] = "finishing"]
    BY <1>1, <2>2 DEF ExecuteReturns, Goto
  <2> HIDE DEF m
  <2> QED BY <2>1, <2>4, <2>5, MeterStep DEF m
<1>2. ASSUME NEW w \in Workers, RecordFailure(w) PROVE MetersBounded' /\ CountedOnce'
  <2> DEFINE row == Lifecycle!AfterFailure(job[cur[w]])
  <2>1. job[cur[w]] \in Lifecycle!Row
    BY <1>0, <1>2, CurIsJob DEF RecordFailure, TypeOK
  <2>2. /\ row.status \in {"queued", "failed"} /\ row.retry = job[cur[w]].retry + 1
        /\ row.retry \in Nat
    BY <2>1, RowStatus
  <2>3. /\ job' = [job EXCEPT ![cur[w]] = row] /\ UNCHANGED <<cur, meter>>
        /\ pc[w] = "failing"
        /\ \E label \in {"retrying", "givingUp"} : pc' = [pc EXCEPT ![w] = label]
    BY <1>2 DEF RecordFailure, Goto
  <2> HIDE DEF row
  <2> QED BY <2>2, <2>3, MeterRowStep
<1>3. ASSUME NEW w \in Workers, CompleteJob(w) PROVE MetersBounded' /\ CountedOnce'
  <2> DEFINE row == Lifecycle!AfterSuccess(job[cur[w]])
  <2>1. job[cur[w]] \in Lifecycle!Row
    BY <1>0, <1>3, CurIsJob DEF CompleteJob, TypeOK
  <2>2. row.status = "completed" /\ row.retry = job[cur[w]].retry + 0 /\ row.retry \in Nat
    BY <2>1, RowStatus
  <2>3. /\ job' = [job EXCEPT ![cur[w]] = row] /\ UNCHANGED <<cur, meter>>
        /\ pc[w] = "finishing" /\ pc' = [pc EXCEPT ![w] = "releasing"]
    BY <1>3 DEF CompleteJob, Goto
  <2> HIDE DEF row
  <2> QED BY <2>2, <2>3, MeterRowStep
<1>4. ASSUME NEW w \in Workers, StartJob(w) PROVE MetersBounded' /\ CountedOnce'
  <2> DEFINE row == Lifecycle!Started(job[cur[w]])
  <2>1. job[cur[w]] \in Lifecycle!Row
    BY <1>0, <1>4, CurIsJob DEF StartJob, TypeOK
  <2>2. row.status = "running" /\ row.retry = job[cur[w]].retry + 0 /\ row.retry \in Nat
    BY <2>1, RowStatus
  <2>3. /\ job' = [job EXCEPT ![cur[w]] = row] /\ UNCHANGED <<cur, meter>>
        /\ pc[w] = "locked" /\ pc' = [pc EXCEPT ![w] = "executing"]
    BY <1>4 DEF StartJob, Goto
  <2> HIDE DEF row
  <2> QED BY <2>2, <2>3, MeterRowStep
<1>5. ASSUME NEW w \in Workers, SessionFails(w) PROVE MetersBounded' /\ CountedOnce'
  <2>1. CASE UNCHANGED job
    BY <1>0, <1>5, <2>1, MeterQuietStep DEF SessionFails, Goto, TypeOK, Counting
  <2>2. CASE job' = [job EXCEPT ![cur[w]] = Committed(w)]
    <3> DEFINE row == Committed(w)
    <3>1. job[cur[w]] \in Lifecycle!Row /\ (pc[w] = "locked" => Waiting(cur[w]))
      BY <1>0, <1>5, CurIsJob DEF SessionFails, TypeOK, MessageState
    <3>2. CASE pc[w] = "locked"
      <4>1. row = Lifecycle!Started(job[cur[w]])
        BY <3>1, <3>2 DEF Committed, Waiting
      <4>2. row.status = "running" /\ row.retry = job[cur[w]].retry + 0 /\ row.retry \in Nat
        BY <3>1, <4>1, RowStatus
      <4> HIDE DEF row
      <4> QED BY <1>5, <2>2, <3>2, <4>2, MeterRowStep DEF SessionFails, Goto, row
    <3>3. CASE pc[w] = "failing"
      <4>1. row = Lifecycle!AfterFailure(job[cur[w]])
        BY <3>3 DEF Committed
      <4>2. /\ row.status \in {"queued", "failed"} /\ row.retry = job[cur[w]].retry + 1
            /\ row.retry \in Nat
        BY <3>1, <4>1, RowStatus
      <4> HIDE DEF row
      <4> QED BY <1>5, <2>2, <3>3, <4>2, MeterRowStep DEF SessionFails, Goto, row
    <3>4. CASE pc[w] = "finishing"
      <4>1. row = Lifecycle!AfterSuccess(job[cur[w]])
        BY <3>4 DEF Committed
      <4>2. row.status = "completed" /\ row.retry = job[cur[w]].retry + 0 /\ row.retry \in Nat
        BY <3>1, <4>1, RowStatus
      <4> HIDE DEF row
      <4> QED BY <1>5, <2>2, <3>4, <4>2, MeterRowStep DEF SessionFails, Goto, row
    <3> QED BY <1>5, <3>2, <3>3, <3>4 DEF SessionFails
  <2> QED BY <1>5, <2>1, <2>2 DEF SessionFails
<1>6. ASSUME NEW w \in Workers, CountRetry(w) PROVE MetersBounded' /\ CountedOnce'
  <2> DEFINE j == cur[w]
  <2> DEFINE m == [meter[j] EXCEPT !.retries = meter[j].retries + 1]
  <2>1. /\ pc[w] \in Carrying /\ pc[w] \in Counting
        /\ pc[w] \in {"retrying", "givingUp"}
    BY <1>6 DEF CountRetry, Carrying, Counting
  <2>2. /\ j \in Jobs /\ meter[j] \in Meter /\ job \in [Jobs -> Lifecycle!Row]
        /\ MeterRow(meter[j], job[j]) /\ meter[j].retries < job[j].retry
        /\ pc[w] = "givingUp" => meter[j].failed = 0
    BY <2>1, MeterFacts DEF MeterAt
  <2>3. /\ m.completed = meter[j].completed /\ m.failed = meter[j].failed
        /\ m.retries = meter[j].retries + 1 /\ meter[j].retries \in Nat
        /\ job[j].retry \in Nat
    BY <2>2, MeterFields, RowStatus
  <2>4. MeterRow(m, job[j])
    BY <2>2, <2>3 DEF MeterRow
  <2>5. /\ meter' = [meter EXCEPT ![j] = m] /\ UNCHANGED cur
        /\ job' = [job EXCEPT ![j] = job[j]]
        /\ pc' = [pc EXCEPT ![w] = IF pc[w] = "retrying" THEN "backoff" ELSE "exhausted"]
    BY <1>6, <2>2 DEF CountRetry, Goto
  <2>6. MeterAt(IF pc[w] = "retrying" THEN "backoff" ELSE "exhausted", m, job[j])
    BY <2>1, <2>2, <2>3 DEF MeterAt
  <2> HIDE DEF m
  <2> QED BY <2>1, <2>3, <2>4, <2>5, <2>6, MeterStep DEF m
<1>7. ASSUME NEW w \in Workers, CountFailed(w) PROVE MetersBounded' /\ CountedOnce'
  <2> DEFINE j == cur[w]
  <2> DEFINE m == [meter[j] EXCEPT !.failed = meter[j].failed + 1]
  <2>1. pc[w] \in Carrying /\ pc[w] \in Counting /\ pc[w] = "exhausted"
    BY <1>7 DEF CountFailed, Carrying, Counting
  <2>2. /\ j \in Jobs /\ meter[j] \in Meter /\ job \in [Jobs -> Lifecycle!Row]
        /\ MeterRow(meter[j], job[j]) /\ meter[j].failed = 0
        /\ job[j].status = "failed"
    BY <2>1, MeterFacts DEF MeterAt
  <2>3. /\ m.completed = meter[j].completed /\ m.failed = 1
        /\ m.retries = meter[j].retries
    BY <2>2, MeterFields
  <2>4. MeterRow(m, job[j]) /\ MeterAt("releasing", m, job[j])
    BY <2>2, <2>3 DEF MeterRow, MeterAt
  <2>5. /\ meter' = [meter EXCEPT ![j] = m] /\ UNCHANGED cur
        /\ job' = [job EXCEPT ![j] = job[j]]
        /\ pc' = [pc EXCEPT ![w] = "releasing"]
    BY <1>7, <2>2 DEF CountFailed, Goto
  <2> HIDE DEF m
  <2> QED BY <2>1, <2>3, <2>4, <2>5, MeterStep DEF m
<1>8. ASSUME NEW j \in Jobs, CreateJob(j) PROVE MetersBounded' /\ CountedOnce'
  <2>1. /\ job[j].status = "absent" /\ job[j].retry = 0
        /\ job'[j].status = "queued" /\ job'[j].retry = 0
        /\ \A k \in Jobs \ {j} : job'[k] = job[k]
        /\ \A w \in Workers : cur[w] # j
    BY <1>0, <1>8 DEF CreateJob, MessageState, TypeOK, Lifecycle!NewRow, Lifecycle!NoRow,
                      MsgInv, OneMessage
  <2>2. UNCHANGED <<meter, pc, cur>>
    BY <1>8 DEF CreateJob
  <2>3. MetersBounded'
    BY <2>1, <2>2 DEF MeterInv, MetersBounded
  <2>4. \A k \in Jobs : Pending(k)' => meter'[k].completed = 0
    BY <1>0, <2>2, PendingStep DEF MeterInv, CountedOnce
  <2>5. \A w \in Workers : pc'[w] \in Counting =>
           MeterAt(pc'[w], meter'[cur'[w]], job'[cur'[w]])
    <3>1. \A w \in Workers : pc[w] \in Counting => cur[w] \in Jobs
      BY <1>0, CurIsJob DEF Counting
    <3> QED BY <2>1, <2>2, <3>1 DEF MeterInv, CountedOnce
  <2> QED BY <2>3, <2>4, <2>5 DEF CountedOnce
<1>9. ASSUME NEW w \in Workers, WorkerStep(w) \/ WorkerFault(w),
             ~ExecuteReturns(w), ~RecordFailure(w), ~CompleteJob(w), ~StartJob(w),
             ~SessionFails(w), ~CountRetry(w), ~CountFailed(w)
      PROVE  /\ UNCHANGED <<job, meter>>
             /\ \A v \in Workers : pc'[v] \in Counting => pc[v] = pc'[v] /\ cur'[v] = cur[v]
  <2>1. UNCHANGED <<job, meter>>
    BY <1>9 DEF WorkerStep, WorkerFault, Poll, PollTimesOut, PollLosesMessage, PollRaises,
         vars, AcquireLock, LockBusy, AcquireFails, SkipCompleted, ExecuteRaises,
         RequeueJob, RequeueFails, ReleaseLock, ReleaseFails, Crash, Restart
  <2>2. \A v \in Workers : pc'[v] \in Counting => pc[v] = pc'[v] /\ cur'[v] = cur[v]
    BY <1>0, <1>9 DEF WorkerStep, WorkerFault, Poll, PollTimesOut, PollLosesMessage,
         PollRaises, vars, AcquireLock, LockBusy, AcquireFails, SkipCompleted,
         ExecuteRaises, RequeueJob, RequeueFails, ReleaseLock, ReleaseFails, Crash,
         Restart, Goto, Drop, TypeOK, Counting
  <2> QED BY <2>1, <2>2
<1>10. CASE \E w \in Workers : WorkerStep(w) \/ WorkerFault(w)
  BY <1>1, <1>2, <1>3, <1>4, <1>5, <1>6, <1>7, <1>9, <1>10, MeterQuietStep
<1>11. ASSUME NEW j \in Jobs, EnqueueJob(j) \/ EnqueueFails(j) \/ LockExpires(j)
       PROVE  MetersBounded' /\ CountedOnce'
  BY <1>11, MeterQuietStep DEF EnqueueJob, EnqueueFails, LockExpires
<1>12. CASE UNCHANGED vars
  BY <1>12, MeterQuietStep DEF vars
<1> QED BY <1>8, <1>10, <1>11, <1>12 DEF Next, Api

\* The counters never run ahead of the table: no failure and no end of a job is
\* counted twice, JOB_FAILED only counts FAILED rows and JOB_COMPLETED misses no
\* COMPLETED row, whatever ends a worker between a commit and a count, and
\* whichever commit is applied without its answer.
THEOREM CountersNeverAhead ==
    ASSUME ~Redelivery
    PROVE  Spec => []MetersBounded
<1>1. Init => MeterInv
  <2> SUFFICES ASSUME Init PROVE MetersBounded /\ CountedOnce
    BY InitMsg DEF MeterInv
  <2>1. \A j \in Jobs : /\ job[j] = Lifecycle!NoRow
                        /\ meter[j].completed = 0 /\ meter[j].failed = 0
                        /\ meter[j].retries = 0
    BY DEF Init, Lifecycle!Init
  <2>2. Lifecycle!NoRow.status = "absent" /\ Lifecycle!NoRow.retry = 0
    BY DEF Lifecycle!NoRow
  <2>3. \A w \in Workers : pc[w] = "idle"
    BY DEF Init
  <2> QED BY <2>1, <2>2, <2>3 DEF MetersBounded, CountedOnce, Counting
<1>2. MeterInv /\ [Next]_vars => MeterInv'
  BY StepMeter
<1>3. MeterInv => MetersBounded
  BY DEF MeterInv
<1> QED BY <1>1, <1>2, <1>3, PTL DEF Spec

=============================================================================
