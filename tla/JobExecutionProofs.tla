------------------------- MODULE JobExecutionProofs -------------------------
(***************************************************************************)
(* What JobExecution promises, for every set of jobs and workers and every  *)
(* assignment of types: it only restricts JobQueue, so what is proved of    *)
(* the queue holds of it, and a job that lists a market only fails when the *)
(* provider was out in each of its executions.                              *)
(***************************************************************************)
EXTENDS JobExecution, JobQueueProofs, TLAPS

-----------------------------------------------------------------------------
(* JobExecution implements JobQueue.                                       *)

LEMMA ExecutionSteps ==
    ASSUME [ExecutionNext]_allVars
    PROVE  [Next]_vars
<1>1. ASSUME NEW j \in Jobs, Submit(j) \/ Expire(j) PROVE Next
  BY <1>1 DEF Submit, Expire, Next
<1>2. ASSUME NEW w \in Workers, Execute(w) \/ Carry(w) PROVE Next
  BY <1>2 DEF Execute, Carry, Next, WorkerStep
<1>3. CASE FeedChanges
  BY <1>3 DEF FeedChanges
<1>4. CASE UNCHANGED allVars
  BY <1>4 DEF allVars
<1> QED BY <1>1, <1>2, <1>3, <1>4 DEF ExecutionNext

\* The executor decides whether an execution returns or raises; apart from that
\* the jobs take the steps of JobQueue and no other.
THEOREM ExecutionImplementsQueue == ExecutionSpec => Spec
<1>1. ExecutionSpec => ExecutionInit /\ [][ExecutionNext]_allVars
  BY PTL DEF ExecutionSpec
<1>2. ExecutionInit => Init
  BY DEF ExecutionInit
<1>3. [ExecutionNext]_allVars => [Next]_vars
  BY ExecutionSteps
<1> QED BY <1>1, <1>2, <1>3, PTL DEF Spec

-----------------------------------------------------------------------------
(* Only outages make a job fail that lists a market.                       *)

MetTypes == feed \in Feeds /\ met \in [Jobs -> SUBSET Feeds]

\* As long as the job may be executed again, no execution has met any feed but
\* an outage; an execution that raised has met one.
OutagesSoFar(j) ==
    JobType[j] \in MarketList =>
        /\ Pending(j) => met[j] \subseteq {"outage"}
        /\ Failed(j) => met[j] = {"outage"}

RaisedMet == \A w \in Workers : pc[w] = "failing" => met[cur[w]] # {}

ExecInv == MetTypes /\ RaisedMet /\ \A j \in Jobs : OutagesSoFar(j)

\* execute_prediction_job raises for a market list in an outage and never else.
LEMMA ListsRaiseInOutages ==
    ASSUME NEW type \in MarketList, ~Succeeds(type)
    PROVE  feed = "outage"
BY DEF Succeeds, MarketList, Composite

\* A row becomes FAILED where process_job records the failure of its worker, by
\* a commit that is answered or not.
LEMMA WhoFails ==
    ASSUME MsgInv, [Next]_vars, NEW j \in Jobs, Failed(j)', ~Failed(j)
    PROVE  \E w \in Workers : pc[w] = "failing" /\ cur[w] = j
<1> USE DEF Failed
<1>1. job' # job
  OBVIOUS
<1>2. ASSUME NEW k \in Jobs, CreateJob(k) PROVE FALSE
  <2>1. Lifecycle!NewRow.status # "failed"
    BY DEF Lifecycle!NewRow, Lifecycle!NoRow
  <2> QED BY <1>2, <2>1 DEF CreateJob, MsgInv, TypeOK
<1>3. ASSUME NEW w \in Workers, StartJob(w) \/ CompleteJob(w) PROVE FALSE
  <2>1. /\ cur[w] \in Jobs /\ job \in [Jobs -> Lifecycle!Row]
        /\ job[cur[w]] \in Lifecycle!Row
    BY <1>3, CurIsJob DEF StartJob, CompleteJob, MsgInv, TypeOK
  <2>2. /\ Lifecycle!Started(job[cur[w]]).status # "failed"
        /\ Lifecycle!AfterSuccess(job[cur[w]]).status # "failed"
    BY <2>1, RowStatus
  <2>3. \/ job' = [job EXCEPT ![cur[w]] = Lifecycle!Started(job[cur[w]])]
        \/ job' = [job EXCEPT ![cur[w]] = Lifecycle!AfterSuccess(job[cur[w]])]
    BY <1>3 DEF StartJob, CompleteJob
  <2>4. \/ job'[j] = job[j] \/ job'[j] = Lifecycle!Started(job[cur[w]])
        \/ job'[j] = Lifecycle!AfterSuccess(job[cur[w]])
    BY <2>1, <2>3
  <2> QED BY <2>2, <2>4
<1>4. ASSUME NEW w \in Workers, RecordFailure(w) PROVE pc[w] = "failing" /\ cur[w] = j
  <2>1. job' = [job EXCEPT ![cur[w]] = Lifecycle!AfterFailure(job[cur[w]])]
    BY <1>4 DEF RecordFailure
  <2> QED BY <1>4, <2>1 DEF RecordFailure, MsgInv, TypeOK
<1>5. ASSUME NEW w \in Workers, SessionFails(w) PROVE pc[w] = "failing" /\ cur[w] = j
  <2>1. /\ cur[w] \in Jobs /\ job \in [Jobs -> Lifecycle!Row]
        /\ job[cur[w]] \in Lifecycle!Row
        /\ job' = [job EXCEPT ![cur[w]] = Committed(w)]
    BY <1>1, <1>5, CurIsJob DEF SessionFails, MsgInv, TypeOK
  <2>2. cur[w] = j /\ job'[j] = Committed(w)
    BY <2>1
  <2>3. /\ Lifecycle!Started(job[cur[w]]).status # "failed"
        /\ Lifecycle!AfterSuccess(job[cur[w]]).status # "failed"
    BY <2>1, RowStatus
  <2>4. pc[w] # "failing" => Committed(w).status # "failed"
    BY <1>5, <2>2, <2>3 DEF SessionFails, Committed
  <2> QED BY <2>2, <2>4
<1>6. \/ \E k \in Jobs : CreateJob(k)
      \/ \E w \in Workers : \/ StartJob(w) \/ CompleteJob(w) \/ RecordFailure(w)
                            \/ SessionFails(w)
  BY <1>1 DEF Next, vars, Api, WorkerStep, WorkerFault, EnqueueJob, EnqueueFails,
      LockExpires, Poll, PollTimesOut, PollLosesMessage, PollRaises, AcquireLock,
      LockBusy, AcquireFails, SkipCompleted, ExecuteReturns, ExecuteRaises, CountRetry,
      CountFailed, RequeueJob, RequeueFails, ReleaseLock, ReleaseFails, Crash, Restart
<1> QED BY <1>2, <1>3, <1>4, <1>5, <1>6

\* A worker comes to "failing" when its own execution raises.
LEMMA WhoRaises ==
    ASSUME MsgInv, [Next]_vars, NEW w \in Workers, pc'[w] = "failing",
           \A v \in Workers : ~ExecuteRaises(v)
    PROVE  pc[w] = "failing" /\ cur'[w] = cur[w]
<1>1. ASSUME NEW j \in Jobs, Api(j) \/ LockExpires(j)
      PROVE  pc[w] = "failing" /\ cur'[w] = cur[w]
  BY <1>1 DEF Api, CreateJob, EnqueueJob, EnqueueFails, LockExpires
<1>2. ASSUME NEW v \in Workers, WorkerStep(v) \/ WorkerFault(v)
      PROVE  pc[w] = "failing" /\ cur'[w] = cur[w]
  BY <1>2 DEF MsgInv, TypeOK, vars, WorkerStep, WorkerFault, Poll, PollTimesOut,
      PollLosesMessage, PollRaises, AcquireLock, LockBusy, AcquireFails, SkipCompleted,
      StartJob, ExecuteReturns, RecordFailure, CountRetry, CountFailed, CompleteJob, RequeueJob,
      RequeueFails, SessionFails, ReleaseLock, ReleaseFails, Crash, Restart, Goto, Drop
<1> QED BY <1>1, <1>2 DEF Next, vars

LEMMA StepExec ==
    ASSUME ~Redelivery
    PROVE  MsgInv /\ ExecInv /\ [ExecutionNext]_allVars => ExecInv'
<1> SUFFICES ASSUME MsgInv, ExecInv, [ExecutionNext]_allVars PROVE ExecInv'
  OBVIOUS
<1>0. /\ [Next]_vars /\ TypeOK /\ MessageState
      /\ MetTypes /\ RaisedMet /\ \A j \in Jobs : OutagesSoFar(j)
  BY ExecutionSteps DEF MsgInv, ExecInv
<1>1. ASSUME NEW w \in Workers, Execute(w) PROVE ExecInv'
  <2> DEFINE k == cur[w]
  <2>1. /\ k \in Jobs /\ pc[w] = "executing" /\ job[k].status = "running"
        /\ Pending(k) /\ feed \in Feeds /\ met \in [Jobs -> SUBSET Feeds]
    BY <1>0, <1>1, CurIsJob
       DEF Execute, MessageState, Active, Pending, Carrying, MetTypes
  <2>2. /\ met' = [met EXCEPT ![k] = met[k] \cup {feed}]
        /\ UNCHANGED <<feed, job, cur>>
        /\ \A v \in Workers \ {w} : pc'[v] = pc[v]
    BY <1>0, <1>1 DEF Execute, ExecuteReturns, ExecuteRaises, Goto, TypeOK
  <2>3. met'[k] = met[k] \cup {feed} /\ \A j \in Jobs \ {k} : met'[j] = met[j]
    BY <2>1, <2>2
  <2>4. MetTypes'
    BY <2>1, <2>2 DEF MetTypes
  <2>5. RaisedMet'
    <3>1. ASSUME NEW v \in Workers, pc'[v] = "failing" PROVE met'[cur'[v]] # {}
      <4>1. CASE v = w
        BY <2>2, <2>3, <4>1
      <4>2. CASE v # w
        <5>1. pc[v] = "failing" /\ cur[v] \in Jobs /\ met[cur[v]] # {}
          BY <1>0, <2>2, <3>1, <4>2, CurIsJob DEF RaisedMet
        <5> QED BY <2>2, <2>3, <5>1
      <4> QED BY <4>1, <4>2
    <3> QED BY <3>1 DEF RaisedMet
  <2>6. ASSUME NEW j \in Jobs PROVE OutagesSoFar(j)'
    <3> SUFFICES ASSUME JobType[j] \in MarketList
                 PROVE  /\ Pending(j)' => met'[j] \subseteq {"outage"}
                        /\ Failed(j)' => met'[j] = {"outage"}
      BY DEF OutagesSoFar
    <3>1. Pending(j)' => Pending(j)
      BY <1>0, PendingStep
    <3>2. CASE j # k
      BY <1>0, <2>2, <2>3, <3>1, <3>2 DEF OutagesSoFar, Failed
    <3>3. CASE j = k
      <4>1. ~Failed(j)'
        BY <2>1, <2>2, <3>3 DEF Failed
      <4>2. CASE Succeeds(JobType[k]) /\ ExecuteReturns(w)
        BY <3>3, <4>1, <4>2, ReturnEnds
      <4>3. CASE ~Succeeds(JobType[k])
        BY <1>0, <2>1, <2>3, <3>3, <4>1, <4>3, ListsRaiseInOutages DEF OutagesSoFar
      <4> QED BY <1>1, <4>2, <4>3 DEF Execute
    <3> QED BY <3>2, <3>3
  <2> QED BY <2>4, <2>5, <2>6 DEF ExecInv
<1>2. ASSUME UNCHANGED met, feed' \in Feeds, \A v \in Workers : ~ExecuteRaises(v)
      PROVE  ExecInv'
  <2>1. MetTypes'
    BY <1>0, <1>2 DEF MetTypes
  <2>2. RaisedMet'
    BY <1>0, <1>2, WhoRaises DEF RaisedMet
  <2>3. ASSUME NEW j \in Jobs PROVE OutagesSoFar(j)'
    <3> SUFFICES ASSUME JobType[j] \in MarketList
                 PROVE  /\ Pending(j)' => met'[j] \subseteq {"outage"}
                        /\ Failed(j)' => met'[j] = {"outage"}
      BY DEF OutagesSoFar
    <3>1. Pending(j)' => Pending(j)
      BY <1>0, PendingStep
    <3>2. ASSUME Failed(j)', ~Failed(j) PROVE met[j] = {"outage"}
      <4> PICK w \in Workers : pc[w] = "failing" /\ cur[w] = j
        BY <1>0, <3>2, WhoFails
      <4>1. pc[w] = "failing" /\ Pending(j)
        BY DEF Pending, Carrying
      <4> QED BY <1>0, <4>1 DEF OutagesSoFar, RaisedMet
    <3> QED BY <1>0, <1>2, <3>1, <3>2 DEF OutagesSoFar
  <2> QED BY <2>1, <2>2, <2>3 DEF ExecInv
<1>3. ASSUME NEW w \in Workers, Carry(w) PROVE ExecInv'
  <2>1. \A v \in Workers : ~ExecuteRaises(v)
    <3> SUFFICES ASSUME NEW v \in Workers, ExecuteRaises(v) PROVE FALSE
      OBVIOUS
    <3>1. pc[v] = "executing" /\ pc'[v] = "failing"
      BY <1>0 DEF ExecuteRaises, Goto, TypeOK
    <3>2. pc[w] # "executing" /\ WorkerStep(w)
      BY <1>3 DEF Carry
    <3>3. pc'[v] = pc[v]
      BY <1>0, <3>1, <3>2 DEF TypeOK, vars, WorkerStep, Poll, PollTimesOut, AcquireLock,
          LockBusy, SkipCompleted, StartJob, ExecuteReturns, ExecuteRaises,
          RecordFailure, CountRetry, CountFailed, CompleteJob, RequeueJob, ReleaseLock,
          Goto, Drop
    <3> QED BY <3>1, <3>3
  <2> QED BY <1>0, <1>2, <1>3, <2>1 DEF Carry, MetTypes
<1>4. ASSUME UNCHANGED <<met, pc>>, feed' \in Feeds PROVE ExecInv'
  <2>1. \A v \in Workers : ~ExecuteRaises(v)
    BY <1>0, <1>4 DEF ExecuteRaises, Goto, TypeOK
  <2> QED BY <1>2, <1>4, <2>1
<1>5. ASSUME NEW j \in Jobs, Submit(j) \/ Expire(j) PROVE ExecInv'
  BY <1>0, <1>4, <1>5 DEF Submit, Expire, Api, CreateJob, EnqueueJob, EnqueueFails,
     LockExpires, MetTypes
<1>6. CASE FeedChanges
  BY <1>4, <1>6 DEF FeedChanges, vars
<1>7. CASE UNCHANGED allVars
  BY <1>0, <1>4, <1>7 DEF allVars, vars, MetTypes
<1> QED BY <1>1, <1>3, <1>5, <1>6, <1>7 DEF ExecutionNext

\* What the executions of each job have met, at every moment of its life.
THEOREM ExecutionInvariant ==
    ASSUME ~Redelivery
    PROVE  ExecutionSpec => []ExecInv
<1>1. ExecutionInit => ExecInv
  <2> SUFFICES ASSUME ExecutionInit PROVE ExecInv
    OBVIOUS
  <2>1. MetTypes /\ \A j \in Jobs : met[j] = {}
    BY DEF ExecutionInit, MetTypes
  <2>2. \A j \in Jobs : ~Failed(j)
    BY DEF ExecutionInit, Init, Lifecycle!Init, Lifecycle!NoRow, Failed
  <2>3. RaisedMet
    BY DEF ExecutionInit, Init, RaisedMet
  <2> QED BY <2>1, <2>2, <2>3 DEF ExecInv, OutagesSoFar
<1>2. MsgInv /\ ExecInv /\ [ExecutionNext]_allVars => ExecInv'
  BY StepExec
<1>3. ExecutionSpec => ExecutionInit /\ [][ExecutionNext]_allVars
  BY PTL DEF ExecutionSpec
<1> QED BY <1>1, <1>2, <1>3, ExecutionImplementsQueue, MessageInvariant, PTL

\* A job that lists a market only fails when the provider was out in every one
\* of its executions.
THEOREM ListsFailInOutages ==
    ASSUME ~Redelivery
    PROVE  ExecutionSpec => []OnlyOutagesFail
<1>1. ExecInv => OnlyOutagesFail
  BY DEF ExecInv, OutagesSoFar, OnlyOutagesFail
<1> QED BY <1>1, ExecutionInvariant, PTL

=============================================================================
