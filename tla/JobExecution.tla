---------------------------- MODULE JobExecution ----------------------------
(***************************************************************************)
(* JobQueue together with execute_prediction_job (job_executor.py): whether *)
(* an execution returns or raises now depends on the type of the job and on *)
(* what the provider's feed is at that moment.  The faults of JobQueue have *)
(* their own runs and are left out of the composition, as is the end of an  *)
(* idle worker: REDIS_TIMEOUT is set above the 5 s of its poll.             *)
(***************************************************************************)
EXTENDS JobQueue

CONSTANT JobType     \* the job_type of each job; the API admits no other

\* The types that build an accumulator, and those that list one market.
Composite == {"1k", "5k", "weekly_safe"}
MarketList == {"over_1_5", "over_2_5", "btts", "under_2_5", "under_4_5"}

ASSUME JobExecutionAssumption ==
    /\ JobType \in [Jobs -> Composite \cup MarketList]
    /\ ReadOutlastsPoll

VARIABLES
    feed,    \* what get_upcoming_events finds
    met      \* history: the feeds the executions of each job found

allVars == <<vars, feed, met>>

\* "outage": every provider fails; "bare": no event has an active market;
\* "thin": some has, but no accumulator reaches a target; "rich": one does.
Feeds == {"outage", "bare", "thin", "rich"}

ExecutionInit == /\ Init
                 /\ feed \in Feeds
                 /\ met = [j \in Jobs |-> {}]

-----------------------------------------------------------------------------
(* execute_prediction_job                                                  *)

Markets == MarketList \cup {"double_chance", "match_result", "all"}

\* MARKET_ALIASES has no entry for Market.ALL.
Aliased == Markets \ {"all"}

\* service.generate looks the aliases up at the first active market it meets.
LoopRaises == feed \in {"thin", "rich"} /\ ~(Markets \subseteq Aliased)

\* Mutant: a market without candidates is an error, as an absent ticket is.
SucceedsStrict(type) ==
    feed = "rich" /\ (type \in Composite => ~LoopRaises)

\* A market's list may be empty; an accumulator must be found.
Succeeds(type) ==
    /\ feed # "outage"
    /\ type \in Composite => ~LoopRaises /\ feed = "rich"

Execute(w) ==
    /\ pc[w] = "executing"
    /\ \/ Succeeds(JobType[cur[w]]) /\ ExecuteReturns(w)
       \/ ~Succeeds(JobType[cur[w]]) /\ ExecuteRaises(w)
    /\ met' = [met EXCEPT ![cur[w]] = @ \cup {feed}]
    /\ UNCHANGED feed

\* The rest of run_worker and process_job.
Carry(w) ==
    /\ pc[w] # "executing"
    /\ WorkerStep(w)
    /\ UNCHANGED <<feed, met>>

Submit(j) == Api(j) /\ UNCHANGED <<feed, met>>

Expire(j) == LockExpires(j) /\ UNCHANGED <<feed, met>>

FeedChanges ==
    /\ feed' \in Feeds \ {feed}
    /\ UNCHANGED <<vars, met>>

-----------------------------------------------------------------------------

ExecutionNext ==
    \/ \E j \in Jobs : Submit(j) \/ Expire(j)
    \/ \E w \in Workers : Execute(w) \/ Carry(w)
    \/ FeedChanges

\* The fairness of JobQueue; the feed owes nothing.
ExecutionSpec ==
    /\ ExecutionInit
    /\ [][ExecutionNext]_allVars
    /\ \A w \in Workers : WF_allVars(Execute(w) \/ Carry(w))
    /\ \A j \in Jobs : WF_allVars(EnqueueJob(j) /\ UNCHANGED <<feed, met>>)

-----------------------------------------------------------------------------
(* Properties; see also JobsFinish.                                        *)

Failed(j) == job[j].status = "failed"

\* A job that lists a market is only given up when the provider failed in every
\* one of its MAX_RETRIES executions: no feed, however poor, makes it fail.
OnlyOutagesFail ==
    \A j \in Jobs : Failed(j) /\ JobType[j] \in MarketList => met[j] = {"outage"}

=============================================================================
