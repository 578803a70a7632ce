---------------------------- MODULE JobLifecycle ----------------------------
(***************************************************************************)
(* What a client that polls GET /api/v1/jobs/{id} may observe: the life of *)
(* one prediction_jobs row, without the queue, the locks and the workers   *)
(* that move it.  JobQueue implements this specification (see              *)
(* JobQueue!LifecycleSpec).                                                *)
(***************************************************************************)
EXTENDS Naturals

CONSTANTS Jobs,         \* the job ids handed out by POST /jobs
          MaxRetries    \* jobs.py MAX_RETRIES

VARIABLE job            \* the prediction_jobs table

\* The columns of a row the properties tell apart.  progress and the three
\* timestamps are functions of the steps below and are left out.
Row == [status : {"absent", "queued", "running", "completed", "failed"},
        retry  : Nat,
        error  : BOOLEAN,      \* the error column is set
        result : BOOLEAN]      \* the result column is set

NoRow  == [status |-> "absent", retry |-> 0, error |-> FALSE, result |-> FALSE]
NewRow == [NoRow EXCEPT !.status = "queued"]

\* The session block run before an execution.
Started(row) == [row EXCEPT !.status = "running"]

\* Mutant: one attempt too many.
AfterFailureOneMore(row) ==
    [row EXCEPT !.retry  = @ + 1,
                !.error  = TRUE,
                !.status = IF row.retry < MaxRetries THEN "queued" ELSE "failed"]

\* The session block run after an execution that raised.
AfterFailure(row) ==
    [row EXCEPT !.retry  = @ + 1,
                !.error  = TRUE,
                !.status = IF row.retry + 1 < MaxRetries THEN "queued"
                                                         ELSE "failed"]

\* Mutant: the error of an earlier attempt stays.
AfterSuccessKeepsError(row) == [row EXCEPT !.status = "completed", !.result = TRUE]

\* The session block run after an execution that returned.
AfterSuccess(row) ==
    [row EXCEPT !.status = "completed", !.error = FALSE, !.result = TRUE]

Init == job = [j \in Jobs |-> NoRow]

Create(j) == /\ job[j].status = "absent"
             /\ job' = [job EXCEPT ![j] = NewRow]

Start(j) == /\ job[j].status = "queued"
            /\ job' = [job EXCEPT ![j] = Started(@)]

Fail(j) == /\ job[j].status = "running"
           /\ job[j].retry < MaxRetries
           /\ job' = [job EXCEPT ![j] = AfterFailure(@)]

Complete(j) == /\ job[j].status = "running"
               /\ job' = [job EXCEPT ![j] = AfterSuccess(@)]

Next == \E j \in Jobs : Create(j) \/ Start(j) \/ Fail(j) \/ Complete(j)

Spec == Init /\ [][Next]_job

=============================================================================
