------------------------------ MODULE JobQueue ------------------------------
(***************************************************************************)
(* The job queue of DataCourt: the rows of the jobs table, the workers     *)
(* that claim and run them, the heartbeats that keep a claim alive, the    *)
(* reaper that takes a claim back, and the cancellation of a job.          *)
(*                                                                         *)
(* One action is one committed transaction of jobs.py together with the    *)
(* worker code around it (worker.py, Worker._execute).  fail and           *)
(* request_cancel read the row without a lock and write it back later:     *)
(* each of them is two actions, a load and a commit, and the row may       *)
(* change hands between the two.  Wall-clock time is kept as the two facts *)
(* the queue asks about it: whether run_after has passed (due) and whether *)
(* heartbeat_at is older than the cut-off of the reaper (stale).           *)
(***************************************************************************)
EXTENDS Integers, FiniteSets

CONSTANTS
    Jobs,           \* identities of job rows
    Workers,        \* worker processes (embedded, GitHub Actions runs, --forever)
    MaxAttempts,    \* Job.max_attempts
    Cancellable,    \* the jobs an API route may cancel (RUN_AUDIT jobs)
    Errors,         \* the classes of exception a handler may fail with
    MayStall,       \* may a live worker let the stale interval pass without a sign of life?
    MayCrash,       \* may the process of a worker die in the middle of a job?
    NoJob, NoWorker

Retryable  == {"transient", "internal", "resource_exhausted"}
ErrorClass == Retryable \cup {"permanent", "cancelled", "timeout"}

ASSUME JobQueueAssumption ==
    /\ MaxAttempts \in Nat \ {0}
    /\ IsFiniteSet(Workers) /\ Workers # {}
    /\ Cancellable \subseteq Jobs /\ Errors \subseteq ErrorClass
    /\ MayStall \in BOOLEAN /\ MayCrash \in BOOLEAN
    /\ NoJob \notin Jobs
    /\ NoWorker \notin Workers

VARIABLES
    status,             \* Job.status; "absent" before the row exists
    attempts,           \* Job.attempts
    due,                \* run_after <= now()
    stale,              \* heartbeat_at < now() - job_stale_after_seconds
    cancel_requested,   \* Job.cancel_requested
    locked_by,          \* Job.locked_by
    phase,              \* where a worker is in Worker._execute
    running,            \* the job a worker is executing
    cancelled,          \* JobContext.cancelled of that execution
    raised,             \* class of the exception the execution failed with
    seen,               \* the row as the session of an open jobs.fail has loaded it
    cancelling          \* what an open request_cancel is going to write, if there is one

jobVars    == <<status, attempts, due, stale, cancel_requested, locked_by, cancelling>>
workerVars == <<phase, running, cancelled, raised, seen>>
vars       == <<jobVars, workerVars>>

Terminal  == {"completed", "failed", "cancelled"}
Status    == {"absent", "queued", "running"} \cup Terminal
Busy      == {"handler", "failing", "propagate"}
Phase     == {"idle", "dead"} \cup Busy
Request   == {"none", "dequeue", "flag"}

\* The columns of a row that jobs.fail decides from, and those of no row.
Row(j) == [status |-> status[j], attempts |-> attempts[j], locked |-> locked_by[j] # NoWorker]
NoRow  == [status |-> "absent", attempts |-> 0, locked |-> FALSE]

-----------------------------------------------------------------------------
Init ==
    /\ status = [j \in Jobs |-> "absent"]
    /\ attempts = [j \in Jobs |-> 0]
    /\ due = [j \in Jobs |-> TRUE]
    /\ stale = [j \in Jobs |-> FALSE]
    /\ cancel_requested = [j \in Jobs |-> FALSE]
    /\ locked_by = [j \in Jobs |-> NoWorker]
    /\ phase = [w \in Workers |-> "idle"]
    /\ running = [w \in Workers |-> NoJob]
    /\ cancelled = [w \in Workers |-> FALSE]
    /\ raised = [w \in Workers |-> "none"]
    /\ seen = [w \in Workers |-> NoRow]
    /\ cancelling = [j \in Jobs |-> "none"]

\* A worker leaves _execute: the context of the execution is gone.
Release(w, p) ==
    /\ phase' = [phase EXCEPT ![w] = p]
    /\ running' = [running EXCEPT ![w] = NoJob]
    /\ cancelled' = [cancelled EXCEPT ![w] = FALSE]
    /\ raised' = [raised EXCEPT ![w] = "none"]
    /\ seen' = [seen EXCEPT ![w] = NoRow]

\* jobs.enqueue: a new row, due at once (run_after defaults to now).
Enqueue(j) ==
    /\ status[j] = "absent"
    /\ status' = [status EXCEPT ![j] = "queued"]
    /\ UNCHANGED <<attempts, due, stale, cancel_requested, locked_by, cancelling, workerVars>>

\* The time of the backoff passes.
BackoffElapses(j) ==
    /\ ~due[j]
    /\ due' = [due EXCEPT ![j] = TRUE]
    /\ UNCHANGED <<status, attempts, stale, cancel_requested, locked_by, cancelling, workerVars>>

\* jobs.claim: the row is taken and heartbeat_at set in one UPDATE.
Claim(w, j) ==
    /\ phase[w] = "idle"
    /\ status[j] = "queued" /\ due[j] /\ ~cancel_requested[j]
    /\ status' = [status EXCEPT ![j] = "running"]
    /\ locked_by' = [locked_by EXCEPT ![j] = w]
    /\ stale' = [stale EXCEPT ![j] = FALSE]
    /\ attempts' = [attempts EXCEPT ![j] = @ + 1]
    /\ phase' = [phase EXCEPT ![w] = "handler"]
    /\ running' = [running EXCEPT ![w] = j]
    /\ UNCHANGED <<due, cancel_requested, cancelling, cancelled, raised, seen>>

\* JobContext.flush: heartbeat_at is written whoever holds the row by now, and the
\* cancellation flag comes back with it.
Heartbeat(w) ==
    /\ phase[w] = "handler"
    /\ stale' = [stale EXCEPT ![running[w]] = FALSE]
    /\ cancelled' = [cancelled EXCEPT ![w] = @ \/ cancel_requested[running[w]]]
    /\ UNCHANGED <<status, attempts, due, cancel_requested, locked_by, cancelling>>
    /\ UNCHANGED <<phase, running, raised, seen>>

\* The handler returned: jobs.complete writes the row without a condition.
Complete(w) ==
    /\ phase[w] = "handler"
    /\ status' = [status EXCEPT ![running[w]] = "completed"]
    /\ locked_by' = [locked_by EXCEPT ![running[w]] = NoWorker]
    /\ Release(w, "idle")
    /\ UNCHANGED <<attempts, due, stale, cancel_requested, cancelling>>

\* Mutant: the attempt limit is compared with <=.
Requeues_OffByOne(n, cls) == cls \in Retryable /\ n <= MaxAttempts

\* What jobs.fail makes of a row with n attempts for an exception of class cls.
Requeues(n, cls) == cls \in Retryable /\ n < MaxAttempts
Outcome(n, cls) ==
    IF cls = "cancelled" THEN "cancelled"
    ELSE IF Requeues(n, cls) THEN "queued" ELSE "failed"

\* The handler raised and its heartbeat thread has ended: jobs.fail reads the row.
\* JobCancelled is only raised by JobContext.check_cancelled once a heartbeat has brought
\* the flag back; the context is not looked at again.
LoadForFail(w, cls) ==
    /\ phase[w] = "handler"
    /\ cls = "cancelled" => cancelled[w]
    /\ phase' = [phase EXCEPT ![w] = "failing"]
    /\ raised' = [raised EXCEPT ![w] = cls]
    /\ seen' = [seen EXCEPT ![w] = Row(running[w])]
    /\ cancelled' = [cancelled EXCEPT ![w] = FALSE]
    /\ UNCHANGED <<jobVars, running>>

\* jobs.fail commits what it made of the row it read, whatever the row says by now.  Only a
\* column that differs from the value read is written; run_after is new at every re-queue.
CommitFail(w) ==
    LET j   == running[w]
        out == Outcome(seen[w].attempts, raised[w]) IN
    /\ phase[w] = "failing"
    /\ status' = [status EXCEPT ![j] = IF out = seen[w].status THEN @ ELSE out]
    /\ due' = [due EXCEPT ![j] = @ /\ out # "queued"]
    /\ locked_by' = [locked_by EXCEPT ![j] = IF seen[w].locked THEN NoWorker ELSE @]
    /\ \/ /\ out = "queued"
          /\ Release(w, "idle")
       \/ /\ out # "queued"
          /\ phase' = [phase EXCEPT ![w] = "propagate"]
          /\ seen' = [seen EXCEPT ![w] = NoRow]
          /\ UNCHANGED <<running, cancelled, raised>>
    /\ UNCHANGED <<attempts, stale, cancel_requested, cancelling>>

\* worker._on_job_failure: a transaction of its own after the one of jobs.fail.
\* What it writes into the owning row is added by the modules that have one.
Propagate(w) ==
    /\ phase[w] = "propagate"
    /\ Release(w, "idle")
    /\ UNCHANGED jobVars

\* The process of a worker dies in the middle of a job; another one is started.
Crash(w) ==
    /\ MayCrash
    /\ phase[w] \in Busy
    /\ Release(w, "dead")
    /\ UNCHANGED jobVars

Restart(w) ==
    /\ phase[w] = "dead"
    /\ phase' = [phase EXCEPT ![w] = "idle"]
    /\ UNCHANGED <<jobVars, running, cancelled, raised, seen>>

\* A live worker is inside the handler of j, its heartbeat thread running, or about to
\* record that the handler failed.
Executing(w, j) == phase[w] \in {"handler", "failing"} /\ running[w] = j
Beating(j) == \E w \in Workers : Executing(w, j)

\* job_stale_after_seconds pass without a heartbeat of j.
HeartbeatLapses(j) ==
    /\ status[j] = "running" /\ ~stale[j]
    /\ MayStall \/ ~Beating(j)
    /\ stale' = [stale EXCEPT ![j] = TRUE]
    /\ UNCHANGED <<status, attempts, due, cancel_requested, locked_by, cancelling, workerVars>>

\* Mutant: every running row is reaped, fresh heartbeat or not.
Reap_Fresh(j) ==
    /\ status[j] = "running"
    /\ status' = [status EXCEPT ![j] = IF attempts[j] < MaxAttempts THEN "queued" ELSE "failed"]
    /\ due' = [due EXCEPT ![j] = TRUE]
    /\ locked_by' = [locked_by EXCEPT ![j] = NoWorker]
    /\ UNCHANGED <<attempts, stale, cancel_requested, cancelling, workerVars>>

\* Mutant: only rows with attempts left are reaped.
Reap_AttemptsLeft(j) ==
    /\ status[j] = "running" /\ stale[j] /\ attempts[j] < MaxAttempts
    /\ status' = [status EXCEPT ![j] = "queued"]
    /\ due' = [due EXCEPT ![j] = TRUE]
    /\ locked_by' = [locked_by EXCEPT ![j] = NoWorker]
    /\ UNCHANGED <<attempts, stale, cancel_requested, cancelling, workerVars>>

\* jobs.reap_stale, one row at a time: run by workers and by the API.
Reap(j) ==
    /\ status[j] = "running" /\ stale[j]
    /\ status' = [status EXCEPT ![j] = IF attempts[j] < MaxAttempts THEN "queued" ELSE "failed"]
    /\ due' = [due EXCEPT ![j] = TRUE]
    /\ locked_by' = [locked_by EXCEPT ![j] = NoWorker]
    /\ UNCHANGED <<attempts, stale, cancel_requested, cancelling, workerVars>>

\* jobs.request_cancel reads the row: a row that is queued will be written as cancelled.  A
\* request whose commit never comes is replaced by the next one.
LoadForCancel(j) ==
    /\ status[j] # "absent"
    /\ cancelling' = [cancelling EXCEPT ![j] = IF status[j] = "queued" THEN "dequeue" ELSE "flag"]
    /\ UNCHANGED <<status, attempts, due, stale, cancel_requested, locked_by, workerVars>>

\* Its caller commits: the flag is set whatever the row says by now, and the status if the
\* row was queued when it was read.
CommitCancel(j) ==
    /\ cancelling[j] # "none"
    /\ status' = [status EXCEPT ![j] = IF cancelling[j] = "dequeue" THEN "cancelled" ELSE @]
    /\ cancel_requested' = [cancel_requested EXCEPT ![j] = TRUE]
    /\ cancelling' = [cancelling EXCEPT ![j] = "none"]
    /\ UNCHANGED <<attempts, due, stale, locked_by, workerVars>>

-----------------------------------------------------------------------------
ClaimJob(j)    == \E w \in Workers : Claim(w, j)
HandlerEnds(w) == Complete(w) \/ \E cls \in Errors : LoadForFail(w, cls)

Next ==
    \/ \E j \in Jobs : Enqueue(j) \/ BackoffElapses(j) \/ HeartbeatLapses(j) \/ Reap(j)
    \/ \E j \in Cancellable : LoadForCancel(j) \/ CommitCancel(j)
    \/ \E w \in Workers, j \in Jobs : Claim(w, j)
    \/ \E w \in Workers :
        \/ Heartbeat(w) \/ Complete(w) \/ CommitFail(w) \/ Propagate(w) \/ Crash(w) \/ Restart(w)
        \/ \E cls \in Errors : LoadForFail(w, cls)

Spec == Init /\ [][Next]_vars

\* Workers poll (run_forever, drain), a handler ends at the latest at its time limit, a
\* worker that has begun to record a failure commits it, a crashed worker is replaced
\* (six-hourly workflow, redispatch), the reaper runs in every worker and on every status
\* poll, and time passes.
Fairness ==
    /\ \A j \in Jobs : /\ WF_vars(ClaimJob(j))
                       /\ WF_vars(BackoffElapses(j))
                       /\ WF_vars(HeartbeatLapses(j) /\ ~Beating(j))
                       /\ WF_vars(Reap(j))
    /\ \A w \in Workers : /\ WF_vars(HandlerEnds(w))
                          /\ WF_vars(CommitFail(w))
                          /\ WF_vars(Propagate(w))
                          /\ WF_vars(Restart(w))

FairSpec == Spec /\ Fairness

-----------------------------------------------------------------------------
TypeOK ==
    /\ status \in [Jobs -> Status]
    /\ attempts \in [Jobs -> Nat]
    /\ due \in [Jobs -> BOOLEAN]
    /\ stale \in [Jobs -> BOOLEAN]
    /\ cancel_requested \in [Jobs -> BOOLEAN]
    /\ locked_by \in [Jobs -> Workers \cup {NoWorker}]
    /\ phase \in [Workers -> Phase]
    /\ running \in [Workers -> Jobs \cup {NoJob}]
    /\ cancelled \in [Workers -> BOOLEAN]
    /\ raised \in [Workers -> ErrorClass \cup {"none"}]
    /\ seen \in [Workers -> [status : Status, attempts : Nat, locked : BOOLEAN]]
    /\ cancelling \in [Jobs -> Request]
    /\ \A w \in Workers : running[w] \in Jobs <=> phase[w] \in Busy

\* A job is handed to a worker at most max_attempts times, however crashes, retries and reaps
\* interleave; the claim itself does not look at the limit, fail and reap_stale keep it.  A
\* worker that stalls between the read and the commit of fail can re-queue a row that was
\* reaped and claimed for the last time in between.  Each of the other workers, and each of
\* the earlier attempts, can do so once: that is all the limit is exceeded by.
AttemptsBounded ==
    \A j \in Jobs :
        IF MayStall
        THEN attempts[j] < MaxAttempts + Cardinality(Workers) /\ attempts[j] < 2 * MaxAttempts
        ELSE attempts[j] <= MaxAttempts

\* A row that a cancellation has written over a claim: its worker does not know yet.
CancelledUnderWorker(j) == status[j] = "cancelled" /\ cancel_requested[j]

\* While no live worker stalls, a running row names its worker in locked_by, and a row that
\* names one is running or was cancelled over the claim; choose_slot counts the jobs of a
\* slot by the two columns.
LockMatchesStatus ==
    ~MayStall => \A j \in Jobs :
        /\ status[j] = "running" => locked_by[j] # NoWorker
        /\ locked_by[j] # NoWorker => status[j] = "running" \/ CancelledUnderWorker(j)

\* A job runs on one worker at a time.
OneWorkerPerJob ==
    \A v, w \in Workers, j \in Jobs : Executing(v, j) /\ Executing(w, j) => v = w

\* While no live worker stalls, the row of a worker that executes a job names that worker
\* until it has recorded how the job ended, and no claim can take it: what complete and fail
\* write then hits a row that nobody but a cancellation has touched.
ExecutorOwnsRow ==
    \A w \in Workers, j \in Jobs :
        Executing(w, j) =>
            locked_by[j] = w /\ (status[j] = "running" \/ CancelledUnderWorker(j))

\* OneWorkerPerJob is claimed only of a deployment whose live workers never stall.
ExclusiveUnlessStalled == ~MayStall => OneWorkerPerJob /\ ExecutorOwnsRow

\* A queued job reaches a terminal status, through any mixture of failures, crashes, stalls and
\* reaps, unless somebody asks to cancel it.
JobSettles ==
    \A j \in Jobs : status[j] = "queued" ~> status[j] \in Terminal \/ cancel_requested[j]

\* A job somebody asked to cancel reaches a terminal status.
CancelSettles ==
    \A j \in Cancellable : cancel_requested[j] ~> status[j] \in Terminal

\* What the queue promises of each job when live workers do not stall: see JobLease.  A lease
\* is out while locked_by names a worker, even if the row has been cancelled under it.
Leased(j) == status[j] = "running" \/ (status[j] \in Terminal /\ locked_by[j] # NoWorker)

LeaseState ==
    [j \in Jobs |-> CASE status[j] = "absent" -> "absent"
                      [] status[j] = "queued" -> "waiting"
                      [] Leased(j)            -> "held"
                      [] OTHER                -> "closed"]
LeaseHolders == [j \in Jobs |-> {w \in Workers : Executing(w, j)}]

Lease == INSTANCE JobLease WITH
    state <- LeaseState, grants <- attempts, holders <- LeaseHolders

\* Every step of the queue is a step of the lease, or leaves it unchanged.
ImplementsLease == Lease!Spec
=============================================================================
