------------------------------ MODULE Dispatch ------------------------------
(***************************************************************************)
(* How a worker comes to run for every queued job when workers are runs of *)
(* a GitHub workflow (execution.py; drain and the hand-over in worker.py;  *)
(* datacourt-worker.yml): the commit of a transaction that enqueued a job  *)
(* dispatches a run, a run drains the queue and hands over to a successor  *)
(* when its time is up, polls dispatch again what nobody picked up, and a  *)
(* schedule is the safety net.                                             *)
(***************************************************************************)
EXTENDS Integers, FiniteSets

CONSTANTS
    DispatchJobs,   \* jobs, enqueued by a request or by a job of a worker
    FollowUps,      \* those that no request enqueues
    LongJobs,       \* those whose time limit only a fresh run has left
    Slots,          \* the worker_max_parallel slots, each a concurrency group
    FirstSlot,      \* the slot whose worker a scheduled run is as well
    MaxFaults       \* bound: lost dispatches, runs that die, attempts that fail

ASSUME DispatchAssumption ==
    /\ FollowUps \subseteq DispatchJobs /\ LongJobs \subseteq DispatchJobs
    /\ "none" \notin DispatchJobs
    /\ FirstSlot \in Slots /\ "scheduled" \notin Slots /\ MaxFaults \in Nat

VARIABLES
    job_row,            \* the jobs: status, due and dispatched_at
    waking,         \* committed jobs whose dispatch is still to come
    pending,        \* groups with a run waiting; another one would replace it
    active,         \* group -> its running run
    poller,         \* the job a poll has stamped and not yet dispatched, or "none"
    faults,
    unattended      \* jobs a fault, or a time of execution in the future, has left to the polls

dispatchVars == <<job_row, waking, pending, active, poller, faults, unattended>>

Groups == Slots \cup {"scheduled"}
NotEnqueued == [status |-> "none", due |-> TRUE, dispatched |-> "never"]
NoRun == [at |-> "none", budget |-> "fresh", processed |-> FALSE, job |-> "none"]

DispatchInit ==
    /\ job_row = [j \in DispatchJobs |-> NotEnqueued]
    /\ waking = {} /\ pending = {} /\ active = [g \in Groups |-> NoRun]
    /\ poller = "none" /\ faults = 0 /\ unattended = {}

-----------------------------------------------------------------------------
Queued == {j \in DispatchJobs : job_row[j].status = "queued"}
DueJobs == {j \in Queued : job_row[j].due}
Takes(g, j) == j \in DueJobs /\ (j \in LongJobs => active[g].budget = "fresh")

\* Jobs whose run has died a moment ago: their slot still seems to be live.
Orphans == {j \in DispatchJobs : job_row[j].status = "running" /\ \A g \in Groups : active[g].job # j}

Status(j, s) == [job_row EXCEPT ![j].status = s]
Fault == faults < MaxFaults /\ faults' = faults + 1

-----------------------------------------------------------------------------
(* Requests *)

EnqueueJob(j) ==
    /\ job_row[j].status = "none" /\ j \notin FollowUps
    /\ job_row' = Status(j, "uncommitted")
    /\ UNCHANGED <<waking, pending, active, poller, faults, unattended>>

\* _after_commit
CommitEnqueue(j) ==
    /\ job_row[j].status = "uncommitted"
    /\ job_row' = Status(j, "queued")
    /\ waking' = waking \cup {j}
    /\ UNCHANGED <<pending, active, poller, faults, unattended>>

\* _after_soft_rollback
RollbackEnqueue(j) ==
    /\ job_row[j].status = "uncommitted"
    /\ job_row' = Status(j, "none")
    /\ UNCHANGED <<waking, pending, active, poller, faults, unattended>>

\* choose_slot, a run in that slot, and the time on the job: which slot is the least busy matters
\* to none of the properties, so any may be; a failure to record is only logged.
Dispatched(j) ==
    /\ \E slot \in Slots : pending' = pending \cup {slot}
    /\ job_row' \in {[job_row EXCEPT ![j].dispatched = "recent"], job_row}
    /\ UNCHANGED <<faults, unattended>>

\* GitHub refuses or cannot be reached, which is recorded too, or the process ends before.
DispatchLost(j) ==
    /\ Fault
    /\ job_row' \in {[job_row EXCEPT ![j].dispatched = "recent"], job_row}
    /\ unattended' = unattended \cup {j}
    /\ UNCHANGED pending

DispatchCommitted(j) ==
    /\ j \in waking
    /\ Dispatched(j) \/ DispatchLost(j)
    /\ waking' = waking \ {j}
    /\ UNCHANGED <<active, poller>>

-----------------------------------------------------------------------------
(* Time *)

\* Longer ago than dispatch_retry_after_seconds, times the backoff.
DispatchAges(j) ==
    /\ job_row[j].status = "queued" /\ job_row[j].dispatched = "recent"
    /\ job_row' = [job_row EXCEPT ![j].dispatched = "old"]
    /\ UNCHANGED <<waking, pending, active, poller, faults, unattended>>

BecomesDue(j) ==
    /\ job_row[j].status = "queued" /\ ~job_row[j].due
    /\ job_row' = [job_row EXCEPT ![j].due = TRUE]
    /\ UNCHANGED <<waking, pending, active, poller, faults, unattended>>

\* The heartbeat of a job whose run has died is older than job_stale_after_seconds.
GoesStale(j) ==
    /\ j \in Orphans
    /\ job_row' = Status(j, "stale")
    /\ UNCHANGED <<waking, pending, active, poller, faults, unattended>>

\* Of the budget of five hours first what a long job needs (three at most) is gone, then all but
\* a minute.  Only jobs take that long, waiting for one takes minutes.
BudgetShrinks(g) ==
    /\ active[g].at \in {"drain", "work", "look"} /\ active[g].budget # "out"
    /\ active[g].processed \/ active[g].at = "work"
    /\ active' = [active EXCEPT ![g].budget = IF @ = "fresh" THEN "short" ELSE "out"]
    /\ UNCHANGED <<job_row, waking, pending, poller, faults, unattended>>

ScheduleRun ==
    /\ "scheduled" \notin pending
    /\ pending' = pending \cup {"scheduled"}
    /\ UNCHANGED <<job_row, waking, active, poller, faults, unattended>>

-----------------------------------------------------------------------------
(* Polls *)

\* Mutant: nobody reaps the jobs of runs that died.
Reaped_None(rows) == {rows}

\* reap_stale: queued again, or failed after the last attempt.
Reaped(rows) ==
    {[j \in DispatchJobs |-> IF rows[j].status = "stale" THEN [rows[j] EXCEPT !.status = s] ELSE rows[j]] :
        s \in {"queued", "done"}}

LiveSlots == {g \in Slots : active[g].at = "work"}
                \cup {g \in Slots : active["scheduled"].at = "work" /\ g = FirstSlot}

\* The condition of _REDISPATCH_SQL.
Redispatchable(r) == r.status = "queued" /\ r.due /\ r.dispatched # "recent"

\* The transaction of maybe_redispatch: a stamp before the dispatch, so that another poll
\* passes over the job.
PollStamp ==
    /\ poller = "none"
    /\ \E rows \in Reaped(job_row) :
        \/ \E j \in DispatchJobs :
            /\ Redispatchable(rows[j])
            /\ job_row' = [rows EXCEPT ![j].dispatched = "recent"]
            /\ poller' = j
        \/ /\ \A j \in DispatchJobs : ~Redispatchable(rows[j])
           /\ rows # job_row
           /\ job_row' = rows
           /\ UNCHANGED poller
    /\ UNCHANGED <<waking, pending, active, faults, unattended>>

\* No run is dispatched if every slot has a live worker.
PollDispatch ==
    /\ poller # "none"
    /\ \/ /\ LiveSlots = Slots \/ Orphans # {}
          /\ UNCHANGED <<job_row, pending, faults, unattended>>
       \/ /\ LiveSlots # Slots
          /\ Dispatched(poller) \/ DispatchLost(poller)
    /\ poller' = "none"
    /\ UNCHANGED <<waking, active>>

-----------------------------------------------------------------------------
(* Runs *)

At(g, at) == [active EXCEPT ![g].at = at]

StartRun(g) ==
    /\ g \in pending /\ active[g].at = "none"
    /\ pending' = pending \ {g}
    /\ active' = [active EXCEPT ![g] = [NoRun EXCEPT !.at = "check"]]
    /\ UNCHANGED <<job_row, waking, poller, faults, unattended>>

\* main with --task check: without work the run ends here.  A job due within five minutes is work.
CheckQueue(g) ==
    /\ active[g].at = "check"
    /\ \E rows \in Reaped(job_row) :
        /\ job_row' = rows
        /\ \/ /\ \E j \in DispatchJobs : rows[j].status = "queued"
              /\ active' = At(g, "drain")
           \/ /\ \A j \in DispatchJobs : rows[j].status = "queued" => ~rows[j].due
              /\ active' = [active EXCEPT ![g] = NoRun]
    /\ UNCHANGED <<waking, pending, poller, faults, unattended>>

\* drain, run_once: a job, if there is one the budget allows.
ClaimJob(g) ==
    /\ active[g].at = "drain" /\ active[g].budget # "out"
    /\ \/ \E j \in DispatchJobs :
            /\ Takes(g, j)
            /\ job_row' = Status(j, "running")
            /\ active' = [active EXCEPT ![g].at = "work", ![g].job = j]
       \/ /\ \A j \in DispatchJobs : ~Takes(g, j)
          /\ active' = At(g, "look")
          /\ UNCHANGED job_row
    /\ UNCHANGED <<waking, pending, poller, faults, unattended>>

\* A job of the worker enqueues the next one (an ingestion its audit), and stamp_local marks it:
\* no run is dispatched for it.
EnqueueFollowUp(g, j) ==
    /\ active[g].at = "work" /\ job_row[j].status = "none"
    /\ job_row' = [job_row EXCEPT ![j] = [status |-> "queued", due |-> TRUE, dispatched |-> "recent"]]
    /\ UNCHANGED <<waking, pending, active, poller, faults, unattended>>

EndJob(g) ==
    /\ active[g].at = "work"
    /\ LET j == active[g].job IN
       \/ /\ job_row' = Status(j, "done")
          /\ unattended' = unattended \ {j}
          /\ UNCHANGED faults
       \/ /\ Fault
          /\ job_row' = [job_row EXCEPT ![j].status = "queued", ![j].due = FALSE]
          /\ unattended' = unattended \cup {j}
    /\ active' = [active EXCEPT ![g].at = "drain", ![g].processed = TRUE, ![g].job = "none"]
    /\ UNCHANGED <<waking, pending, poller>>

\* After a look without a job: due now, so look again; due but too long, so the budget is over;
\* none due, so wait for one.
LookAgain(g) ==
    /\ active[g].at = "look"
    /\ \/ /\ DueJobs = {} \/ \E j \in DispatchJobs : Takes(g, j)
          /\ active' = At(g, "drain")
       \/ /\ DueJobs # {} /\ \A j \in DispatchJobs : ~Takes(g, j)
          /\ active' = At(g, "hand_over")
    /\ UNCHANGED <<job_row, waking, pending, poller, faults, unattended>>

\* idle_seconds without a job.
IdleOut(g) ==
    /\ active[g].at = "look" /\ DueJobs = {}
    /\ active' = [active EXCEPT ![g] = NoRun]
    /\ UNCHANGED <<job_row, waking, pending, poller, faults, unattended>>

BudgetOver(g) ==
    /\ active[g].at = "drain" /\ active[g].budget = "out"
    /\ active' = At(g, "hand_over")
    /\ UNCHANGED <<job_row, waking, pending, poller, faults, unattended>>

\* Mutant: a run that stops for its budget ends like any other.
HandOver_None(g) ==
    /\ active[g].at = "hand_over"
    /\ active' = [active EXCEPT ![g] = NoRun]
    /\ UNCHANGED <<job_row, waking, pending, poller, faults, unattended>>

\* _continue_elsewhere: a successor in the same slot, after progress.  A scheduled run works in the first slot.
HandOver(g) ==
    /\ active[g].at = "hand_over"
    /\ active' = [active EXCEPT ![g] = NoRun]
    /\ IF active[g].processed /\ Queued # {}
       THEN \/ /\ pending' = pending \cup {IF g = "scheduled" THEN FirstSlot ELSE g}
               /\ \E j \in Queued : job_row' \in {[job_row EXCEPT ![j].dispatched = "recent"], job_row}
               /\ UNCHANGED <<faults, unattended>>
            \/ /\ Fault
               /\ unattended' = unattended \cup Queued
               /\ UNCHANGED <<job_row, pending>>
       ELSE UNCHANGED <<job_row, pending, faults, unattended>>
    /\ UNCHANGED <<waking, poller>>

\* The runner is lost, or told to stop.
RunDies(g) ==
    /\ active[g].at # "none" /\ Fault
    /\ active' = [active EXCEPT ![g] = NoRun]
    /\ unattended' = unattended \cup Queued \cup ({active[g].job} \cap DispatchJobs)
    /\ UNCHANGED <<job_row, waking, pending, poller>>

DispatchNext ==
    \/ \E j \in DispatchJobs :
        \/ EnqueueJob(j) \/ CommitEnqueue(j) \/ RollbackEnqueue(j)
        \/ DispatchAges(j) \/ BecomesDue(j) \/ GoesStale(j)
        \/ DispatchCommitted(j)
    \/ PollStamp \/ PollDispatch \/ ScheduleRun
    \/ \E g \in Groups :
        \/ StartRun(g) \/ CheckQueue(g) \/ ClaimJob(g) \/ EndJob(g) \/ LookAgain(g) \/ IdleOut(g)
        \/ BudgetShrinks(g) \/ BudgetOver(g) \/ HandOver(g) \/ RunDies(g)
        \/ \E j \in DispatchJobs : EnqueueFollowUp(g, j)

\* What goes on by itself: time, the steps of a run and the schedule of the workflow.  A run that
\* finds nothing again and again stops, because idle_since is kept until it has had a job.  Nothing
\* is assumed of clients that poll.
DispatchFairness ==
    /\ WF_dispatchVars(ScheduleRun)
    /\ \A j \in DispatchJobs : WF_dispatchVars(BecomesDue(j)) /\ WF_dispatchVars(GoesStale(j))
    /\ \A g \in Groups :
        /\ WF_dispatchVars(StartRun(g)) /\ WF_dispatchVars(CheckQueue(g)) /\ WF_dispatchVars(ClaimJob(g))
        /\ WF_dispatchVars(EndJob(g)) /\ WF_dispatchVars(LookAgain(g)) /\ WF_dispatchVars(BudgetOver(g))
        /\ WF_dispatchVars(HandOver(g)) /\ SF_dispatchVars(IdleOut(g))

DispatchSpec == DispatchInit /\ [][DispatchNext]_dispatchVars
DispatchFairSpec == DispatchSpec /\ DispatchFairness

-----------------------------------------------------------------------------
(* Properties *)

\* Unless a dispatch was lost, an attempt failed or a run died, a queued job has a run coming:
\* its dispatch is on its way, a run is waiting, or one is active that looks at the queue again
\* before it ends.  No race of a commit with the end of a run leaves it behind.
Coming(j) ==
    \/ j \in waking
    \/ pending # {}
    \/ \E g \in Groups : active[g].at # "none"
NoLostWakeup == \A j \in DueJobs \ unattended : Coming(j)

\* Every job that is queued is done with in the end, whatever dispatch was lost, because the
\* schedule starts a run that drains the queue.
JobsGetDone == \A j \in DispatchJobs : job_row[j].status = "queued" ~> job_row[j].status = "done"
=============================================================================
