-------------------------------- MODULE Purge --------------------------------
(***************************************************************************)
(* How the objects of a deleted version leave the store (services/purge.py *)
(* and purge_prefix of storage.py): the request schedules a job in the     *)
(* transaction of the deletion and then purges inline for a while, a       *)
(* worker runs the job if that was not enough, and a worker that does not  *)
(* know of the deletion yet may still write.                               *)
(***************************************************************************)
EXTENDS Integers, FiniteSets

CONSTANTS
    Objects,            \* objects a job of the version may write below its prefix
    PageSize,           \* objects of one listing and one batch of deletions
    MaxPurgeAttempts    \* max_attempts of the purge job

ASSUME PurgeAssumption == PageSize \in Nat \ {0} /\ MaxPurgeAttempts \in Nat

VARIABLES
    version_row,        \* whether the row of the version is there
    below,              \* the objects below its prefix
    writer,             \* the job of the version: queued, running, stalled (the reaper has taken
                        \* its row, its process goes on) or gone
    deletion,           \* the request: idle, scheduled, purging or done
    purge_job,          \* the row of the purge job
    purger,             \* the loop of purge_prefix in the request and in the worker
    old,                \* the objects of the version when it was deleted, not written since
    outrun              \* whether a writer escapes the wait of the purge

purgeHistory == <<old, outrun>>
purgeVars == <<version_row, below, writer, deletion, purge_job, purger, purgeHistory>>

Resting == [at |-> "rest", page |-> {}, more |-> FALSE]
Loop(at, page, more) == [at |-> at, page |-> page, more |-> more]
NoPurge == [status |-> "none", sweep |-> FALSE, due |-> FALSE, attempts |-> 0]
Loops == {"inline", "worker"}

PurgeInit ==
    /\ version_row = TRUE /\ below = {} /\ writer = "queued"
    /\ deletion = "idle" /\ purge_job = NoPurge
    /\ purger = [x \in Loops |-> Resting]
    /\ old = {} /\ outrun = FALSE

-----------------------------------------------------------------------------
(* The job that writes below the prefix: ingestion, audit, export, report. *)

Writing == writer \in {"running", "stalled"}

\* One that is claimed between schedule and the commit is not waited for.
ClaimWriter ==
    /\ writer = "queued"
    /\ writer' = IF version_row THEN "running" ELSE "gone"
    /\ outrun' = (outrun \/ deletion = "scheduled")
    /\ UNCHANGED <<version_row, below, deletion, purge_job, purger, old>>

WriteObject(o) ==
    /\ Writing /\ o \notin below
    /\ below' = below \cup {o}
    /\ old' = old \ {o}
    /\ UNCHANGED <<version_row, writer, deletion, purge_job, purger, outrun>>

\* The reaper takes the row of a worker whose heartbeats have stopped.
StallWriter ==
    /\ writer = "running"
    /\ writer' = "stalled"
    /\ UNCHANGED <<version_row, below, deletion, purge_job, purger, purgeHistory>>

\* It ends, or notices that its rows are gone.
WriterEnds ==
    /\ Writing
    /\ writer' = "gone"
    /\ UNCHANGED <<version_row, below, deletion, purge_job, purger, purgeHistory>>

-----------------------------------------------------------------------------
(* The request. *)

\* Mutant: schedule does not look for running jobs.
Busy_Never == FALSE

\* schedule: is a job of the workspace running?
Busy == writer = "running"

SchedulePurge ==
    /\ deletion = "idle"
    /\ deletion' = "scheduled"
    /\ purge_job' = [NoPurge EXCEPT !.sweep = Busy]
    /\ outrun' = (writer = "stalled")
    /\ UNCHANGED <<version_row, below, writer, purger, old>>

\* One transaction: the rows go, the job is there.  A sweep waits for its run_after.
CommitDeletion ==
    /\ deletion = "scheduled"
    /\ deletion' = "purging"
    /\ version_row' = FALSE
    /\ purge_job' = [purge_job EXCEPT !.status = "queued", !.due = ~purge_job.sweep]
    /\ old' = below
    /\ UNCHANGED <<below, writer, purger, outrun>>

\* run_inline: nothing to do if a worker was faster.
StartInline ==
    /\ deletion = "purging" /\ purger["inline"].at = "rest"
    /\ IF purge_job.status = "queued"
       THEN /\ purger' = [purger EXCEPT !["inline"] = Loop("list", {}, FALSE)]
            /\ UNCHANGED deletion
       ELSE /\ deletion' = "done"
            /\ UNCHANGED purger
    /\ UNCHANGED <<version_row, below, writer, purge_job, purgeHistory>>

\* Mutant: a purge that has to sweep later is done as well.
InlineDone_SweepToo == TRUE

InlineDone == ~purge_job.sweep

\* The end of run_inline, with an update that only a queued job admits.
CompleteInline ==
    /\ purger["inline"].at = "clean"
    /\ deletion' = "done"
    /\ purger' = [purger EXCEPT !["inline"] = Resting]
    /\ purge_job' = IF InlineDone /\ purge_job.status = "queued"
                    THEN [purge_job EXCEPT !.status = "completed"] ELSE purge_job
    /\ UNCHANGED <<version_row, below, writer, purgeHistory>>

\* The store is unavailable, the time is over, or the process of the request ends: before the
\* commit nothing has happened, after it the job is left to a worker.
RequestEnds ==
    /\ deletion \in {"scheduled", "purging"}
    /\ deletion' = IF deletion = "scheduled" THEN "idle" ELSE "done"
    /\ purge_job' = IF deletion = "scheduled" THEN NoPurge ELSE purge_job
    /\ purger' = [purger EXCEPT !["inline"] = Resting]
    /\ UNCHANGED <<version_row, below, writer, purgeHistory>>

-----------------------------------------------------------------------------
(* purge_prefix: list from the start, delete the page, until nothing is left. *)

\* Mutant: a full page is taken for the last one.
Truncated_Never(page) == FALSE

Truncated(page) == below # page

ListPage(x) ==
    /\ purger[x].at = "list"
    /\ \E page \in SUBSET below :
        /\ Cardinality(page) = PageSize \/ (page = below /\ Cardinality(page) < PageSize)
        /\ purger' = [purger EXCEPT ![x] =
                IF page = {} THEN Loop("clean", {}, FALSE) ELSE Loop("delete", page, Truncated(page))]
    /\ UNCHANGED <<version_row, below, writer, deletion, purge_job, purgeHistory>>

\* _delete_batch
DeletePage(x) ==
    /\ purger[x].at = "delete"
    /\ below' = below \ purger[x].page
    /\ purger' = [purger EXCEPT ![x] = Loop(IF purger[x].more THEN "list" ELSE "clean", {}, FALSE)]
    /\ UNCHANGED <<version_row, writer, deletion, purge_job, purgeHistory>>

-----------------------------------------------------------------------------
(* The worker. *)

\* run_after: job_stale_after_seconds and 300 more have passed.  A job that was running when the
\* purge was scheduled has noticed by then that its rows are gone, or it has not.
SweepDue ==
    /\ purge_job.status = "queued" /\ ~purge_job.due
    /\ purge_job' = [purge_job EXCEPT !.due = TRUE]
    /\ outrun' = (outrun \/ Writing)
    /\ UNCHANGED <<version_row, below, writer, deletion, purger, old>>

ClaimPurge ==
    /\ purge_job.status = "queued" /\ purge_job.due
    /\ purge_job' = [purge_job EXCEPT !.status = "running", !.attempts = @ + 1]
    /\ purger' = [purger EXCEPT !["worker"] = Loop("list", {}, FALSE)]
    /\ UNCHANGED <<version_row, below, writer, deletion, purgeHistory>>

CompletePurge ==
    /\ purger["worker"].at = "clean"
    /\ purge_job' = [purge_job EXCEPT !.status = "completed"]
    /\ purger' = [purger EXCEPT !["worker"] = Resting]
    /\ UNCHANGED <<version_row, below, writer, deletion, purgeHistory>>

\* An error of the store, objects that cannot be deleted, or the worker dies.
PurgeFails ==
    /\ purger["worker"].at # "rest"
    /\ purge_job' = [purge_job EXCEPT !.status =
                        IF purge_job.attempts < MaxPurgeAttempts THEN "queued" ELSE "failed"]
    /\ purger' = [purger EXCEPT !["worker"] = Resting]
    /\ UNCHANGED <<version_row, below, writer, deletion, purgeHistory>>

PurgeNext ==
    \/ ClaimWriter \/ StallWriter \/ WriterEnds \/ \E o \in Objects : WriteObject(o)
    \/ SchedulePurge \/ CommitDeletion \/ StartInline \/ CompleteInline \/ RequestEnds
    \/ \E x \in Loops : ListPage(x) \/ DeletePage(x)
    \/ SweepDue \/ ClaimPurge \/ CompletePurge \/ PurgeFails

PurgeSpec == PurgeInit /\ [][PurgeNext]_purgeVars

-----------------------------------------------------------------------------
(* Properties *)

\* Once the purge of a deleted version has completed, in the request or in a worker, nothing of
\* what was stored when it was deleted is left, although a worker went on writing below the prefix
\* meanwhile.  Nothing at all is left, then or later, if that worker was seen when the purge was
\* scheduled and has ended when the sweep falls due.
NoLeftovers ==
    purge_job.status = "completed" => below \cap old = {} /\ (outrun \/ below = {})
=============================================================================
