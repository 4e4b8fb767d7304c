------------------------------ MODULE AuditRun ------------------------------
(***************************************************************************)
(* One audit: its row, its pipeline steps, the RUN_AUDIT jobs queued for   *)
(* it, the workers that run them and the API routes that start, cancel and *)
(* resume it.  Each action is an action of JobQueue together with what the *)
(* same transaction, or the handler around it, does to the audit.          *)
(***************************************************************************)
EXTENDS JobQueue

CONSTANTS
    NumStages,          \* length of PIPELINE
    MayResumeAtOnce,    \* may two resumes fall into one second of the clock?
    MayCancelClaimed    \* may a cancellation mark an audit that a worker has been given?

ASSUME AuditRunAssumption ==
    /\ NumStages \in Nat \ {0}
    /\ MayResumeAtOnce \in BOOLEAN /\ MayCancelClaimed \in BOOLEAN

VARIABLES
    audit,          \* AuditRun.status; "absent" before the row exists
    audit_job,      \* AuditRun.job_id
    step,           \* status of each AuditPipelineStep (SKIPPED counts as completed)
    pc,             \* where a worker is inside run_audit_job
    at,             \* the stage a worker is at; NumStages + 1 is finalize_audit
    key_second,     \* the resume key of audit_job is still the one of the current second
    completions,    \* number of audit.completed events in the ledger
    marking         \* the open cancellation has read the audit as queued

rowVars     == <<audit, audit_job, step, key_second, completions, marking>>
handlerVars == <<pc, at>>
auditVars   == <<vars, rowVars, handlerVars>>

Stages      == 1..NumStages
StepStatus  == {"pending", "running", "completed", "failed"}
HandlerPc   == {"none", "load", "checkpoint", "stage", "raise", "return"}
Unfinished  == {"queued", "running"}

\* A worker that leaves the handler has no position in it.
Leave(w) == pc' = [pc EXCEPT ![w] = "none"] /\ at' = [at EXCEPT ![w] = 1]
Goto(w, p) == pc' = [pc EXCEPT ![w] = p] /\ UNCHANGED at

AuditInit ==
    /\ Init
    /\ audit = "absent" /\ audit_job = NoJob
    /\ step = [k \in Stages |-> "pending"]
    /\ pc = [w \in Workers |-> "none"] /\ at = [w \in Workers |-> 1]
    /\ key_second = FALSE
    /\ completions = 0
    /\ marking = FALSE

-----------------------------------------------------------------------------
(* The API.                                                                *)

\* start_audit and create_audit: the audit and its job in one transaction.
StartAudit(j) ==
    /\ audit = "absent"
    /\ Enqueue(j)
    /\ audit' = "queued" /\ audit_job' = j
    /\ UNCHANGED <<step, key_second, completions, marking, handlerVars>>

\* A worker has the job of an audit that still says queued: the handler's first transaction,
\* or the report of its failure, is yet to come.
Claimed == audit = "queued" /\ \E w \in Workers : running[w] = audit_job

\* cancel_audit reads the audit and its job: only an audit that has not been started will be
\* marked.  One request is open at a time; one whose commit never comes is replaced.
LoadForCancelAudit ==
    /\ audit \in Unfinished
    /\ \A j \in Jobs \ {audit_job} : cancelling[j] = "none"
    /\ LoadForCancel(audit_job)
    /\ marking' = (audit = "queued")
    /\ UNCHANGED <<audit, audit_job, step, key_second, completions, handlerVars>>

\* Mutant: a running audit is marked as well.
CommitCancelAudit_Marks(j) ==
    /\ CommitCancel(j)
    /\ marking => MayCancelClaimed \/ (audit = "queued" /\ audit_job = j /\ ~Claimed)
    /\ audit' = "cancelled" /\ marking' = FALSE
    /\ UNCHANGED <<audit_job, step, key_second, completions, handlerVars>>

\* It commits, whatever the audit and the job say by now.  Unless MayCancelClaimed, a request
\* that marks the audit commits before a worker is given its job, and before another request
\* has settled the audit.
CommitCancelAudit(j) ==
    /\ CommitCancel(j)
    /\ marking => MayCancelClaimed \/ (audit = "queued" /\ audit_job = j /\ ~Claimed)
    /\ audit' = IF marking THEN "cancelled" ELSE audit
    /\ marking' = FALSE
    /\ UNCHANGED <<audit_job, step, key_second, completions, handlerVars>>

\* Mutant: the status of the audit is not looked at.
ResumeAudit_AnyStatus(j) ==
    /\ audit # "absent"
    /\ Enqueue(j)
    /\ audit' = "queued" /\ audit_job' = j /\ key_second' = MayResumeAtOnce
    /\ UNCHANGED <<step, completions, marking, handlerVars>>

\* retry_audit with an idempotency key of its own: a new job; completed steps are kept.
ResumeAudit(j) ==
    /\ audit \in {"failed", "cancelled"}
    /\ Enqueue(j)
    /\ audit' = "queued" /\ audit_job' = j /\ key_second' = MayResumeAtOnce
    /\ UNCHANGED <<step, completions, marking, handlerVars>>

\* retry_audit in the second of the previous one: the key (seconds since the epoch) is
\* taken, so enqueue returns the job that has it.
ResumeAuditSameKey ==
    /\ audit \in {"failed", "cancelled"} /\ key_second
    /\ audit' = "queued"
    /\ UNCHANGED <<vars, audit_job, step, key_second, completions, marking, handlerVars>>

SecondPasses ==
    /\ key_second /\ key_second' = FALSE
    /\ UNCHANGED <<vars, audit, audit_job, step, completions, marking, handlerVars>>

-----------------------------------------------------------------------------
(* The handler, run_audit_job.                                             *)

TakeJob(w, j) ==
    /\ Claim(w, j)
    /\ Goto(w, "load")
    /\ UNCHANGED rowVars

Beat(w) == Heartbeat(w) /\ UNCHANGED <<rowVars, handlerVars>>

\* Mutant: the check for an audit that is already complete is dropped.
Load_NoSkip(w) ==
    /\ pc[w] = "load"
    /\ audit' = "running"
    /\ Goto(w, "checkpoint")
    /\ UNCHANGED <<vars, audit_job, step, key_second, completions, marking>>

\* First transaction: a completed audit is left alone, any other one is marked running.
Load(w) ==
    /\ pc[w] = "load"
    /\ IF audit = "completed"
       THEN Goto(w, "return") /\ UNCHANGED audit
       ELSE Goto(w, "checkpoint") /\ audit' = "running"
    /\ UNCHANGED <<vars, audit_job, step, key_second, completions, marking>>

\* Mutant: a completed step is run again.
BeginStage_NoSkip(w) ==
    /\ pc[w] = "checkpoint" /\ at[w] \in Stages /\ ~cancelled[w]
    /\ step' = [step EXCEPT ![at[w]] = "running"]
    /\ Goto(w, "stage")
    /\ UNCHANGED <<vars, audit, audit_job, key_second, completions, marking>>

\* check_cancelled passed; a completed step is skipped, any other one marked running.
BeginStage(w) ==
    /\ pc[w] = "checkpoint" /\ at[w] \in Stages /\ ~cancelled[w]
    /\ IF step[at[w]] = "completed"
       THEN /\ at' = [at EXCEPT ![w] = @ + 1]
            /\ UNCHANGED <<pc, step>>
       ELSE /\ step' = [step EXCEPT ![at[w]] = "running"]
            /\ Goto(w, "stage")
    /\ UNCHANGED <<vars, audit, audit_job, key_second, completions, marking>>

EndStage(w) ==
    /\ pc[w] = "stage"
    /\ step' = [step EXCEPT ![at[w]] = "completed"]
    /\ pc' = [pc EXCEPT ![w] = "checkpoint"]
    /\ at' = [at EXCEPT ![w] = @ + 1]
    /\ UNCHANGED <<vars, audit, audit_job, key_second, completions, marking>>

\* Mutant: the failure is recorded and the next stage begins.
StageRaises_Swallowed(w) ==
    /\ pc[w] = "stage"
    /\ step' = [step EXCEPT ![at[w]] = "failed"]
    /\ pc' = [pc EXCEPT ![w] = "checkpoint"]
    /\ at' = [at EXCEPT ![w] = @ + 1]
    /\ UNCHANGED <<vars, audit, audit_job, key_second, completions, marking>>

\* The stage raised: its step is marked failed, then the exception leaves the handler.
StageRaises(w) ==
    /\ pc[w] = "stage"
    /\ step' = [step EXCEPT ![at[w]] = "failed"]
    /\ Goto(w, "raise")
    /\ UNCHANGED <<vars, audit, audit_job, key_second, completions, marking>>

\* Mutant: the status of the audit is not written.
Finalize_NoStatus(w) ==
    /\ pc[w] = "checkpoint" /\ at[w] = NumStages + 1
    /\ completions' = completions + 1
    /\ Goto(w, "return")
    /\ UNCHANGED <<vars, audit, audit_job, step, key_second, marking>>

\* finalize_audit: status, ledger event and the final step in one transaction.
Finalize(w) ==
    /\ pc[w] = "checkpoint" /\ at[w] = NumStages + 1
    /\ audit' = "completed"
    /\ completions' = completions + 1
    /\ Goto(w, "return")
    /\ UNCHANGED <<vars, audit_job, step, key_second, marking>>

\* The classes of exception that can leave the handler at each of its points: a failure of
\* the database or the store anywhere (jobs.complete included), a version without samples,
\* what a stage raised, and what check_cancelled raises before a stage.
CanRaise(w, cls) ==
    \/ cls \in Retryable /\ pc[w] # "none"
    \/ cls = "permanent" /\ (pc[w] = "raise" \/ (pc[w] = "checkpoint" /\ at[w] = 1))
    \/ cls = "cancelled" /\ pc[w] = "checkpoint" /\ at[w] \in Stages /\ cancelled[w]
    \/ cls = "timeout" /\ pc[w] = "checkpoint" /\ at[w] \in Stages /\ ~cancelled[w]

\* The exception leaves the handler; the failure is recorded in two steps.
Abort(w, cls) ==
    /\ CanRaise(w, cls)
    /\ LoadForFail(w, cls)
    /\ Leave(w)
    /\ UNCHANGED rowVars

RecordFailure(w) == CommitFail(w) /\ UNCHANGED <<rowVars, handlerVars>>

Return(w) ==
    /\ pc[w] = "return"
    /\ Complete(w)
    /\ Leave(w)
    /\ UNCHANGED rowVars

\* Mutant: the failure is not written into the audit.
PropagateFailure_Lost(w) == Propagate(w) /\ UNCHANGED <<rowVars, handlerVars>>

\* _on_job_failure for RUN_AUDIT: the audit is written whatever its status is by now.
PropagateFailure(w) ==
    /\ Propagate(w)
    /\ audit' = IF raised[w] = "cancelled" THEN "cancelled" ELSE "failed"
    /\ UNCHANGED <<audit_job, step, key_second, completions, marking, handlerVars>>

Die(w) == Crash(w) /\ Leave(w) /\ UNCHANGED rowVars

Revive(w) == Restart(w) /\ UNCHANGED <<rowVars, handlerVars>>

Passive(j) ==
    /\ BackoffElapses(j) \/ HeartbeatLapses(j) \/ Reap(j)
    /\ UNCHANGED <<rowVars, handlerVars>>

-----------------------------------------------------------------------------
HandlerStep(w) ==
    \/ Load(w) \/ BeginStage(w) \/ EndStage(w) \/ StageRaises(w) \/ Finalize(w) \/ Return(w)
    \/ \E cls \in Errors : Abort(w, cls)

AuditNext ==
    \/ \E j \in Jobs : StartAudit(j) \/ ResumeAudit(j) \/ Passive(j)
    \/ audit_job \in Cancellable /\ LoadForCancelAudit
    \/ \E j \in Cancellable : CommitCancelAudit(j)
    \/ ResumeAuditSameKey \/ SecondPasses
    \/ \E w \in Workers, j \in Jobs : TakeJob(w, j)
    \/ \E w \in Workers :
        \/ Beat(w) \/ HandlerStep(w) \/ RecordFailure(w) \/ PropagateFailure(w)
        \/ Die(w) \/ Revive(w)

AuditSpec == AuditInit /\ [][AuditNext]_auditVars

\* The fairness of JobQueue, for the steps of this composition.
AuditFairness ==
    /\ \A j \in Jobs :
        /\ WF_auditVars(\E w \in Workers : TakeJob(w, j))
        /\ WF_auditVars(Passive(j) /\ (status[j] = "running" => stale[j] \/ ~Beating(j)))
    /\ \A w \in Workers :
        /\ WF_auditVars(HandlerStep(w)) /\ WF_auditVars(Beat(w))
        /\ WF_auditVars(RecordFailure(w)) /\ WF_auditVars(PropagateFailure(w))
        /\ WF_auditVars(Revive(w))

AuditFairSpec == AuditSpec /\ AuditFairness

-----------------------------------------------------------------------------
AuditTypeOK ==
    /\ TypeOK
    /\ audit \in {"absent"} \cup Unfinished \cup Terminal
    /\ audit_job \in Jobs \cup {NoJob}
    /\ step \in [Stages -> StepStatus]
    /\ pc \in [Workers -> HandlerPc]
    /\ at \in [Workers -> 1..NumStages + 1]
    /\ key_second \in BOOLEAN
    /\ completions \in Nat
    /\ marking \in BOOLEAN
    /\ \A w \in Workers : pc[w] # "none" <=> phase[w] = "handler"

RunningAudit(w) == pc[w] # "none"
Propagating == \E w \in Workers : phase[w] = "propagate"

\* A job that a worker has, or may still be given.
Live(j) ==
    \/ status[j] \in Unfinished /\ ~cancel_requested[j]
    \/ \E w \in Workers : running[w] = j

\* However often an audit is cancelled and resumed, two workers never run its stages at the
\* same time, and at most one of its jobs can still run.
OneRunPerAudit ==
    /\ \A v, w \in Workers : RunningAudit(v) /\ RunningAudit(w) => v = w
    /\ \A i, j \in Jobs : Live(i) /\ Live(j) => i = j

\* An audit shown as failed or cancelled has no worker inside its handler, so that a resume
\* starts from steps nobody is writing.
StoppedAuditIsIdle ==
    audit \in {"failed", "cancelled"} => \A w \in Workers : ~RunningAudit(w)

\* Completed stages are kept by retries, resumes and re-runs after a crash.
CompletedStagesKept ==
    [][\A k \in Stages : step[k] = "completed" => step'[k] = "completed"]_auditVars

\* An audit is finalized from a pipeline whose stages are all complete.
CompletedAuditHasAllStages ==
    audit = "completed" => \A k \in Stages : step[k] = "completed"

\* A job that runs again after a crash does not record the audit in the ledger again: there
\* are at most as many audit.completed events as there were jobs.
RecordedOncePerJob == completions <= Cardinality({j \in Jobs : status[j] # "absent"})

\* An audit shown as queued or running has a job that can still move it, or the worker of
\* that job is about to write the failure.
UnfinishedAuditHasJob ==
    audit \in Unfinished => status[audit_job] \in Unfinished \/ Propagating

\* An audit that was started reaches a terminal status.
AuditSettles == audit \in Unfinished ~> audit \in Terminal

\* A cancelled job is visible in its audit as soon as its worker has reported.
CancelReachesAudit ==
    audit_job # NoJob /\ status[audit_job] = "cancelled" /\ ~Propagating
        => audit \notin Unfinished
=============================================================================
