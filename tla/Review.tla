------------------------------- MODULE Review -------------------------------
(***************************************************************************)
(* The human review of one court case and the exports that apply it:       *)
(* decisions, undo, adjudication, the status kept on the case row, the     *)
(* lock an export puts on it, and the dataset version an export creates.   *)
(*                                                                         *)
(* A request is two steps, as it is two parts of a READ COMMITTED          *)
(* transaction: it inserts (or undoes) a decision and computes the status  *)
(* from what it can see, and later writes the status and commits (the      *)
(* ledger's advisory lock is only taken in between).  An export job is two *)
(* transactions: a snapshot of the final decisions, and the result.  Its   *)
(* job is one worker's at a time, as in JobLease: it is over when          *)
(* jobs.complete or its last attempt is, whatever the export's row says.   *)
(***************************************************************************)
EXTENDS Integers, Sequences, FiniteSets

CONSTANTS
    Reviewers,
    Admins,             \* the reviewers that may adjudicate and undo for others
    Decisive,           \* KEEP, REMOVE and RELABEL to each class, as decision keys
    MayEscalate,        \* do reviewers use ESCALATE?
    Exports,
    MaxDecisions,       \* bound on the decisions of the case
    MaxRuns,            \* Job.max_attempts: the executions of an export job
    RequestsOverlap,    \* may two requests be in progress at once?
    ReviewDuringExport  \* may a request overlap the execution of an export?

ASSUME ReviewAssumption ==
    /\ Admins \subseteq Reviewers
    /\ {"unsure", "escalate"} \cap Decisive = {}
    /\ MaxDecisions \in Nat /\ MaxRuns \in Nat \ {0}
    /\ {MayEscalate, RequestsOverlap, ReviewDuringExport} \subseteq BOOLEAN

VARIABLES
    decisions,      \* rows of human_decisions in the order of created_at
    case_status,    \* CourtCase.status
    request,        \* the open request of each reviewer
    export,         \* the row of each export: status and applied decision (0: none)
    building,       \* the job of each export, its attempts, what its first transaction read
    versions        \* the dataset versions created by exports

vars == <<decisions, case_status, request, export, building, versions>>

Actions    == Decisive \cup {"unsure"} \cup (IF MayEscalate THEN {"escalate"} ELSE {})
ExportJob  == {"none", "queued", "building", "committed", "over"}
CaseStatus == {"open", "decided", "disputed", "resolved"}
Indices    == 0..MaxDecisions

Decision == [by : Reviewers, action : Decisive \cup {"unsure", "escalate"},
             adjudication : BOOLEAN, committed : BOOLEAN, undone : BOOLEAN]
NoRequest == [kind |-> "none", decision |-> 0, loaded |-> "open", computed |-> "open"]
NoRun     == [job |-> "none", applied |-> 0, number |-> 0, runs |-> 0]

MaxOf(S) == CHOOSE i \in S : \A k \in S : k <= i

-----------------------------------------------------------------------------
(* Pure part: what a set of decisions amounts to.                          *)

\* active_decisions: the latest of each reviewer among the visible ones.
Latest(ds, visible) ==
    {i \in visible : \A k \in visible : ds[k].by = ds[i].by => k <= i}

DecisiveOf(ds, acts) == {i \in acts : ds[i].action \in Decisive}
KeysOf(ds, acts)     == {ds[i].action : i \in DecisiveOf(ds, acts)}
Adjudications(ds, acts) == {i \in acts : ds[i].adjudication}

\* recompute_status.
StatusOf(ds, acts) ==
    IF acts = {} THEN "open"
    ELSE IF Adjudications(ds, acts) # {} THEN "resolved"
    ELSE IF \/ Cardinality(KeysOf(ds, acts)) > 1
            \/ \E i \in acts : ds[i].action = "escalate" THEN "disputed"
    ELSE IF DecisiveOf(ds, acts) # {} THEN "decided" ELSE "open"

\* Mutant: agreement is not asked for, the last decisive review wins.
FinalOf_LastWins(ds, acts) ==
    IF Adjudications(ds, acts) # {} THEN MaxOf(Adjudications(ds, acts))
    ELSE IF DecisiveOf(ds, acts) # {} THEN MaxOf(DecisiveOf(ds, acts))
    ELSE 0

\* final_decision: the latest adjudication, else the last of agreeing decisions, else 0.
FinalOf(ds, acts) ==
    IF Adjudications(ds, acts) # {} THEN MaxOf(Adjudications(ds, acts))
    ELSE IF Cardinality(KeysOf(ds, acts)) = 1 THEN MaxOf(DecisiveOf(ds, acts))
    ELSE 0

\* The rows a transaction sees: committed ones that are not undone.
Committed == {i \in DOMAIN decisions : decisions[i].committed /\ ~decisions[i].undone}
ActiveDecisions == Latest(decisions, Committed)

-----------------------------------------------------------------------------
Init ==
    /\ decisions = <<>>
    /\ case_status = "open"
    /\ request = [r \in Reviewers |-> NoRequest]
    /\ export = [e \in Exports |-> [status |-> "none", applied |-> 0]]
    /\ building = [e \in Exports |-> NoRun]
    /\ versions = {}

NoOpenRequest == \A r \in Reviewers : request[r].kind = "none"

Building(e) == building[e].job = "building"

\* Environment: what else may be in progress when a request starts.
MayStart(r) ==
    /\ request[r].kind = "none"
    /\ RequestsOverlap \/ NoOpenRequest
    /\ ReviewDuringExport \/ \A e \in Exports : ~Building(e)

\* Mutant: the lock of an export is not looked at.
ExportLocked_Never == FALSE

\* _export_locked: some completed export has applied a decision of this case.
ExportLocked == \E e \in Exports : export[e].status = "completed" /\ export[e].applied # 0

\* decide: the insert and recompute_status, which sees the request's own row.
StartDecide(r, action, adjudicate) ==
    /\ MayStart(r) /\ Len(decisions) < MaxDecisions
    /\ adjudicate => r \in Admins
    /\ ~ExportLocked
    /\ LET ds == Append(decisions, [by |-> r, action |-> action, adjudication |-> adjudicate,
                                    committed |-> FALSE, undone |-> FALSE])
           i  == Len(ds)
       IN /\ decisions' = ds
          /\ request' = [request EXCEPT ![r] =
                 [kind |-> "decide", decision |-> i, loaded |-> case_status,
                  computed |-> StatusOf(ds, Latest(ds, Committed \cup {i}))]]
    /\ UNCHANGED <<case_status, export, building, versions>>

\* undo: allowed to the reviewer and to admins.
StartUndo(r, i) ==
    /\ MayStart(r)
    /\ i \in Committed
    /\ decisions[i].by = r \/ r \in Admins
    /\ ~ExportLocked
    /\ request' = [request EXCEPT ![r] =
           [kind |-> "undo", decision |-> i, loaded |-> case_status,
            computed |-> StatusOf(decisions, Latest(decisions, Committed \ {i}))]]
    /\ UNCHANGED <<decisions, case_status, export, building, versions>>

\* Mutant: undo does not write the recomputed status.
Commit_UndoKeepsStatus(r) ==
    LET q == request[r] IN
    /\ q.kind # "none"
    /\ decisions' = IF q.kind = "decide"
                    THEN [decisions EXCEPT ![q.decision].committed = TRUE]
                    ELSE [decisions EXCEPT ![q.decision].undone = TRUE]
    /\ case_status' = IF q.kind = "decide" THEN q.computed ELSE case_status
    /\ request' = [request EXCEPT ![r] = NoRequest]
    /\ UNCHANGED <<export, building, versions>>

\* The ledger entry, the status and the commit.  The session writes the status column only
\* if it differs from the value it loaded.
Commit(r) ==
    LET q == request[r] IN
    /\ q.kind # "none"
    /\ decisions' = IF q.kind = "decide"
                    THEN [decisions EXCEPT ![q.decision].committed = TRUE]
                    ELSE [decisions EXCEPT ![q.decision].undone = TRUE]
    /\ case_status' = IF q.computed # q.loaded THEN q.computed ELSE case_status
    /\ request' = [request EXCEPT ![r] = NoRequest]
    /\ UNCHANGED <<export, building, versions>>

-----------------------------------------------------------------------------
VersionNumbers == {v.number : v \in versions}

NextNumber == 1 + MaxOf({0} \cup VersionNumbers)

CreateExport(e) ==
    /\ export[e].status = "none"
    /\ export' = [export EXCEPT ![e].status = "queued"]
    /\ building' = [building EXCEPT ![e].job = "queued"]
    /\ UNCHANGED <<decisions, case_status, request, versions>>

\* A worker claims the job and runs the first transaction of run_export_job, which does not
\* look at the status of the export.
StartExport(e) ==
    /\ building[e].job = "queued"
    /\ ReviewDuringExport \/ NoOpenRequest
    /\ export' = [export EXCEPT ![e].status = "running"]
    /\ building' = [building EXCEPT ![e] =
           [job |-> "building", applied |-> LET d == FinalOf(decisions, ActiveDecisions) IN
                                         IF d # 0 /\ decisions[d].action \in Decisive THEN d ELSE 0,
            number |-> NextNumber, runs |-> @.runs + 1]]
    /\ UNCHANGED <<decisions, case_status, request, versions>>

\* Second transaction: the new version (UNIQUE(dataset_id, version_number)) and the result.
CommitExport(e) ==
    /\ Building(e) /\ building[e].number \notin VersionNumbers
    /\ versions' = versions \cup {[from |-> e, run |-> building[e].runs, number |-> building[e].number]}
    /\ export' = [export EXCEPT ![e] = [status |-> "completed", applied |-> building[e].applied]]
    /\ building' = [building EXCEPT ![e].job = "committed"]
    /\ UNCHANGED <<decisions, case_status, request>>

\* jobs.complete.
CompleteExport(e) ==
    /\ building[e].job = "committed"
    /\ building' = [building EXCEPT ![e].job = "over"]
    /\ UNCHANGED <<decisions, case_status, request, export, versions>>

\* The attempt ends before jobs.complete: with an error that is retried (a taken version
\* number among them) or with the death of the worker, which the reaper notices.
InterruptExport(e) ==
    /\ building[e].job \in {"building", "committed"}
    /\ building' = [building EXCEPT ![e].job = IF building[e].runs < MaxRuns THEN "queued" ELSE "over"]
    /\ UNCHANGED <<decisions, case_status, request, export, versions>>

\* An error that is not retried, of jobs.complete on the last attempt only: _on_job_failure.
FailExport(e) ==
    /\ Building(e) \/ (building[e].job = "committed" /\ building[e].runs = MaxRuns)
    /\ building' = [building EXCEPT ![e].job = "over"]
    /\ export' = [export EXCEPT ![e].status = "failed"]
    /\ UNCHANGED <<decisions, case_status, request, versions>>

Next ==
    \/ \E r \in Reviewers :
        \/ \E action \in Actions, adjudicate \in BOOLEAN : StartDecide(r, action, adjudicate)
        \/ \E i \in DOMAIN decisions : StartUndo(r, i)
        \/ Commit(r)
    \/ \E e \in Exports :
        \/ CreateExport(e) \/ StartExport(e) \/ CommitExport(e) \/ CompleteExport(e)
        \/ InterruptExport(e) \/ FailExport(e)

Spec == Init /\ [][Next]_vars

-----------------------------------------------------------------------------
TypeOK ==
    /\ decisions \in Seq(Decision) /\ Len(decisions) <= MaxDecisions
    /\ case_status \in CaseStatus
    /\ request \in [Reviewers -> [kind : {"none", "decide", "undo"}, decision : Indices,
                                  loaded : CaseStatus, computed : CaseStatus]]
    /\ export \in [Exports -> [status : {"none", "queued", "running", "completed", "failed"},
                               applied : Indices]]
    /\ building \in [Exports -> [job : ExportJob, applied : Indices,
                                 number : Nat, runs : 0..MaxRuns]]
    /\ \A v \in versions : v \in [from : Exports, run : 1..MaxRuns, number : Nat \ {0}]

\* Between requests, the status on the case row is the one its decisions amount to.
StatusMatchesDecisions ==
    NoOpenRequest => case_status = StatusOf(decisions, ActiveDecisions)

Settled   == StatusOf(decisions, ActiveDecisions) \in {"decided", "resolved"}
Escalated == \E i \in ActiveDecisions : decisions[i].action = "escalate"

\* Unless somebody escalated, the decision an export would apply now exists exactly when the
\* reviewers have settled the case: nothing is exported for a disputed case, and nothing
\* settled is left out, through any sequence of decisions, undos and adjudications.
FinalIffSettled == ~Escalated => (FinalOf(decisions, ActiveDecisions) # 0 <=> Settled)

\* What a completed export applied is still the final decision of the case, not undone and
\* not overruled.
ExportedDecisionStands ==
    \A e \in Exports : export[e].status = "completed" /\ export[e].applied # 0 =>
        export[e].applied = FinalOf(decisions, ActiveDecisions)

\* One export makes one dataset version.
OneVersionPerExport ==
    \A u, v \in versions : u.from = v.from => u = v
=============================================================================
