----------------------------- MODULE QueueProofs -----------------------------
(***************************************************************************)
(* Proofs about the job queue, for every set of jobs and workers and every *)
(* attempt limit, and about one audit on it, for any number of stages as   *)
(* well.  The assumptions name the two deployments the code is not safe    *)
(* in: workers that stall for the stale interval, and a cancellation in    *)
(* the window between a claim and the first write of its worker.           *)
(***************************************************************************)
EXTENDS AuditRun, FiniteSetTheorems, TLAPS

-----------------------------------------------------------------------------
(* The queue. *)

LEMMA OutcomeType ==
    ASSUME NEW n, NEW cls
    PROVE  /\ Outcome(n, cls) \in {"queued", "failed", "cancelled"}
           /\ Outcome(n, cls) = "queued" => Requeues(n, cls)
BY DEF Outcome

\* The type invariant holds initially and every action keeps it.
LEMMA InitTypeOK == Init => TypeOK
BY JobQueueAssumption DEF Init, TypeOK, Status, Phase, Busy, ErrorClass, NoRow, Request

LEMMA NextTypeOK == TypeOK /\ [Next]_vars => TypeOK'
<1> SUFFICES ASSUME TypeOK, [Next]_vars PROVE TypeOK'
  OBVIOUS
<1>r. NoRow \in [status : Status, attempts : Nat, locked : BOOLEAN]
  BY DEF NoRow, Status
<1> USE JobQueueAssumption
    DEF TypeOK, Status, Terminal, Phase, Busy, Request, jobVars, workerVars
<1>1. ASSUME NEW j \in Jobs, Enqueue(j) PROVE TypeOK'
  BY <1>1 DEF Enqueue
<1>2. ASSUME NEW j \in Jobs, BackoffElapses(j) PROVE TypeOK'
  BY <1>2 DEF BackoffElapses
<1>3. ASSUME NEW j \in Jobs, HeartbeatLapses(j) PROVE TypeOK'
  BY <1>3 DEF HeartbeatLapses
<1>4. ASSUME NEW j \in Jobs, Reap(j) PROVE TypeOK'
  BY <1>4 DEF Reap
<1>5. ASSUME NEW j \in Jobs, LoadForCancel(j) \/ CommitCancel(j) PROVE TypeOK'
  <2>1. CASE LoadForCancel(j)
    BY <2>1 DEF LoadForCancel
  <2>2. CASE CommitCancel(j)
    BY <2>2 DEF CommitCancel
  <2> QED BY <1>5, <2>1, <2>2
<1>6. ASSUME NEW w \in Workers, NEW j \in Jobs, Claim(w, j) PROVE TypeOK'
  BY <1>6 DEF Claim
<1>7. ASSUME NEW w \in Workers, Heartbeat(w) PROVE TypeOK'
  BY <1>7 DEF Heartbeat
<1>8. ASSUME NEW w \in Workers, Complete(w) PROVE TypeOK'
  BY <1>8, <1>r DEF Complete, Release
<1>9. ASSUME NEW w \in Workers, Propagate(w) \/ Crash(w) PROVE TypeOK'
  <2>1. CASE Propagate(w)
    BY <2>1, <1>r DEF Propagate, Release
  <2>2. CASE Crash(w)
    BY <2>2, <1>r DEF Crash, Release
  <2> QED BY <1>9, <2>1, <2>2
<1>10. ASSUME NEW w \in Workers, Restart(w) PROVE TypeOK'
  BY <1>10 DEF Restart
<1>11. ASSUME NEW w \in Workers, NEW cls \in Errors, LoadForFail(w, cls) PROVE TypeOK'
  <2>1. running[w] \in Jobs
    BY <1>11 DEF LoadForFail
  <2>2. Row(running[w]) \in [status : Status, attempts : Nat, locked : BOOLEAN]
    BY <2>1 DEF Row
  <2> QED BY <1>11, <2>2 DEF LoadForFail
<1>12. ASSUME NEW w \in Workers, CommitFail(w) PROVE TypeOK'
  <2> DEFINE out == Outcome(seen[w].attempts, raised[w])
  <2>1. out \in Status
    BY OutcomeType
  <2>2. CASE out = "queued"
    <3>1. /\ Release(w, "idle")
          /\ status' = [status EXCEPT ![running[w]] = IF out = seen[w].status THEN @ ELSE out]
          /\ due' = [due EXCEPT ![running[w]] = @ /\ out # "queued"]
          /\ locked_by' = [locked_by EXCEPT ![running[w]] = IF seen[w].locked THEN NoWorker ELSE @]
          /\ UNCHANGED <<attempts, stale, cancel_requested, cancelling>>
      BY <1>12, <2>2 DEF CommitFail
    <3>2. /\ phase' \in [Workers -> Phase]
          /\ running' \in [Workers -> Jobs \cup {NoJob}]
          /\ cancelled' \in [Workers -> BOOLEAN]
          /\ raised' \in [Workers -> ErrorClass \cup {"none"}]
          /\ seen' \in [Workers -> [status : Status, attempts : Nat, locked : BOOLEAN]]
      BY <3>1, <1>r DEF Release
    <3>3. \A u \in Workers : running'[u] \in Jobs <=> phase'[u] \in Busy
      BY <3>1 DEF Release
    <3>4. /\ status' \in [Jobs -> Status] /\ due' \in [Jobs -> BOOLEAN]
          /\ locked_by' \in [Jobs -> Workers \cup {NoWorker}]
      BY <2>1, <3>1
    <3> HIDE DEF out
    <3> QED BY <3>1, <3>2, <3>3, <3>4
  <2>3. CASE out # "queued"
    <3>1. /\ phase' = [phase EXCEPT ![w] = "propagate"]
          /\ seen' = [seen EXCEPT ![w] = NoRow]
          /\ status' = [status EXCEPT ![running[w]] = IF out = seen[w].status THEN @ ELSE out]
          /\ due' = [due EXCEPT ![running[w]] = @ /\ out # "queued"]
          /\ locked_by' = [locked_by EXCEPT ![running[w]] = IF seen[w].locked THEN NoWorker ELSE @]
          /\ UNCHANGED <<attempts, stale, cancel_requested, cancelling, running, cancelled, raised>>
      BY <1>12, <2>3 DEF CommitFail
    <3>2. \A u \in Workers : running'[u] \in Jobs <=> phase'[u] \in Busy
      BY <1>12, <3>1 DEF CommitFail
    <3>3. status' \in [Jobs -> Status]
      BY <2>1, <3>1
    <3>4. due' \in [Jobs -> BOOLEAN] /\ locked_by' \in [Jobs -> Workers \cup {NoWorker}]
      BY <3>1
    <3>5. phase' \in [Workers -> Phase]
          /\ seen' \in [Workers -> [status : Status, attempts : Nat, locked : BOOLEAN]]
      BY <3>1, <1>r
    <3> HIDE DEF out
    <3> QED BY <3>1, <3>2, <3>3, <3>4, <3>5
  <2> QED BY <2>2, <2>3
<1>13. CASE UNCHANGED vars
  BY <1>13 DEF vars
<1> QED
  BY <1>1, <1>2, <1>3, <1>4, <1>5, <1>6, <1>7, <1>8, <1>9, <1>10, <1>11, <1>12, <1>13 DEF Next

\* Every reachable state is well typed, for any number of jobs and workers.
THEOREM TypeCorrect == Spec => []TypeOK
<1>1. Init => TypeOK BY InitTypeOK
<1>2. TypeOK /\ [Next]_vars => TypeOK' BY NextTypeOK
<1> QED BY <1>1, <1>2, PTL DEF Spec

-----------------------------------------------------------------------------
(* How often a job is handed out. *)

\* The workers whose open fail is going to re-queue j from what it has read, and the number of
\* claims of j that are made or already decided.
Late(j) == {w \in Workers : /\ phase[w] = "failing" /\ running[w] = j
                            /\ Requeues(seen[w].attempts, raised[w])}
Decided(j) == attempts[j] + Cardinality(Late(j)) + (IF status[j] = "queued" THEN 1 ELSE 0)

\* AttemptsBounded is not inductive: from the last attempt on, what counts is the number of
\* claims already decided, which no step raises.  It starts below the bound because every
\* worker on the job has made a claim of its own, and the worker of the last one is not late.
CountInv(j) ==
    /\ attempts[j] < MaxAttempts => Cardinality(LeaseHolders[j]) <= attempts[j]
    /\ attempts[j] >= MaxAttempts => /\ Decided(j) < MaxAttempts + Cardinality(Workers)
                                     /\ Decided(j) < 2 * MaxAttempts
    /\ status[j] = "absent" => attempts[j] = 0

LEMMA LateSets ==
    ASSUME TypeOK, NEW j \in Jobs
    PROVE  /\ IsFiniteSet(Late(j)) /\ Cardinality(Late(j)) \in Nat
           /\ IsFiniteSet(LeaseHolders[j]) /\ Cardinality(LeaseHolders[j]) \in Nat
           /\ Cardinality(Late(j)) <= Cardinality(LeaseHolders[j])
<1>1. Late(j) \subseteq LeaseHolders[j] /\ LeaseHolders[j] \subseteq Workers
  BY DEF Late, LeaseHolders, Executing
<1>2. IsFiniteSet(LeaseHolders[j])
  BY <1>1, FS_Subset, JobQueueAssumption
<1>3. IsFiniteSet(Late(j)) /\ Cardinality(Late(j)) <= Cardinality(LeaseHolders[j])
  BY <1>1, <1>2, FS_Subset
<1> QED BY <1>2, <1>3, FS_CardinalityType

\* A step that hands nothing out and decides no further claim of j.
LEMMA CountKept ==
    ASSUME TypeOK, NEW j \in Jobs, CountInv(j),
           attempts'[j] = attempts[j],
           attempts[j] >= MaxAttempts => Late(j)' \subseteq Late(j),
           LeaseHolders'[j] \subseteq LeaseHolders[j],
           status'[j] = "queued" => status[j] = "queued" \/ attempts[j] < MaxAttempts,
           status'[j] = "absent" => status[j] = "absent"
    PROVE  CountInv(j)'
<1>1. /\ IsFiniteSet(Late(j)) /\ Cardinality(Late(j)) \in Nat
      /\ IsFiniteSet(LeaseHolders[j]) /\ Cardinality(LeaseHolders[j]) \in Nat
  BY LateSets
<1>2. Cardinality(LeaseHolders'[j]) <= Cardinality(LeaseHolders[j])
  BY <1>1, FS_Subset
<1>3. Cardinality(LeaseHolders'[j]) \in Nat
  BY <1>1, FS_Subset, FS_CardinalityType
<1>4. attempts[j] \in Nat /\ MaxAttempts \in Nat /\ Cardinality(Workers) \in Nat
  BY JobQueueAssumption, FS_CardinalityType DEF TypeOK
<1>5. CASE attempts[j] < MaxAttempts
  BY <1>1, <1>2, <1>3, <1>4, <1>5 DEF CountInv
<1>6. CASE attempts[j] >= MaxAttempts
  <2>1. /\ Cardinality(Late(j)') <= Cardinality(Late(j))
        /\ Cardinality(Late(j)') \in Nat
    BY <1>1, <1>6, FS_Subset, FS_CardinalityType
  <2> QED BY <1>1, <1>4, <1>6, <2>1 DEF CountInv, Decided
<1> QED BY <1>4, <1>5, <1>6

\* The claim that is the last one allowed finds a worker for every other claim at most.
LEMMA CountClaim ==
    ASSUME TypeOK, NEW w \in Workers, NEW j \in Jobs, Claim(w, j), CountInv(j)
    PROVE  CountInv(j)'
<1>t. /\ IsFiniteSet(Late(j)) /\ Cardinality(Late(j)) \in Nat
      /\ IsFiniteSet(LeaseHolders[j]) /\ Cardinality(LeaseHolders[j]) \in Nat
      /\ Cardinality(Late(j)) <= Cardinality(LeaseHolders[j])
  BY LateSets
<1>n. /\ attempts[j] \in Nat /\ MaxAttempts \in Nat \ {0}
      /\ IsFiniteSet(Workers) /\ Cardinality(Workers) \in Nat
  BY JobQueueAssumption, FS_CardinalityType DEF TypeOK
<1>1. /\ attempts'[j] = attempts[j] + 1 /\ status[j] = "queued" /\ status'[j] = "running"
  BY <1>n DEF Claim, TypeOK
<1>2. Late(j)' = Late(j) /\ w \notin Late(j)
  BY JobQueueAssumption DEF Claim, Late, TypeOK, Busy
<1>3. LeaseHolders'[j] = LeaseHolders[j] \cup {w}
  BY DEF Claim, LeaseHolders, Executing, TypeOK, Busy
<1>4. /\ Cardinality(LeaseHolders'[j]) \in Nat
      /\ Cardinality(LeaseHolders'[j]) <= Cardinality(LeaseHolders[j]) + 1
  <2> DEFINE H == LeaseHolders[j]
  <2>1. IsFiniteSet(H) /\ Cardinality(H) \in Nat
    BY <1>t
  <2> HIDE DEF H
  <2>2. IsFiniteSet(H \cup {w}) /\ Cardinality(H \cup {w}) \in {Cardinality(H), Cardinality(H) + 1}
    BY <2>1, FS_AddElement
  <2>3. Cardinality(H \cup {w}) \in Nat /\ Cardinality(H \cup {w}) <= Cardinality(H) + 1
    BY <2>1, <2>2
  <2> QED BY <1>3, <2>3 DEF H
<1>5. Cardinality(Late(j)) < Cardinality(Workers)
  <2>1. Late(j) \subseteq Workers /\ Late(j) # Workers
    BY <1>2 DEF Late
  <2>2. /\ Cardinality(Late(j)) <= Cardinality(Workers)
        /\ Cardinality(Late(j)) # Cardinality(Workers)
    BY <1>n, <2>1, FS_Subset
  <2> QED BY <1>t, <1>n, <2>2
<1>6. CASE attempts[j] + 1 < MaxAttempts
  BY <1>t, <1>n, <1>1, <1>4, <1>6 DEF CountInv
<1>7. CASE attempts[j] + 1 = MaxAttempts
  <2>1. Cardinality(Late(j)) <= attempts[j]
    BY <1>t, <1>n, <1>7 DEF CountInv
  <2>2. Decided(j)' = MaxAttempts + Cardinality(Late(j))
    BY <1>t, <1>n, <1>1, <1>2, <1>7 DEF Decided
  <2> QED BY <1>t, <1>n, <1>1, <1>5, <1>7, <2>1, <2>2 DEF CountInv
<1>8. CASE attempts[j] >= MaxAttempts
  <2>1. Decided(j)' = Decided(j)
    BY <1>t, <1>n, <1>1, <1>2 DEF Decided
  <2> QED BY <1>t, <1>n, <1>1, <1>8, <2>1 DEF CountInv
<1> QED BY <1>n, <1>6, <1>7, <1>8

\* A late worker that commits turns a claim it has decided into a queued row.
LEMMA CountCommitFail ==
    ASSUME TypeOK, NEW w \in Workers, CommitFail(w), NEW j \in Jobs, CountInv(j)
    PROVE  CountInv(j)'
<1> DEFINE out == Outcome(seen[w].attempts, raised[w])
<1>o. out \in {"queued", "failed", "cancelled"} /\ (out = "queued" => Requeues(seen[w].attempts, raised[w]))
  BY OutcomeType
<1>1. /\ phase[w] = "failing" /\ running[w] \in Jobs /\ attempts' = attempts
      /\ status' = [status EXCEPT ![running[w]] = IF out = seen[w].status THEN @ ELSE out]
  BY DEF CommitFail, TypeOK, Busy
<1>2. /\ phase'[w] \in {"idle", "propagate"}
      /\ \A v \in Workers \ {w} : /\ phase'[v] = phase[v] /\ running'[v] = running[v]
                                  /\ raised'[v] = raised[v] /\ seen'[v] = seen[v]
  <2>1. CASE out = "queued"
    BY <2>1 DEF CommitFail, Release, TypeOK
  <2>2. CASE out # "queued"
    BY <2>2 DEF CommitFail, TypeOK
  <2> QED BY <2>1, <2>2
<1>3. Late(j)' = Late(j) \ {w}
  BY <1>2 DEF Late
<1>4. LeaseHolders'[j] \subseteq LeaseHolders[j]
  BY <1>2 DEF LeaseHolders, Executing
<1>5. CASE out = "queued" /\ j = running[w] /\ attempts[j] >= MaxAttempts
  <2>1. w \in Late(j)
    BY <1>o, <1>1, <1>5 DEF Late
  <2>2. /\ IsFiniteSet(Late(j)) /\ Cardinality(Late(j)) \in Nat
        /\ attempts[j] \in Nat /\ MaxAttempts \in Nat /\ Cardinality(Workers) \in Nat
    BY LateSets, JobQueueAssumption, FS_CardinalityType DEF TypeOK
  <2>3. Cardinality(Late(j)') = Cardinality(Late(j)) - 1
    BY <1>3, <2>1, <2>2, FS_RemoveElement
  <2>4. Decided(j)' <= Decided(j) /\ Decided(j)' \in Int /\ Decided(j) \in Int
    BY <1>1, <2>2, <2>3 DEF Decided
  <2>5. status'[j] # "absent" \/ status[j] = "absent"
    BY <1>o, <1>1 DEF TypeOK
  <2> QED BY <1>1, <1>5, <2>2, <2>4, <2>5 DEF CountInv
<1>6. CASE ~(out = "queued" /\ j = running[w] /\ attempts[j] >= MaxAttempts)
  <2>1. status'[j] = "queued" => status[j] = "queued" \/ attempts[j] < MaxAttempts
    BY <1>1, <1>6, JobQueueAssumption DEF TypeOK
  <2>2. status'[j] = "absent" => status[j] = "absent"
    BY <1>o, <1>1 DEF TypeOK
  <2> HIDE DEF out
  <2> QED BY <1>1, <1>3, <1>4, <2>1, <2>2, CountKept
<1> QED BY <1>5, <1>6

LEMMA NextCountInv ==
    ASSUME TypeOK, \A j \in Jobs : CountInv(j), [Next]_vars
    PROVE  \A j \in Jobs : CountInv(j)'
<1> SUFFICES ASSUME NEW i \in Jobs PROVE CountInv(i)'
  OBVIOUS
<1>k. ASSUME attempts' = attempts,
             attempts[i] >= MaxAttempts => Late(i)' \subseteq Late(i),
             LeaseHolders'[i] \subseteq LeaseHolders[i],
             status'[i] = "queued" => status[i] = "queued" \/ attempts[i] < MaxAttempts,
             status'[i] = "absent" => status[i] = "absent"
      PROVE  CountInv(i)'
  BY <1>k, CountKept
<1>w. ASSUME workerVars' = workerVars
      PROVE  Late(i)' = Late(i) /\ LeaseHolders'[i] = LeaseHolders[i]
  BY <1>w DEF workerVars, Late, LeaseHolders, Executing
<1> USE JobQueueAssumption DEF TypeOK
<1>1. ASSUME NEW j \in Jobs, Enqueue(j) PROVE CountInv(i)'
  <2>1. status[j] = "absent" => attempts[j] < MaxAttempts
    BY DEF CountInv
  <2> QED BY <1>1, <1>k, <1>w, <2>1 DEF Enqueue
<1>2. ASSUME NEW j \in Jobs, BackoffElapses(j) \/ HeartbeatLapses(j) PROVE CountInv(i)'
  BY <1>2, <1>k, <1>w DEF BackoffElapses, HeartbeatLapses
<1>3. ASSUME NEW j \in Jobs, Reap(j) PROVE CountInv(i)'
  BY <1>3, <1>k, <1>w DEF Reap
<1>4. ASSUME NEW j \in Jobs, LoadForCancel(j) \/ CommitCancel(j) PROVE CountInv(i)'
  BY <1>4, <1>k, <1>w DEF LoadForCancel, CommitCancel
<1>5. ASSUME NEW w \in Workers, NEW j \in Jobs, Claim(w, j) PROVE CountInv(i)'
  <2>1. CASE i = j
    BY <1>5, <2>1, CountClaim
  <2>2. CASE i # j
    <3>1. attempts'[i] = attempts[i] /\ status'[i] = status[i]
      BY <1>5, <2>2 DEF Claim
    <3>2. Late(i)' = Late(i)
      BY <1>5 DEF Claim, Late, Busy
    <3>3. LeaseHolders'[i] \subseteq LeaseHolders[i]
      BY <1>5, <2>2 DEF Claim, LeaseHolders, Executing
    <3> QED BY <3>1, <3>2, <3>3, CountKept
  <2> QED BY <2>1, <2>2
<1>6. ASSUME NEW w \in Workers, Heartbeat(w) PROVE CountInv(i)'
  <2>1. Late(i)' = Late(i) /\ LeaseHolders'[i] = LeaseHolders[i]
    BY <1>6 DEF Heartbeat, Late, LeaseHolders, Executing
  <2> QED BY <1>6, <1>k, <2>1 DEF Heartbeat
<1>7. ASSUME NEW w \in Workers, Complete(w) \/ Propagate(w) \/ Crash(w) \/ Restart(w)
      PROVE  CountInv(i)'
  <2>1. /\ phase'[w] \in {"idle", "dead"} /\ attempts' = attempts
        /\ \A v \in Workers \ {w} : /\ phase'[v] = phase[v] /\ running'[v] = running[v]
                                    /\ raised'[v] = raised[v] /\ seen'[v] = seen[v]
        /\ status' = status \/ \E j \in Jobs : status' = [status EXCEPT ![j] = "completed"]
    BY <1>7 DEF Complete, Propagate, Crash, Restart, Release, jobVars, Busy
  <2>2. Late(i)' \subseteq Late(i) /\ LeaseHolders'[i] \subseteq LeaseHolders[i]
    BY <2>1 DEF Late, LeaseHolders, Executing
  <2> QED BY <1>k, <2>1, <2>2
<1>8. ASSUME NEW w \in Workers, NEW cls \in Errors, LoadForFail(w, cls) PROVE CountInv(i)'
  <2>1. LeaseHolders'[i] \subseteq LeaseHolders[i]
    BY <1>8 DEF LoadForFail, LeaseHolders, Executing
  <2>2. attempts[i] >= MaxAttempts => Late(i)' \subseteq Late(i)
    <3> SUFFICES ASSUME attempts[i] >= MaxAttempts, NEW v \in Late(i)' PROVE v \in Late(i)
      OBVIOUS
    <3>1. CASE v = w
      <4>1. running[w] = i /\ seen'[w].attempts = attempts[i]
        BY <1>8, <3>1 DEF LoadForFail, Late, Row
      <4> QED BY <3>1, <4>1 DEF Late, Requeues
    <3>2. CASE v # w
      BY <1>8, <3>2 DEF LoadForFail, Late
    <3> QED BY <3>1, <3>2
  <2> QED BY <1>8, <1>k, <2>1, <2>2 DEF LoadForFail, jobVars
<1>9. ASSUME NEW w \in Workers, CommitFail(w) PROVE CountInv(i)'
  BY <1>9, CountCommitFail
<1>10. CASE UNCHANGED vars
  BY <1>10, <1>k, <1>w DEF vars, jobVars
<1> QED
  BY <1>1, <1>2, <1>3, <1>4, <1>5, <1>6, <1>7, <1>8, <1>9, <1>10 DEF Next

LEMMA CountInvariant == Spec => [](TypeOK /\ \A j \in Jobs : CountInv(j))
<1>1. Init => \A j \in Jobs : CountInv(j)
  <2> SUFFICES ASSUME Init, NEW j \in Jobs PROVE CountInv(j)
    OBVIOUS
  <2>1. LeaseHolders[j] = {}
    BY DEF Init, LeaseHolders, Executing
  <2> QED BY <2>1, FS_EmptySet, JobQueueAssumption DEF Init, CountInv
<1>2. TypeOK /\ (\A j \in Jobs : CountInv(j)) /\ [Next]_vars => (\A j \in Jobs : CountInv(j))'
  BY NextCountInv
<1> QED BY <1>1, <1>2, TypeCorrect, PTL DEF Spec

-----------------------------------------------------------------------------
\* Without stalls, a worker that executes a job owns its row, which is not stale, and what a
\* fail has read still stands when it is written.  That the row is not stale is what makes the
\* rest inductive, as only stale rows are taken back.
OwnerInv ==
    ~MayStall =>
        /\ \A w \in Workers, j \in Jobs :
              Executing(w, j) => /\ locked_by[j] = w /\ ~stale[j]
                                 /\ status[j] = "running" \/ CancelledUnderWorker(j)
        /\ \A w \in Workers : phase[w] = "failing" =>
              /\ seen[w].attempts = attempts[running[w]] /\ seen[w].locked
              /\ seen[w].status \in {"running", "cancelled"}
              /\ seen[w].status = "cancelled" => status[running[w]] = "cancelled"

\* What the two columns of a row that choose_slot looks at say, what the limit says of a
\* queued row, and that an open cancellation has read a row.
RowInv ==
    /\ LockMatchesStatus
    /\ ~MayStall => \A j \in Jobs : /\ attempts[j] <= MaxAttempts
                                    /\ status[j] = "queued" => attempts[j] < MaxAttempts
                                    /\ status[j] = "absent" => attempts[j] = 0
                                    /\ cancelling[j] # "none" => status[j] # "absent"

LEMMA NextOwnerInv == TypeOK /\ OwnerInv /\ [Next]_vars => OwnerInv'
<1> SUFFICES ASSUME TypeOK, OwnerInv, [Next]_vars, ~MayStall PROVE OwnerInv'
  BY DEF OwnerInv
<1> USE JobQueueAssumption
    DEF TypeOK, OwnerInv, Executing, CancelledUnderWorker, Busy, jobVars, workerVars
<1>1. ASSUME NEW j \in Jobs, Enqueue(j) PROVE OwnerInv'
  BY <1>1 DEF Enqueue
<1>2. ASSUME NEW j \in Jobs, BackoffElapses(j) PROVE OwnerInv'
  BY <1>2 DEF BackoffElapses
<1>3. ASSUME NEW j \in Jobs, HeartbeatLapses(j) PROVE OwnerInv'
  BY <1>3 DEF HeartbeatLapses, Beating
<1>4. ASSUME NEW j \in Jobs, Reap(j) PROVE OwnerInv'
  BY <1>4 DEF Reap
<1>5. ASSUME NEW j \in Jobs, LoadForCancel(j) \/ CommitCancel(j) PROVE OwnerInv'
  BY <1>5 DEF LoadForCancel, CommitCancel
<1>6. ASSUME NEW w \in Workers, NEW j \in Jobs, Claim(w, j) PROVE OwnerInv'
  BY <1>6 DEF Claim
<1>7. ASSUME NEW w \in Workers, Heartbeat(w) PROVE OwnerInv'
  BY <1>7 DEF Heartbeat
<1>8. ASSUME NEW w \in Workers, Complete(w) PROVE OwnerInv'
  BY <1>8 DEF Complete, Release
<1>9. ASSUME NEW w \in Workers, Propagate(w) \/ Crash(w) PROVE OwnerInv'
  <2>1. CASE Propagate(w)
    BY <2>1 DEF Propagate, Release
  <2>2. CASE Crash(w)
    BY <2>2 DEF Crash, Release
  <2> QED BY <1>9, <2>1, <2>2
<1>10. ASSUME NEW w \in Workers, Restart(w) PROVE OwnerInv'
  BY <1>10 DEF Restart
<1>11. ASSUME NEW w \in Workers, NEW cls \in Errors, LoadForFail(w, cls) PROVE OwnerInv'
  <2>1. /\ phase[w] = "handler" /\ running[w] \in Jobs
        /\ phase' = [phase EXCEPT ![w] = "failing"] /\ running' = running
        /\ seen' = [seen EXCEPT ![w] = Row(running[w])]
        /\ UNCHANGED <<status, attempts, stale, cancel_requested, locked_by>>
    BY <1>11 DEF LoadForFail
  <2>2. \A v \in Workers, j \in Jobs : Executing(v, j)' <=> Executing(v, j)
    BY <2>1
  <2>3. /\ seen'[w].attempts = attempts[running[w]] /\ seen'[w].locked
        /\ seen'[w].status = status[running[w]] /\ status[running[w]] \in {"running", "cancelled"}
    <3> DEFINE j == running[w]
    <3>1. Executing(w, j) /\ j \in Jobs
      BY <2>1
    <3>2. locked_by[j] = w /\ status[j] \in {"running", "cancelled"}
      BY <3>1
    <3>3. seen'[w] = Row(j)
      BY <2>1
    <3>4. locked_by[j] # NoWorker
      BY <3>2
    <3>5. seen'[w].attempts = attempts[j] /\ seen'[w].status = status[j]
      BY <3>3 DEF Row
    <3>6. seen'[w].locked
      <4>1. Row(j) = [status |-> status[j], attempts |-> attempts[j], locked |-> TRUE]
        BY <3>4 DEF Row
      <4> QED BY <3>3, <4>1
    <3> QED BY <3>2, <3>4, <3>5, <3>6
  <2>4. \A v \in Workers, j \in Jobs :
            Executing(v, j)' => /\ locked_by'[j] = v /\ ~stale'[j]
                                /\ status'[j] = "running" \/ CancelledUnderWorker(j)'
    <3> SUFFICES ASSUME NEW v \in Workers, NEW j \in Jobs, Executing(v, j)'
                 PROVE  /\ locked_by'[j] = v /\ ~stale'[j]
                        /\ status'[j] = "running" \/ CancelledUnderWorker(j)'
      OBVIOUS
    <3>1. Executing(v, j)
      BY <2>2
    <3>2. /\ locked_by[j] = v /\ ~stale[j]
          /\ status[j] = "running" \/ CancelledUnderWorker(j)
      BY <3>1 DEF OwnerInv
    <3> QED BY <2>1, <3>2 DEF CancelledUnderWorker
  <2>5. \A v \in Workers : phase'[v] = "failing" =>
              /\ seen'[v].attempts = attempts'[running'[v]] /\ seen'[v].locked
              /\ seen'[v].status \in {"running", "cancelled"}
              /\ seen'[v].status = "cancelled" => status'[running'[v]] = "cancelled"
    <3>1. \A v \in Workers \ {w} : phase'[v] = phase[v] /\ seen'[v] = seen[v]
      BY <2>1
    <3> QED BY <2>1, <2>3, <3>1
  <2> QED BY <2>4, <2>5
<1>12. ASSUME NEW w \in Workers, CommitFail(w) PROVE OwnerInv'
  <2>1. \A v \in Workers : v # w /\ phase[v] \in {"handler", "failing"} => running[v] # running[w]
    BY <1>12 DEF CommitFail
  <2>2. /\ phase'[w] \in {"idle", "propagate"}
        /\ \A v \in Workers \ {w} : /\ phase'[v] = phase[v] /\ running'[v] = running[v]
                                    /\ seen'[v] = seen[v]
    BY <1>12 DEF CommitFail, Release
  <2>3. /\ \A j \in Jobs : j # running[w] => locked_by'[j] = locked_by[j] /\ status'[j] = status[j]
        /\ UNCHANGED <<attempts, stale, cancel_requested>>
    BY <1>12 DEF CommitFail
  <2> QED BY <2>1, <2>2, <2>3
<1>13. CASE UNCHANGED vars
  BY <1>13 DEF vars
<1> QED
  BY <1>1, <1>2, <1>3, <1>4, <1>5, <1>6, <1>7, <1>8, <1>9, <1>10, <1>11, <1>12, <1>13 DEF Next

LEMMA NextRowInv == TypeOK /\ OwnerInv /\ RowInv /\ [Next]_vars => RowInv'
<1> SUFFICES ASSUME TypeOK, OwnerInv, RowInv, [Next]_vars, ~MayStall PROVE RowInv'
  BY DEF RowInv, LockMatchesStatus
<1> USE JobQueueAssumption
    DEF TypeOK, RowInv, LockMatchesStatus, CancelledUnderWorker, Status, Terminal, Busy,
        jobVars, workerVars
<1>1. ASSUME NEW j \in Jobs, Enqueue(j) PROVE RowInv'
  BY <1>1 DEF Enqueue
<1>2. ASSUME NEW j \in Jobs, BackoffElapses(j) \/ HeartbeatLapses(j) PROVE RowInv'
  BY <1>2 DEF BackoffElapses, HeartbeatLapses
<1>3. ASSUME NEW j \in Jobs, Reap(j) PROVE RowInv'
  BY <1>3 DEF Reap
<1>4. ASSUME NEW j \in Jobs, LoadForCancel(j) \/ CommitCancel(j) PROVE RowInv'
  BY <1>4 DEF LoadForCancel, CommitCancel
<1>5. ASSUME NEW w \in Workers, NEW j \in Jobs, Claim(w, j) PROVE RowInv'
  BY <1>5 DEF Claim
<1>6. ASSUME NEW w \in Workers, Heartbeat(w) PROVE RowInv'
  BY <1>6 DEF Heartbeat
<1>7. ASSUME NEW w \in Workers, Complete(w) PROVE RowInv'
  BY <1>7 DEF Complete
<1>8. ASSUME NEW w \in Workers, Propagate(w) \/ Crash(w) \/ Restart(w) PROVE RowInv'
  BY <1>8 DEF Propagate, Crash, Restart
<1>9. ASSUME NEW w \in Workers, NEW cls \in Errors, LoadForFail(w, cls) PROVE RowInv'
  BY <1>9 DEF LoadForFail
<1>10. ASSUME NEW w \in Workers, CommitFail(w) PROVE RowInv'
  <2> DEFINE out == Outcome(seen[w].attempts, raised[w])
  <2>1. /\ out \in {"queued", "failed", "cancelled"}
        /\ out = "queued" => seen[w].attempts < MaxAttempts
    BY OutcomeType DEF Requeues
  <2>2. /\ running[w] \in Jobs /\ seen[w].attempts = attempts[running[w]] /\ seen[w].locked
        /\ seen[w].status = "cancelled" => status[running[w]] = "cancelled"
        /\ seen[w].status \in {"running", "cancelled"}
    BY <1>10 DEF CommitFail, OwnerInv
  <2>3. /\ status' = [status EXCEPT ![running[w]] = IF out = seen[w].status THEN @ ELSE out]
        /\ locked_by' = [locked_by EXCEPT ![running[w]] = NoWorker]
        /\ UNCHANGED <<attempts, cancel_requested>>
    BY <1>10, <2>2 DEF CommitFail
  <2>4. status' = [status EXCEPT ![running[w]] = out]
    BY <2>1, <2>2, <2>3
  <2> HIDE DEF out
  <2>5. SUFFICES ASSUME NEW j \in Jobs
                 PROVE  /\ status'[j] = "running" => locked_by'[j] # NoWorker
                        /\ locked_by'[j] # NoWorker =>
                              status'[j] = "running" \/ CancelledUnderWorker(j)'
                        /\ attempts'[j] <= MaxAttempts
                        /\ status'[j] = "queued" => attempts'[j] < MaxAttempts
                        /\ status'[j] = "absent" => attempts'[j] = 0
                        /\ cancelling'[j] # "none" => status'[j] # "absent"
    OBVIOUS
  <2>6. cancelling' = cancelling
    BY <1>10 DEF CommitFail
  <2>7. CASE j = running[w]
    BY <2>1, <2>2, <2>3, <2>4, <2>6, <2>7
  <2>8. CASE j # running[w]
    BY <2>3, <2>4, <2>6, <2>8
  <2> QED BY <2>7, <2>8
<1>11. CASE UNCHANGED vars
  BY <1>11 DEF vars
<1> QED
  BY <1>1, <1>2, <1>3, <1>4, <1>5, <1>6, <1>7, <1>8, <1>9, <1>10, <1>11 DEF Next

LEMMA OwnerInvariant == Spec => [](TypeOK /\ RowInv /\ OwnerInv)
<1>1. Init => OwnerInv /\ RowInv
  BY JobQueueAssumption DEF Init, OwnerInv, Executing, RowInv, LockMatchesStatus
<1>2. TypeOK /\ OwnerInv /\ [Next]_vars => OwnerInv' BY NextOwnerInv
<1>3. TypeOK /\ OwnerInv /\ RowInv /\ [Next]_vars => RowInv' BY NextRowInv
<1> QED BY <1>1, <1>2, <1>3, TypeCorrect, PTL DEF Spec

\* Without stalls a job is handed to a worker at most MaxAttempts times.  A worker that stalls
\* between the read and the commit of fail can hand out the last attempt again: once for each
\* of the other workers and once for each of the earlier attempts, but no more.
THEOREM AttemptsStayBounded == Spec => []AttemptsBounded
<1>1. (TypeOK /\ RowInv /\ OwnerInv) /\ (TypeOK /\ \A j \in Jobs : CountInv(j)) => AttemptsBounded
  <2> SUFFICES ASSUME TypeOK, RowInv, NEW j \in Jobs, CountInv(j)
               PROVE  IF MayStall
                      THEN /\ attempts[j] < MaxAttempts + Cardinality(Workers)
                           /\ attempts[j] < 2 * MaxAttempts
                      ELSE attempts[j] <= MaxAttempts
    BY DEF AttemptsBounded
  <2>1. /\ attempts[j] \in Nat /\ MaxAttempts \in Nat \ {0}
        /\ Cardinality(Workers) \in Nat /\ Cardinality(Late(j)) \in Nat
    BY LateSets, JobQueueAssumption, FS_CardinalityType DEF TypeOK
  <2>2. attempts[j] <= Decided(j) /\ Decided(j) \in Nat
    BY <2>1 DEF Decided
  <2> QED BY <2>1, <2>2 DEF CountInv, RowInv
<1> QED BY <1>1, OwnerInvariant, CountInvariant, PTL

\* Without stalls, a running row names its worker, and a row that names one is running or has
\* been cancelled after the claim.
THEOREM LockMatchesUnlessStalled == Spec => []LockMatchesStatus
<1>1. TypeOK /\ RowInv /\ OwnerInv => LockMatchesStatus BY DEF RowInv
<1> QED BY <1>1, OwnerInvariant, PTL

\* If no live worker stalls, a job runs on one worker at a time and that worker owns the row.
THEOREM ExclusiveExecution == Spec => []ExclusiveUnlessStalled
<1>1. TypeOK /\ RowInv /\ OwnerInv => ExclusiveUnlessStalled
  BY DEF OwnerInv, ExclusiveUnlessStalled, OneWorkerPerJob, ExecutorOwnsRow
<1> QED BY <1>1, OwnerInvariant, PTL

-----------------------------------------------------------------------------
\* How the steps of the queue look through the refinement mapping.
LEMMA LeaseStep ==
    ASSUME TypeOK, RowInv, OwnerInv, ~MayStall, [Next]_vars
    PROVE  [Lease!Next]_(Lease!vars)
<1> USE JobQueueAssumption DEF TypeOK, Lease!vars, Leased, Status, Terminal, Busy, jobVars, workerVars
<1> DEFINE Same == LeaseState' = LeaseState /\ attempts' = attempts /\ LeaseHolders' = LeaseHolders
<1>s. ASSUME Same PROVE [Lease!Next]_(Lease!vars)
  BY <1>s
<1>1. ASSUME NEW j \in Jobs, Enqueue(j) PROVE Lease!Submit(j)
  BY <1>1 DEF Enqueue, Lease!Submit, LeaseState, LeaseHolders, Executing
<1>2. ASSUME NEW j \in Jobs, BackoffElapses(j) PROVE Same
  BY <1>2 DEF BackoffElapses, LeaseState, LeaseHolders, Executing
<1>3. ASSUME NEW j \in Jobs, HeartbeatLapses(j) PROVE Same
  BY <1>3 DEF HeartbeatLapses, LeaseState, LeaseHolders, Executing
<1>4. ASSUME NEW j \in Jobs, Reap(j) PROVE Lease!GiveBack(j) \/ Lease!Close(j)
  <2>1. LeaseHolders[j] = {}
    BY <1>4 DEF Reap, OwnerInv, LeaseHolders, Executing
  <2>2. LeaseHolders' = [LeaseHolders EXCEPT ![j] = {}]
    <3>1. LeaseHolders' = LeaseHolders
      BY <1>4 DEF Reap, LeaseHolders, Executing
    <3> QED BY <2>1, <3>1 DEF LeaseHolders
  <2>3. CASE attempts[j] < MaxAttempts
    <3>1. LeaseState' = [LeaseState EXCEPT ![j] = "waiting"]
      BY <1>4, <2>3 DEF Reap, LeaseState
    <3> QED BY <1>4, <2>2, <2>3, <3>1 DEF Reap, Lease!GiveBack, LeaseState
  <2>4. CASE ~(attempts[j] < MaxAttempts)
    <3>1. LeaseState' = [LeaseState EXCEPT ![j] = "closed"]
      BY <1>4, <2>4 DEF Reap, LeaseState
    <3> QED BY <1>4, <2>2, <3>1 DEF Reap, Lease!Close, LeaseState
  <2> QED BY <2>3, <2>4
<1>5. ASSUME NEW j \in Jobs, LoadForCancel(j) \/ CommitCancel(j) PROVE Lease!Close(j) \/ Same
  <2>0. LeaseHolders' = LeaseHolders /\ attempts' = attempts /\ locked_by' = locked_by
    BY <1>5 DEF LoadForCancel, CommitCancel, LeaseHolders, Executing
  <2>1. CASE status[j] = "queued" /\ status'[j] = "cancelled"
    <3>1. LeaseHolders[j] = {} /\ locked_by[j] = NoWorker
      BY <2>1 DEF OwnerInv, RowInv, LockMatchesStatus, CancelledUnderWorker, LeaseHolders
    <3>2. LeaseState' = [LeaseState EXCEPT ![j] = "closed"]
      BY <1>5, <2>0, <2>1, <3>1 DEF LoadForCancel, CommitCancel, LeaseState
    <3>3. LeaseHolders' = [LeaseHolders EXCEPT ![j] = {}]
      BY <2>0, <3>1 DEF LeaseHolders
    <3> QED BY <2>0, <2>1, <3>2, <3>3 DEF Lease!Close, LeaseState
  <2>2. CASE ~(status[j] = "queued" /\ status'[j] = "cancelled")
    <3>1. \/ status' = status
          \/ /\ status' = [status EXCEPT ![j] = "cancelled"]
             /\ status[j] # "queued" /\ status[j] # "absent"
      BY <1>5, <2>2 DEF LoadForCancel, CommitCancel, RowInv
    <3>2. status[j] = "running" => locked_by[j] # NoWorker
      BY DEF RowInv, LockMatchesStatus
    <3>3. LeaseState' = LeaseState
      BY <2>0, <3>1, <3>2 DEF LeaseState, Status
    <3> QED BY <2>0, <3>3
  <2> QED BY <2>1, <2>2
<1>6. ASSUME NEW w \in Workers, NEW j \in Jobs, Claim(w, j) PROVE Lease!Grant(w, j)
  <2>1. LeaseHolders[j] = {}
    BY <1>6 DEF Claim, OwnerInv, CancelledUnderWorker, LeaseHolders
  <2>2. LeaseHolders' = [LeaseHolders EXCEPT ![j] = {w}]
    <3>1. \A v \in Workers, k \in Jobs :
              Executing(v, k)' <=> Executing(v, k) \/ (v = w /\ k = j)
      BY <1>6 DEF Claim, Executing
    <3>2. \A k \in Jobs : LeaseHolders'[k] = IF k = j THEN {w} ELSE LeaseHolders[k]
      BY <2>1, <3>1 DEF LeaseHolders
    <3> QED BY <3>2 DEF LeaseHolders
  <2>3. LeaseState' = [LeaseState EXCEPT ![j] = "held"]
    BY <1>6 DEF Claim, LeaseState
  <2>4. LeaseState[j] = "waiting" /\ attempts[j] < MaxAttempts
    BY <1>6 DEF Claim, LeaseState, RowInv
  <2>5. attempts' = [attempts EXCEPT ![j] = @ + 1]
    BY <1>6 DEF Claim
  <2> QED BY <2>1, <2>2, <2>3, <2>4, <2>5 DEF Lease!Grant
<1>7. ASSUME NEW w \in Workers, Heartbeat(w) PROVE Same
  BY <1>7 DEF Heartbeat, LeaseState, LeaseHolders, Executing
\* A worker that is done with its job was the only one with it, and its lease is out.
<1>l. ASSUME NEW w \in Workers, phase[w] \in {"handler", "failing"},
             phase'[w] \notin {"handler", "failing"},
             \A v \in Workers \ {w} : phase'[v] = phase[v] /\ running'[v] = running[v]
      PROVE  /\ running[w] \in Jobs
             /\ LeaseState[running[w]] = "held"
             /\ LeaseHolders[running[w]] # {}
             /\ LeaseHolders' = [LeaseHolders EXCEPT ![running[w]] = {}]
  <2>1. running[w] \in Jobs /\ Executing(w, running[w])
    BY <1>l DEF Executing
  <2>2. /\ status[running[w]] \in {"running", "cancelled"} /\ locked_by[running[w]] = w
        /\ \A v \in Workers : Executing(v, running[w]) => v = w
    BY <2>1 DEF OwnerInv, CancelledUnderWorker
  <2>3. \A v \in Workers, k \in Jobs :
            Executing(v, k)' <=> Executing(v, k) /\ k # running[w]
    BY <1>l, <2>1, <2>2 DEF Executing
  <2>4. \A k \in Jobs : LeaseHolders'[k] = IF k = running[w] THEN {} ELSE LeaseHolders[k]
    BY <2>3 DEF LeaseHolders
  <2>5. LeaseHolders' = [LeaseHolders EXCEPT ![running[w]] = {}]
    BY <2>4 DEF LeaseHolders
  <2>6. LeaseState[running[w]] = "held"
    BY <2>1, <2>2 DEF LeaseState
  <2> QED BY <2>1, <2>5, <2>6 DEF LeaseHolders
<1>8. ASSUME NEW w \in Workers, Complete(w) PROVE Lease!Close(running[w])
  <2>1. /\ running[w] \in Jobs
        /\ LeaseState[running[w]] = "held"
        /\ LeaseHolders' = [LeaseHolders EXCEPT ![running[w]] = {}]
    BY <1>8, <1>l DEF Complete, Release
  <2>2. LeaseState' = [LeaseState EXCEPT ![running[w]] = "closed"]
    BY <1>8, <2>1 DEF Complete, LeaseState
  <2> QED BY <1>8, <2>1, <2>2 DEF Complete, Lease!Close
<1>9. ASSUME NEW w \in Workers, Propagate(w) PROVE Same
  BY <1>9 DEF Propagate, Release, LeaseState, LeaseHolders, Executing
<1>10. ASSUME NEW w \in Workers, Crash(w) PROVE Lease!Lose(running[w]) \/ Same
  <2>1. CASE phase[w] \in {"handler", "failing"}
    <3>1. /\ LeaseState[running[w]] = "held"
          /\ LeaseHolders[running[w]] # {}
          /\ LeaseHolders' = [LeaseHolders EXCEPT ![running[w]] = {}]
      BY <1>10, <2>1, <1>l DEF Crash, Release
    <3> QED BY <1>10, <3>1 DEF Crash, Lease!Lose, LeaseState
  <2>2. CASE phase[w] = "propagate"
    BY <1>10, <2>2 DEF Crash, Release, LeaseState, LeaseHolders, Executing
  <2> QED BY <1>10, <2>1, <2>2 DEF Crash
<1>11. ASSUME NEW w \in Workers, Restart(w) PROVE Same
  BY <1>11 DEF Restart, LeaseState, LeaseHolders, Executing
<1>f. ASSUME NEW w \in Workers, NEW cls \in Errors, LoadForFail(w, cls) PROVE Same
  BY <1>f DEF LoadForFail, LeaseState, LeaseHolders, Executing
<1>12. ASSUME NEW w \in Workers, CommitFail(w)
       PROVE  Lease!GiveBack(running[w]) \/ Lease!Close(running[w])
  <2> DEFINE out == Outcome(seen[w].attempts, raised[w])
  <2>o. out \in {"queued", "failed", "cancelled"} /\ (out = "queued" => seen[w].attempts < MaxAttempts)
    BY OutcomeType DEF Requeues
  <2>1. /\ running[w] \in Jobs
        /\ LeaseState[running[w]] = "held"
        /\ LeaseHolders' = [LeaseHolders EXCEPT ![running[w]] = {}]
    BY <1>12, <1>l DEF CommitFail, Release
  <2>2. /\ seen[w].attempts = attempts[running[w]] /\ seen[w].locked
        /\ seen[w].status = "cancelled" => status[running[w]] = "cancelled"
        /\ seen[w].status \in {"running", "cancelled"}
    BY <1>12 DEF CommitFail, OwnerInv
  <2>3. /\ status' = [status EXCEPT ![running[w]] = IF out = seen[w].status THEN @ ELSE out]
        /\ locked_by' = [locked_by EXCEPT ![running[w]] = NoWorker]
        /\ attempts' = attempts
    BY <1>12, <2>2 DEF CommitFail
  <2>4. status' = [status EXCEPT ![running[w]] = out]
    BY <2>o, <2>2, <2>3
  <2> HIDE DEF out
  <2>p. /\ LeaseState = [k \in Jobs |-> LeaseState[k]]
        /\ LeaseState' = [k \in Jobs |-> LeaseState'[k]]
    <3> HIDE DEF Leased
    <3> QED BY DEF LeaseState
  <2>5. CASE out = "queued"
    <3>1. \A k \in Jobs : LeaseState'[k] = IF k = running[w] THEN "waiting" ELSE LeaseState[k]
      BY <2>1, <2>3, <2>4, <2>5 DEF LeaseState
    <3>2. LeaseState' = [LeaseState EXCEPT ![running[w]] = "waiting"]
      BY <2>p, <3>1
    <3> QED BY <2>o, <2>1, <2>2, <2>3, <2>5, <3>2 DEF Lease!GiveBack
  <2>6. CASE out # "queued"
    <3>1. \A k \in Jobs : LeaseState'[k] = IF k = running[w] THEN "closed" ELSE LeaseState[k]
      BY <2>o, <2>1, <2>3, <2>4, <2>6 DEF LeaseState
    <3>2. LeaseState' = [LeaseState EXCEPT ![running[w]] = "closed"]
      BY <2>p, <3>1
    <3> QED BY <2>1, <2>3, <3>2 DEF Lease!Close
  <2> QED BY <2>5, <2>6
<1>13. ASSUME UNCHANGED vars PROVE Same
  BY <1>13 DEF vars, LeaseState, LeaseHolders, Executing
<1>14. \A w \in Workers : Complete(w) \/ Crash(w) \/ CommitFail(w) => running[w] \in Jobs
  BY DEF Complete, Crash, CommitFail
<1>15. ASSUME NEW j \in Jobs, Enqueue(j) \/ BackoffElapses(j) \/ HeartbeatLapses(j) \/ Reap(j)
       PROVE  [Lease!Next]_(Lease!vars)
  BY <1>15, <1>1, <1>2, <1>3, <1>4, <1>s DEF Lease!Next
<1>16. ASSUME NEW j \in Cancellable, LoadForCancel(j) \/ CommitCancel(j)
       PROVE  [Lease!Next]_(Lease!vars)
  <2>1. j \in Jobs OBVIOUS
  <2> QED BY <1>16, <2>1, <1>5, <1>s DEF Lease!Next
<1>17. ASSUME NEW w \in Workers, NEW j \in Jobs, Claim(w, j) PROVE [Lease!Next]_(Lease!vars)
  BY <1>17, <1>6 DEF Lease!Next
<1>18. ASSUME NEW w \in Workers, Heartbeat(w) \/ Propagate(w) \/ Restart(w)
       PROVE  [Lease!Next]_(Lease!vars)
  BY <1>18, <1>7, <1>9, <1>11, <1>s
<1>19. ASSUME NEW w \in Workers, Complete(w) \/ Crash(w) \/ CommitFail(w)
       PROVE  [Lease!Next]_(Lease!vars)
  BY <1>19, <1>8, <1>10, <1>12, <1>14, <1>s DEF Lease!Next
<1>20. ASSUME NEW w \in Workers, NEW cls \in Errors, LoadForFail(w, cls)
       PROVE  [Lease!Next]_(Lease!vars)
  BY <1>20, <1>f, <1>s
<1> QED
  <2>1. CASE UNCHANGED vars
    BY <2>1, <1>13, <1>s
  <2>2. CASE Next
    <3> HIDE DEF TypeOK, Lease!vars, jobVars, workerVars, Same
    <3> QED BY <2>2, <1>15, <1>16, <1>17, <1>18, <1>19, <1>20 DEF Next
  <2> QED BY <2>1, <2>2

\* If no live worker stalls, the queue implements the lease: one worker at a time, at most
\* MaxAttempts leases, and a closed job stays closed.
THEOREM QueueImplementsLease ==
    ASSUME ~MayStall
    PROVE  Spec => ImplementsLease
<1>1. Init => Lease!Init
  BY DEF Init, Lease!Init, LeaseState, Leased, Terminal, LeaseHolders, Executing
<1>2. TypeOK /\ RowInv /\ OwnerInv /\ [Next]_vars => [Lease!Next]_(Lease!vars)
  BY LeaseStep
<1> QED BY <1>1, <1>2, OwnerInvariant, PTL DEF Spec, ImplementsLease, Lease!Spec

-----------------------------------------------------------------------------
(* The audit. *)

\* Every step of the audit is a step of the queue, or leaves the queue alone.
LEMMA AuditStepIsQueueStep == [AuditNext]_auditVars => [Next]_vars
<1> SUFFICES ASSUME [AuditNext]_auditVars PROVE [Next]_vars
  OBVIOUS
<1>1. ASSUME NEW j \in Jobs, StartAudit(j) \/ ResumeAudit(j) PROVE Next
  BY <1>1 DEF StartAudit, ResumeAudit, Next
<1>2. ASSUME NEW j \in Jobs, Passive(j) PROVE Next
  BY <1>2 DEF Passive, Next
<1>3. ASSUME audit_job \in Cancellable, LoadForCancelAudit PROVE Next
  BY <1>3 DEF LoadForCancelAudit, Next
<1>c. ASSUME NEW j \in Cancellable, CommitCancelAudit(j) PROVE Next
  BY <1>c DEF CommitCancelAudit, Next
<1>4. ASSUME ResumeAuditSameKey \/ SecondPasses PROVE UNCHANGED vars
  BY <1>4 DEF ResumeAuditSameKey, SecondPasses
<1>5. ASSUME NEW w \in Workers, NEW j \in Jobs, TakeJob(w, j) PROVE Next
  BY <1>5 DEF TakeJob, Next
<1>6. ASSUME NEW w \in Workers,
             Beat(w) \/ RecordFailure(w) \/ PropagateFailure(w) \/ Die(w) \/ Revive(w)
      PROVE  Next
  BY <1>6 DEF Beat, RecordFailure, PropagateFailure, Die, Revive, Next
<1>7. ASSUME NEW w \in Workers, HandlerStep(w) PROVE [Next]_vars
  <2>1. ASSUME Load(w) \/ BeginStage(w) \/ EndStage(w) \/ StageRaises(w) \/ Finalize(w)
        PROVE  UNCHANGED vars
    BY <2>1 DEF Load, BeginStage, EndStage, StageRaises, Finalize
  <2>2. ASSUME Return(w) PROVE Next
    BY <2>2 DEF Return, Next
  <2>3. ASSUME NEW cls \in Errors, Abort(w, cls) PROVE Next
    BY <2>3 DEF Abort, Next
  <2> QED BY <1>7, <2>1, <2>2, <2>3 DEF HandlerStep
<1>8. CASE UNCHANGED auditVars
  BY <1>8 DEF auditVars
<1> QED
  BY <1>1, <1>2, <1>3, <1>c, <1>4, <1>5, <1>6, <1>7, <1>8 DEF AuditNext

\* What is proved of the queue holds of the queue under an audit.
THEOREM AuditRunsOnQueue == AuditSpec => Spec
<1>1. AuditInit => Init BY DEF AuditInit
<1> QED BY <1>1, AuditStepIsQueueStep, PTL DEF AuditSpec, Spec

-----------------------------------------------------------------------------
\* AuditTypeOK, and where a worker is when it enters the handler and while it is in a stage.
AuditTypeInv ==
    /\ AuditTypeOK
    /\ \A w \in Workers : pc[w] \in {"none", "load"} => at[w] = 1
    /\ \A w \in Workers : pc[w] \in {"stage", "raise"} => at[w] \in Stages

\* A job has one worker at a time until its worker has reported, and a worker that reports a
\* failure reports one that stands.
HolderInv ==
    ~MayStall =>
        /\ \A v, w \in Workers : running[v] = running[w] /\ running[v] # NoJob => v = w
        /\ \A w \in Workers : phase[w] = "propagate" => status[running[w]] \in Terminal

\* The job that can still run is the one the audit names, and a stopped audit has none.
LiveInv ==
    ~MayStall /\ ~MayCancelClaimed =>
        \A j \in Jobs : Live(j) => j = audit_job /\ audit \in Unfinished \cup {"completed"}

\* A worker between two stages has completed the ones behind it, and the stage it is in is
\* nobody else's.
StageInv ==
    ~MayStall /\ ~MayCancelClaimed =>
        /\ \A w \in Workers, k \in Stages : pc[w] \in {"checkpoint", "stage", "raise"} /\ k < at[w]
                                            => step[k] = "completed"
        /\ \A w \in Workers : pc[w] \in {"stage", "raise"} => step[at[w]] # "completed"
        /\ CompletedAuditHasAllStages
        /\ \A w \in Workers : pc[w] \in {"checkpoint", "stage", "raise"} => audit = "running"
-----------------------------------------------------------------------------
LEMMA NextHolderInv == TypeOK /\ OwnerInv /\ HolderInv /\ [Next]_vars => HolderInv'
<1> SUFFICES ASSUME TypeOK, OwnerInv, HolderInv, [Next]_vars, ~MayStall PROVE HolderInv'
  BY DEF HolderInv
<1> USE JobQueueAssumption DEF TypeOK, HolderInv, Terminal, Busy, jobVars, workerVars
<1>1. ASSUME NEW j \in Jobs, Enqueue(j) \/ BackoffElapses(j) \/ HeartbeatLapses(j) \/ Reap(j)
      PROVE  HolderInv'
  BY <1>1 DEF Enqueue, BackoffElapses, HeartbeatLapses, Reap
<1>2. ASSUME NEW j \in Jobs, LoadForCancel(j) \/ CommitCancel(j) PROVE HolderInv'
  BY <1>2 DEF LoadForCancel, CommitCancel
<1>3. ASSUME NEW w \in Workers, NEW j \in Jobs, Claim(w, j) PROVE HolderInv'
  <2>1. \A v \in Workers : running[v] # j
    BY <1>3 DEF Claim, OwnerInv, Executing, CancelledUnderWorker
  <2> QED BY <1>3, <2>1 DEF Claim
<1>4. ASSUME NEW w \in Workers, Heartbeat(w) PROVE HolderInv'
  BY <1>4 DEF Heartbeat
<1>5. ASSUME NEW w \in Workers, Complete(w) PROVE HolderInv'
  BY <1>5 DEF Complete, Release
<1>6. ASSUME NEW w \in Workers, Propagate(w) \/ Crash(w) \/ Restart(w) PROVE HolderInv'
  <2>1. CASE Propagate(w)
    BY <2>1 DEF Propagate, Release
  <2>2. CASE Crash(w)
    BY <2>2 DEF Crash, Release
  <2>3. CASE Restart(w)
    BY <2>3 DEF Restart
  <2> QED BY <1>6, <2>1, <2>2, <2>3
<1>7. ASSUME NEW w \in Workers, NEW cls \in Errors, LoadForFail(w, cls) PROVE HolderInv'
  BY <1>7 DEF LoadForFail
<1>8. ASSUME NEW w \in Workers, CommitFail(w) PROVE HolderInv'
  <2> DEFINE out == Outcome(seen[w].attempts, raised[w])
  <2>1. out \in {"queued", "failed", "cancelled"}
    BY OutcomeType
  <2>2. /\ running[w] \in Jobs /\ phase[w] = "failing"
        /\ status' = [status EXCEPT ![running[w]] = IF out = seen[w].status THEN @ ELSE out]
        /\ seen[w].status = "cancelled" => status[running[w]] = "cancelled"
        /\ seen[w].status \in {"running", "cancelled"}
    BY <1>8 DEF CommitFail, OwnerInv
  <2>3. status' = [status EXCEPT ![running[w]] = out]
    BY <2>1, <2>2
  <2>4. CASE out = "queued"
    <3>1. /\ running' = [running EXCEPT ![w] = NoJob] /\ phase' = [phase EXCEPT ![w] = "idle"]
      BY <1>8, <2>4 DEF CommitFail, Release
    <3> HIDE DEF out
    <3> QED BY <2>2, <2>3, <3>1
  <2>5. CASE out # "queued"
    <3>1. /\ running' = running /\ phase' = [phase EXCEPT ![w] = "propagate"]
      BY <1>8, <2>5 DEF CommitFail
    <3> HIDE DEF out
    <3> QED BY <2>1, <2>2, <2>3, <2>5, <3>1
  <2> QED BY <2>4, <2>5
<1>9. CASE UNCHANGED vars
  BY <1>9 DEF vars
<1> QED
  BY <1>1, <1>2, <1>3, <1>4, <1>5, <1>6, <1>7, <1>8, <1>9 DEF Next

LEMMA HolderInvariant == AuditSpec => [](TypeOK /\ RowInv /\ OwnerInv /\ HolderInv)
<1>1. Init => HolderInv
  BY DEF Init, HolderInv
<1>2. TypeOK /\ OwnerInv /\ HolderInv /\ [Next]_vars => HolderInv' BY NextHolderInv
<1> QED BY <1>1, <1>2, OwnerInvariant, AuditRunsOnQueue, PTL DEF Spec

-----------------------------------------------------------------------------
LEMMA NextAuditTypeInv == AuditTypeInv /\ TypeOK' /\ [AuditNext]_auditVars => AuditTypeInv'
<1> SUFFICES ASSUME AuditTypeInv, TypeOK', [AuditNext]_auditVars PROVE AuditTypeInv'
  OBVIOUS
<1> USE AuditRunAssumption, JobQueueAssumption
    DEF AuditTypeInv, AuditTypeOK, Stages, StepStatus, HandlerPc, Unfinished, Terminal,
        rowVars, handlerVars, workerVars, Goto, Leave
<1>1. ASSUME NEW j \in Jobs, StartAudit(j) \/ ResumeAudit(j) PROVE AuditTypeInv'
  BY <1>1 DEF StartAudit, ResumeAudit, Enqueue
<1>2. ASSUME NEW j \in Jobs, Passive(j) PROVE AuditTypeInv'
  BY <1>2 DEF Passive, BackoffElapses, HeartbeatLapses, Reap
<1>3. ASSUME LoadForCancelAudit PROVE AuditTypeInv'
  BY <1>3 DEF LoadForCancelAudit, LoadForCancel
<1>c. ASSUME NEW j \in Cancellable, CommitCancelAudit(j) PROVE AuditTypeInv'
  BY <1>c DEF CommitCancelAudit, CommitCancel
<1>4. ASSUME ResumeAuditSameKey \/ SecondPasses PROVE AuditTypeInv'
  BY <1>4 DEF ResumeAuditSameKey, SecondPasses, vars
<1>5. ASSUME NEW w \in Workers, NEW j \in Jobs, TakeJob(w, j) PROVE AuditTypeInv'
  BY <1>5 DEF TakeJob, Claim, TypeOK
<1>6. ASSUME NEW w \in Workers, Beat(w) PROVE AuditTypeInv'
  BY <1>6 DEF Beat, Heartbeat
<1>7. ASSUME NEW w \in Workers, PropagateFailure(w) PROVE AuditTypeInv'
  BY <1>7 DEF PropagateFailure, Propagate, Release, TypeOK
<1>8. ASSUME NEW w \in Workers, Die(w) PROVE AuditTypeInv'
  BY <1>8 DEF Die, Crash, Release, TypeOK
<1>f. ASSUME NEW w \in Workers, RecordFailure(w) PROVE AuditTypeInv'
  <2>1. \A v \in Workers : phase'[v] = "handler" <=> phase[v] = "handler"
    BY <1>f DEF RecordFailure, CommitFail, Release, TypeOK
  <2> QED BY <1>f, <2>1 DEF RecordFailure
<1>9. ASSUME NEW w \in Workers, Revive(w) PROVE AuditTypeInv'
  BY <1>9 DEF Revive, Restart, TypeOK
<1>10. ASSUME NEW w \in Workers, Load(w) PROVE AuditTypeInv'
  BY <1>10 DEF Load, vars
<1>11. ASSUME NEW w \in Workers, BeginStage(w) PROVE AuditTypeInv'
  <2>1. CASE step[at[w]] = "completed"
    <3>1. at[w] + 1 \in 1..NumStages + 1
      BY <1>11 DEF BeginStage
    <3> QED BY <1>11, <2>1, <3>1 DEF BeginStage, vars
  <2>2. CASE step[at[w]] # "completed"
    BY <1>11, <2>2 DEF BeginStage, vars
  <2> QED BY <2>1, <2>2
<1>12. ASSUME NEW w \in Workers, EndStage(w) PROVE AuditTypeInv'
  BY <1>12 DEF EndStage, vars
<1>13. ASSUME NEW w \in Workers, StageRaises(w) PROVE AuditTypeInv'
  BY <1>13 DEF StageRaises, vars
<1>14. ASSUME NEW w \in Workers, Finalize(w) PROVE AuditTypeInv'
  BY <1>14 DEF Finalize, vars
<1>15. ASSUME NEW w \in Workers, Return(w) PROVE AuditTypeInv'
  BY <1>15 DEF Return, Complete, Release, TypeOK
<1>16. ASSUME NEW w \in Workers, NEW cls \in Errors, Abort(w, cls) PROVE AuditTypeInv'
  <2>1. phase'[w] # "handler" /\ \A v \in Workers \ {w} : phase'[v] = phase[v]
    BY <1>16 DEF Abort, LoadForFail, TypeOK
  <2> QED BY <1>16, <2>1 DEF Abort
<1>17. CASE UNCHANGED auditVars
  BY <1>17 DEF auditVars, vars
<1> QED
  BY <1>1, <1>2, <1>3, <1>c, <1>4, <1>5, <1>6, <1>7, <1>8, <1>f, <1>9, <1>10, <1>11, <1>12,
     <1>13, <1>14, <1>15, <1>16, <1>17 DEF AuditNext, HandlerStep

LEMMA AuditTypeInvariant == AuditSpec => []AuditTypeInv
<1>1. AuditInit => AuditTypeInv
  <2> SUFFICES ASSUME AuditInit PROVE AuditTypeInv
    OBVIOUS
  <2>1. TypeOK /\ phase = [w \in Workers |-> "idle"]
    BY InitTypeOK DEF AuditInit, Init
  <2>2. 1 \in 1..NumStages + 1
    BY AuditRunAssumption
  <2> QED
    BY <2>1, <2>2 DEF AuditInit, AuditTypeInv, AuditTypeOK, StepStatus, HandlerPc
<1>2. AuditTypeInv /\ TypeOK' /\ [AuditNext]_auditVars => AuditTypeInv' BY NextAuditTypeInv
<1> QED BY <1>1, <1>2, HolderInvariant, PTL DEF AuditSpec

\* Every reachable state of the audit and its queue is well typed, and a worker has a position
\* in the handler exactly while it runs it.
THEOREM AuditTypeCorrect == AuditSpec => []AuditTypeOK
<1>1. AuditTypeInv => AuditTypeOK BY DEF AuditTypeInv
<1> QED BY <1>1, AuditTypeInvariant, PTL

-----------------------------------------------------------------------------
LEMMA NextLiveInv ==
    AuditTypeInv /\ OwnerInv /\ HolderInv /\ LiveInv /\ [AuditNext]_auditVars => LiveInv'
<1> SUFFICES ASSUME AuditTypeInv, OwnerInv, HolderInv, LiveInv, [AuditNext]_auditVars,
                    ~MayStall, ~MayCancelClaimed
             PROVE  LiveInv'
  BY DEF LiveInv
<1> USE AuditRunAssumption, JobQueueAssumption
    DEF LiveInv, AuditTypeInv, AuditTypeOK, TypeOK, Unfinished, Terminal, workerVars
<1>1. ASSUME NEW j \in Jobs, StartAudit(j) \/ ResumeAudit(j) PROVE LiveInv'
  <2>1. \A i \in Jobs : ~Live(i)
    BY <1>1 DEF StartAudit, ResumeAudit
  <2>2. \A i \in Jobs : Live(i)' => i = j
    BY <1>1, <2>1 DEF StartAudit, ResumeAudit, Enqueue, Live
  <2> QED BY <1>1, <2>2 DEF StartAudit, ResumeAudit
<1>2. ASSUME NEW j \in Jobs, Passive(j) PROVE LiveInv'
  <2>1. \A i \in Jobs : Live(i)' => Live(i)
    BY <1>2 DEF Passive, BackoffElapses, HeartbeatLapses, Reap, Live
  <2> QED BY <1>2, <2>1 DEF Passive, rowVars
<1>3. ASSUME audit_job \in Cancellable, LoadForCancelAudit PROVE LiveInv'
  <2>1. \A i \in Jobs : Live(i)' <=> Live(i)
    BY <1>3 DEF LoadForCancelAudit, LoadForCancel, Live
  <2> QED BY <1>3, <2>1 DEF LoadForCancelAudit
<1>c. ASSUME NEW j \in Cancellable, CommitCancelAudit(j) PROVE LiveInv'
  <2>1. j \in Jobs OBVIOUS
  <2>2. \A i \in Jobs : Live(i)' => Live(i)
    BY <1>c, <2>1 DEF CommitCancelAudit, CommitCancel, Live
  <2>3. CASE marking
    <3>1. audit = "queued" /\ audit_job = j /\ ~Claimed
      BY <1>c, <2>3 DEF CommitCancelAudit
    <3>2. ~Live(j)'
      BY <1>c, <2>1, <3>1 DEF CommitCancelAudit, CommitCancel, Claimed, Live
    <3>3. \A i \in Jobs : ~Live(i)'
      BY <2>2, <3>1, <3>2
    <3> QED BY <3>3
  <2>4. CASE ~marking
    BY <1>c, <2>2, <2>4 DEF CommitCancelAudit
  <2> QED BY <2>3, <2>4
<1>4. ASSUME ResumeAuditSameKey \/ SecondPasses PROVE LiveInv'
  <2>1. \A i \in Jobs : Live(i)' <=> Live(i)
    BY <1>4 DEF ResumeAuditSameKey, SecondPasses, vars, jobVars, Live
  <2> QED BY <1>4, <2>1 DEF ResumeAuditSameKey, SecondPasses
<1>5. ASSUME NEW w \in Workers, NEW j \in Jobs, TakeJob(w, j) PROVE LiveInv'
  <2>1. Live(j)
    BY <1>5 DEF TakeJob, Claim, Live
  <2>2. \A i \in Jobs : Live(i)' => Live(i)
    BY <1>5, <2>1 DEF TakeJob, Claim, Live
  <2> QED BY <1>5, <2>2 DEF TakeJob, rowVars
<1>6. ASSUME NEW w \in Workers, Beat(w) \/ Die(w) \/ Revive(w) PROVE LiveInv'
  <2>1. \A i \in Jobs : Live(i)' => Live(i)
    BY <1>6 DEF Beat, Heartbeat, Die, Crash, Release, Revive, Restart, jobVars, Live
  <2> QED BY <1>6, <2>1 DEF Beat, Die, Revive, rowVars
<1>7. ASSUME NEW w \in Workers, PropagateFailure(w) PROVE LiveInv'
  <2>1. running[w] \in Jobs /\ status[running[w]] \in Terminal
    BY <1>7 DEF PropagateFailure, Propagate, HolderInv, Busy
  <2>2. Live(running[w])
    BY <2>1 DEF Live
  <2>3. \A i \in Jobs : Live(i)' => Live(i) /\ i # running[w]
    <3>1. \A v \in Workers : v # w => running[v] # running[w]
      BY <2>1 DEF HolderInv
    <3>2. /\ running' = [running EXCEPT ![w] = NoJob]
          /\ status' = status /\ cancel_requested' = cancel_requested
      BY <1>7 DEF PropagateFailure, Propagate, Release, jobVars
    <3> QED BY <2>1, <3>1, <3>2 DEF Live
  <2>4. \A i \in Jobs : ~Live(i)'
    BY <2>1, <2>2, <2>3
  <2> QED BY <2>4
<1>8. ASSUME NEW w \in Workers, Load(w) \/ Finalize(w) PROVE LiveInv'
  <2>1. \A i \in Jobs : Live(i)' <=> Live(i)
    BY <1>8 DEF Load, Finalize, vars, jobVars, Live
  <2> QED BY <1>8, <2>1 DEF Load, Finalize
<1>9. ASSUME NEW w \in Workers, BeginStage(w) \/ EndStage(w) \/ StageRaises(w) PROVE LiveInv'
  <2>1. \A i \in Jobs : Live(i)' <=> Live(i)
    BY <1>9 DEF BeginStage, EndStage, StageRaises, vars, jobVars, Live
  <2> QED BY <1>9, <2>1 DEF BeginStage, EndStage, StageRaises
<1>10. ASSUME NEW w \in Workers, Return(w) PROVE LiveInv'
  <2>1. \A i \in Jobs : Live(i)' => Live(i)
    BY <1>10 DEF Return, Complete, Release, Live
  <2> QED BY <1>10, <2>1 DEF Return, rowVars
<1>11. ASSUME NEW w \in Workers, NEW cls \in Errors, Abort(w, cls) PROVE LiveInv'
  <2>1. \A i \in Jobs : Live(i)' <=> Live(i)
    BY <1>11 DEF Abort, LoadForFail, jobVars, Live
  <2> QED BY <1>11, <2>1 DEF Abort, rowVars
<1>f. ASSUME NEW w \in Workers, RecordFailure(w) PROVE LiveInv'
  <2>1. \A i \in Jobs : Live(i)' => Live(i)
    <3>1. running[w] \in Jobs /\ Live(running[w])
      BY <1>f DEF RecordFailure, CommitFail, Busy, Live
    <3>2. /\ \A i \in Jobs : i # running[w] => status'[i] = status[i]
          /\ cancel_requested' = cancel_requested
          /\ \A v \in Workers : running'[v] \in {running[v], NoJob}
      BY <1>f DEF RecordFailure, CommitFail, Release
    <3> QED BY <3>1, <3>2 DEF Live
  <2> QED BY <1>f, <2>1 DEF RecordFailure, rowVars
<1>12. CASE UNCHANGED auditVars
  <2>1. \A i \in Jobs : Live(i)' <=> Live(i)
    BY <1>12 DEF auditVars, vars, jobVars, Live
  <2> QED BY <1>12, <2>1 DEF auditVars, rowVars
<1> QED
  BY <1>1, <1>2, <1>3, <1>c, <1>4, <1>5, <1>6, <1>7, <1>8, <1>9, <1>10, <1>11, <1>f, <1>12
     DEF AuditNext, HandlerStep

LEMMA LiveInvariant ==
    AuditSpec => [](AuditTypeInv /\ TypeOK /\ OwnerInv /\ HolderInv /\ LiveInv)
<1>1. AuditInit => LiveInv
  BY JobQueueAssumption DEF AuditInit, Init, LiveInv, Live, Unfinished
<1>2. AuditTypeInv /\ OwnerInv /\ HolderInv /\ LiveInv /\ [AuditNext]_auditVars => LiveInv'
  BY NextLiveInv
<1> QED BY <1>1, <1>2, HolderInvariant, AuditTypeInvariant, PTL DEF AuditSpec

\* Only one worker has a job of the audit, and it has it only while the audit is not stopped.
LEMMA OneHolder ==
    ASSUME AuditTypeInv, HolderInv, LiveInv, ~MayStall, ~MayCancelClaimed
    PROVE  /\ \A v, w \in Workers : running[v] # NoJob /\ running[w] # NoJob => v = w
           /\ \A w \in Workers : running[w] # NoJob => audit \in Unfinished \cup {"completed"}
           /\ \A w \in Workers : RunningAudit(w) => running[w] # NoJob /\ phase[w] = "handler"
<1> USE JobQueueAssumption DEF AuditTypeInv, AuditTypeOK, TypeOK
<1>1. \A w \in Workers : running[w] # NoJob =>
          running[w] = audit_job /\ audit \in Unfinished \cup {"completed"}
  BY DEF LiveInv, Live
<1> QED BY <1>1 DEF HolderInv, RunningAudit, Busy

\* If no worker stalls and no cancellation hits the window after a claim, an audit is run by
\* one worker at a time and at most one of its jobs can still run, through any sequence of
\* crashes, retries, cancellations and resumes.
THEOREM OneRunAtATime ==
    ASSUME ~MayStall, ~MayCancelClaimed
    PROVE  AuditSpec => []OneRunPerAudit
<1>1. AuditTypeInv /\ HolderInv /\ LiveInv => OneRunPerAudit
  BY OneHolder DEF OneRunPerAudit, LiveInv
<1> QED BY <1>1, LiveInvariant, PTL

\* Under the same assumptions no worker is inside the handler of a failed or cancelled audit.
THEOREM StoppedIsIdle ==
    ASSUME ~MayStall, ~MayCancelClaimed
    PROVE  AuditSpec => []StoppedAuditIsIdle
<1>1. AuditTypeInv /\ HolderInv /\ LiveInv => StoppedAuditIsIdle
  BY OneHolder DEF StoppedAuditIsIdle, Unfinished
<1> QED BY <1>1, LiveInvariant, PTL

-----------------------------------------------------------------------------
LEMMA NextStageInv ==
    AuditTypeInv /\ HolderInv /\ LiveInv /\ StageInv /\ [AuditNext]_auditVars => StageInv'
<1> SUFFICES ASSUME AuditTypeInv, HolderInv, LiveInv, StageInv, [AuditNext]_auditVars,
                    ~MayStall, ~MayCancelClaimed
             PROVE  StageInv'
  BY DEF StageInv
<1>o. /\ \A v, w \in Workers : running[v] # NoJob /\ running[w] # NoJob => v = w
      /\ \A w \in Workers : running[w] # NoJob => audit \in Unfinished \cup {"completed"}
      /\ \A w \in Workers : pc[w] # "none" => running[w] # NoJob /\ phase[w] = "handler"
  BY OneHolder DEF RunningAudit
<1> USE AuditRunAssumption, JobQueueAssumption
    DEF StageInv, CompletedAuditHasAllStages, AuditTypeInv, AuditTypeOK, TypeOK, Stages,
        Unfinished, StepStatus, HandlerPc, Goto, Leave
<1>1. ASSUME NEW j \in Jobs, StartAudit(j) \/ ResumeAudit(j) PROVE StageInv'
  BY <1>1, <1>o DEF StartAudit, ResumeAudit, handlerVars, Terminal
<1>2. ASSUME NEW j \in Jobs, Passive(j) PROVE StageInv'
  BY <1>2 DEF Passive, rowVars, handlerVars
<1>3. ASSUME LoadForCancelAudit PROVE StageInv'
  BY <1>3 DEF LoadForCancelAudit, handlerVars
<1>c. ASSUME NEW j \in Cancellable, CommitCancelAudit(j) PROVE StageInv'
  <2>1. CASE marking
    <3>1. audit = "queued" /\ \A w \in Workers : pc[w] \notin {"checkpoint", "stage", "raise"}
      BY <1>c, <2>1 DEF CommitCancelAudit
    <3> QED BY <1>c, <2>1, <3>1 DEF CommitCancelAudit, handlerVars
  <2>2. CASE ~marking
    BY <1>c, <2>2 DEF CommitCancelAudit, handlerVars
  <2> QED BY <2>1, <2>2
<1>4. ASSUME ResumeAuditSameKey \/ SecondPasses PROVE StageInv'
  BY <1>4, <1>o DEF ResumeAuditSameKey, SecondPasses, handlerVars
<1>5. ASSUME NEW w \in Workers, NEW j \in Jobs, TakeJob(w, j) PROVE StageInv'
  BY <1>5 DEF TakeJob, rowVars
<1>6. ASSUME NEW w \in Workers, Beat(w) \/ RecordFailure(w) \/ Revive(w) PROVE StageInv'
  BY <1>6 DEF Beat, RecordFailure, Revive, rowVars, handlerVars
<1>7. ASSUME NEW w \in Workers, PropagateFailure(w) PROVE StageInv'
  <2>1. \A v \in Workers : pc[v] = "none"
    <3>1. phase[w] = "propagate" /\ running[w] # NoJob
      BY <1>7 DEF PropagateFailure, Propagate, Busy
    <3> QED BY <3>1, <1>o
  <2> QED BY <1>7, <2>1 DEF PropagateFailure, handlerVars
<1>8. ASSUME NEW w \in Workers, Die(w) \/ Return(w) PROVE StageInv'
  BY <1>8 DEF Die, Return, rowVars
<1>9. ASSUME NEW w \in Workers, NEW cls \in Errors, Abort(w, cls) PROVE StageInv'
  BY <1>9 DEF Abort, rowVars
<1>10. ASSUME NEW w \in Workers, Load(w) PROVE StageInv'
  BY <1>10 DEF Load
<1>11. ASSUME NEW w \in Workers, BeginStage(w) PROVE StageInv'
  <2>1. \A v \in Workers : v # w => pc[v] = "none"
    BY <1>11, <1>o DEF BeginStage
  <2>2. CASE step[at[w]] = "completed"
    <3>1. /\ pc[w] = "checkpoint" /\ at[w] \in Stages /\ at' = [at EXCEPT ![w] = at[w] + 1]
          /\ pc' = pc /\ step' = step /\ audit' = audit
      BY <1>11, <2>2 DEF BeginStage
    <3>2. \A k \in Stages : k < at[w] + 1 => k < at[w] \/ k = at[w]
      BY <3>1
    <3>3. \A k \in Stages : k < at'[w] => step[k] = "completed"
      BY <2>2, <3>1, <3>2
    <3> QED BY <2>1, <3>1, <3>3
  <2>3. CASE step[at[w]] # "completed"
    <3>1. /\ pc[w] = "checkpoint" /\ at[w] \in Stages /\ at' = at
          /\ pc' = [pc EXCEPT ![w] = "stage"] /\ step' = [step EXCEPT ![at[w]] = "running"]
          /\ audit' = audit
      BY <1>11, <2>3 DEF BeginStage
    <3>2. audit = "running"
      BY <3>1
    <3>3. \A k \in Stages : k < at[w] => step'[k] = "completed"
      BY <3>1
    <3> QED BY <2>1, <3>1, <3>2, <3>3
  <2> QED BY <2>2, <2>3
<1>12. ASSUME NEW w \in Workers, EndStage(w) PROVE StageInv'
  <2>1. \A v \in Workers : v # w => pc[v] = "none"
    BY <1>12, <1>o DEF EndStage
  <2> QED BY <1>12, <2>1 DEF EndStage
<1>13. ASSUME NEW w \in Workers, StageRaises(w) PROVE StageInv'
  <2>1. \A v \in Workers : v # w => pc[v] = "none"
    BY <1>13, <1>o DEF StageRaises
  <2> QED BY <1>13, <2>1 DEF StageRaises
<1>14. ASSUME NEW w \in Workers, Finalize(w) PROVE StageInv'
  <2>1. \A v \in Workers : v # w => pc[v] = "none"
    BY <1>14, <1>o DEF Finalize
  <2> QED BY <1>14, <2>1 DEF Finalize
<1>15. CASE UNCHANGED auditVars
  BY <1>15 DEF auditVars, rowVars, handlerVars
<1> QED
  BY <1>1, <1>2, <1>3, <1>c, <1>4, <1>5, <1>6, <1>7, <1>8, <1>9, <1>10, <1>11, <1>12, <1>13,
     <1>14, <1>15 DEF AuditNext, HandlerStep

LEMMA StageInvariant ==
    AuditSpec => [](AuditTypeInv /\ HolderInv /\ LiveInv /\ StageInv)
<1>1. AuditInit => StageInv
  BY DEF AuditInit, StageInv, CompletedAuditHasAllStages
<1>2. AuditTypeInv /\ HolderInv /\ LiveInv /\ StageInv /\ [AuditNext]_auditVars => StageInv'
  BY NextStageInv
<1> QED BY <1>1, <1>2, LiveInvariant, PTL DEF AuditSpec

\* Under the same assumptions a completed audit has all its stages.
THEOREM AllStagesDone ==
    ASSUME ~MayStall, ~MayCancelClaimed
    PROVE  AuditSpec => []CompletedAuditHasAllStages
<1>1. StageInv => CompletedAuditHasAllStages BY DEF StageInv
<1> QED BY <1>1, StageInvariant, PTL

\* Under the same assumptions no step takes a completed stage back.
THEOREM StagesKept ==
    ASSUME ~MayStall, ~MayCancelClaimed
    PROVE  AuditSpec => CompletedStagesKept
<1>1. ASSUME AuditTypeInv, StageInv, [AuditNext]_auditVars, NEW k \in Stages, step[k] = "completed"
      PROVE  step'[k] = "completed"
  <2> USE DEF AuditTypeInv, AuditTypeOK, StageInv
  <2>1. ASSUME NEW w \in Workers, BeginStage(w) \/ EndStage(w) \/ StageRaises(w)
        PROVE  step'[k] = "completed"
    BY <1>1, <2>1 DEF BeginStage, EndStage, StageRaises
  <2>2. ASSUME NEW w \in Workers, NEW cls \in Errors, Abort(w, cls) PROVE step' = step
    BY <2>2 DEF Abort, rowVars
  <2>3. ASSUME NEW w \in Workers, Load(w) \/ Finalize(w) \/ Return(w) PROVE step' = step
    BY <2>3 DEF Load, Finalize, Return, rowVars
  <2>4. ASSUME NEW w \in Workers,
               Beat(w) \/ RecordFailure(w) \/ PropagateFailure(w) \/ Die(w) \/ Revive(w)
        PROVE  step' = step
    BY <2>4 DEF Beat, RecordFailure, PropagateFailure, Die, Revive, rowVars
  <2>5. ASSUME NEW w \in Workers, NEW j \in Jobs,
               StartAudit(j) \/ ResumeAudit(j) \/ Passive(j) \/ TakeJob(w, j)
        PROVE  step' = step
    BY <2>5 DEF StartAudit, ResumeAudit, Passive, TakeJob, rowVars
  <2>6. ASSUME NEW j \in Jobs, StartAudit(j) \/ ResumeAudit(j) \/ Passive(j) PROVE step' = step
    BY <2>6 DEF StartAudit, ResumeAudit, Passive, rowVars
  <2>7. ASSUME LoadForCancelAudit \/ (\E j \in Cancellable : CommitCancelAudit(j))
               \/ ResumeAuditSameKey \/ SecondPasses
        PROVE  step' = step
    BY <2>7 DEF LoadForCancelAudit, CommitCancelAudit, ResumeAuditSameKey, SecondPasses
  <2>8. CASE UNCHANGED auditVars
    BY <1>1, <2>8 DEF auditVars, rowVars
  <2> QED
    BY <1>1, <2>1, <2>2, <2>3, <2>4, <2>5, <2>6, <2>7, <2>8 DEF AuditNext, HandlerStep
<1>2. AuditTypeInv /\ StageInv /\ [AuditNext]_auditVars
          => [\A k \in Stages : step[k] = "completed" => step'[k] = "completed"]_auditVars
  BY <1>1
<1> QED BY <1>2, StageInvariant, PTL DEF AuditSpec, CompletedStagesKept
-----------------------------------------------------------------------------
\* The jobs queued for the audit so far, and what the ledger says of them: while one of them
\* can still run and the audit is not completed, one of them has recorded nothing.  Only the
\* report of a failure takes a completed audit back, and it leaves no job that can run.
Made == {j \in Jobs : status[j] # "absent"}

RecordInv ==
    ~MayStall /\ ~MayCancelClaimed =>
        /\ IsFiniteSet(Made)
        /\ completions <= Cardinality(Made)
        /\ audit # "completed" /\ (\E j \in Jobs : Live(j)) => completions < Cardinality(Made)

\* Only a row that is queued for the first time starts to be a job that can run.
LEMMA LiveStep ==
    ASSUME TypeOK, [Next]_vars
    PROVE  \A i \in Jobs : /\ Live(i)' => Live(i) \/ (status[i] = "absent" /\ i \in Made')
                           /\ i \in Made => i \in Made'
<1> USE JobQueueAssumption DEF TypeOK, Live, Made, Unfinished, Terminal, Busy, jobVars, workerVars
<1> DEFINE Shown == \A i \in Jobs :
               /\ Live(i)' => Live(i) \/ (status[i] = "absent" /\ i \in Made')
               /\ i \in Made => i \in Made'
<1> SUFFICES Shown
  OBVIOUS
<1>1. ASSUME NEW j \in Jobs, Enqueue(j) \/ BackoffElapses(j) \/ HeartbeatLapses(j) \/ Reap(j)
      PROVE  Shown
  BY <1>1 DEF Enqueue, BackoffElapses, HeartbeatLapses, Reap
<1>2. ASSUME NEW j \in Jobs, LoadForCancel(j) \/ CommitCancel(j) PROVE Shown
  BY <1>2 DEF LoadForCancel, CommitCancel
<1>3. ASSUME NEW w \in Workers, NEW j \in Jobs, Claim(w, j) PROVE Shown
  BY <1>3 DEF Claim
<1>4. ASSUME NEW w \in Workers, Heartbeat(w) \/ Propagate(w) \/ Crash(w) \/ Restart(w) PROVE Shown
  BY <1>4 DEF Heartbeat, Propagate, Crash, Restart, Release
<1>5. ASSUME NEW w \in Workers, Complete(w) PROVE Shown
  BY <1>5 DEF Complete, Release
<1>6. ASSUME NEW w \in Workers, NEW cls \in Errors, LoadForFail(w, cls) PROVE Shown
  BY <1>6 DEF LoadForFail
<1>f. ASSUME NEW w \in Workers, CommitFail(w) PROVE Shown
  <2> DEFINE out == Outcome(seen[w].attempts, raised[w])
  <2>1. out \in {"queued", "failed", "cancelled"}
    BY OutcomeType
  <2>2. \A v \in Workers : running'[v] # NoJob => running'[v] = running[v]
    BY <1>f DEF CommitFail, Release
  <2>3. running[w] \in Jobs /\ Live(running[w])
    BY <1>f DEF CommitFail
  <2>4. /\ status' = [status EXCEPT ![running[w]] = IF out = seen[w].status THEN @ ELSE out]
        /\ cancel_requested' = cancel_requested
    BY <1>f DEF CommitFail
  <2> HIDE DEF out
  <2> QED BY <2>1, <2>2, <2>3, <2>4
<1>7. CASE UNCHANGED vars
  BY <1>7 DEF vars
<1> QED
  BY <1>1, <1>2, <1>3, <1>4, <1>5, <1>6, <1>f, <1>7 DEF Next

LEMMA NextRecordInv ==
    /\ AuditTypeInv /\ RowInv /\ OwnerInv /\ LiveInv /\ LiveInv' /\ StageInv /\ RecordInv
    /\ [AuditNext]_auditVars
    => RecordInv'
<1> SUFFICES ASSUME AuditTypeInv, RowInv, OwnerInv, LiveInv, LiveInv', StageInv, RecordInv,
                    [AuditNext]_auditVars, ~MayStall, ~MayCancelClaimed
             PROVE  RecordInv'
  BY DEF RecordInv
<1>t. TypeOK /\ completions \in Nat /\ IsFiniteSet(Made) /\ Cardinality(Made) \in Nat
  BY FS_CardinalityType DEF AuditTypeInv, AuditTypeOK, RecordInv
<1>l. \A i \in Jobs : /\ Live(i)' => Live(i) \/ (status[i] = "absent" /\ i \in Made')
                      /\ i \in Made => i \in Made'
  BY <1>t, AuditStepIsQueueStep, LiveStep
<1>k. ASSUME Made' = Made, completions' = completions, audit' # "completed" => audit # "completed"
      PROVE  RecordInv'
  <2>1. (\E j \in Jobs : Live(j)') => \E j \in Jobs : Live(j)
    BY <1>k, <1>l DEF Made
  <2> QED BY <1>k, <2>1 DEF RecordInv
<1>h. \A w \in Workers : phase[w] \in {"handler", "failing"} =>
          running[w] \in Jobs /\ status[running[w]] # "absent"
  BY <1>t DEF OwnerInv, Executing, CancelledUnderWorker, TypeOK, Busy
<1>1. ASSUME NEW j \in Jobs, StartAudit(j) \/ ResumeAudit(j) PROVE RecordInv'
  <2>1. j \notin Made /\ Made' = Made \cup {j} /\ completions' = completions
    BY <1>1, <1>t DEF StartAudit, ResumeAudit, Enqueue, Made, TypeOK
  <2>2. IsFiniteSet(Made') /\ Cardinality(Made') = Cardinality(Made) + 1
    BY <1>t, <2>1, FS_AddElement
  <2> QED BY <1>t, <2>1, <2>2 DEF RecordInv
<1>2. ASSUME NEW j \in Jobs, Passive(j) PROVE RecordInv'
  <2>1. Made' = Made
    BY <1>2, <1>t DEF Passive, BackoffElapses, HeartbeatLapses, Reap, Made, TypeOK
  <2> QED BY <1>2, <1>k, <2>1 DEF Passive, rowVars
<1>3. ASSUME LoadForCancelAudit PROVE RecordInv'
  <2>1. Made' = Made
    BY <1>3 DEF LoadForCancelAudit, LoadForCancel, Made
  <2> QED BY <1>3, <1>k, <2>1 DEF LoadForCancelAudit
<1>c. ASSUME NEW j \in Cancellable, CommitCancelAudit(j) PROVE RecordInv'
  <2>1. j \in Made
    BY <1>c, JobQueueAssumption DEF CommitCancelAudit, CommitCancel, RowInv, Made
  <2>2. Made' = Made
    BY <1>c, <1>t, <2>1 DEF CommitCancelAudit, CommitCancel, Made, TypeOK
  <2> QED BY <1>c, <1>k, <2>2 DEF CommitCancelAudit
<1>4. ASSUME ResumeAuditSameKey \/ SecondPasses PROVE RecordInv'
  <2>1. Made' = Made
    BY <1>4 DEF ResumeAuditSameKey, SecondPasses, vars, jobVars, Made
  <2> QED BY <1>4, <1>k, <2>1 DEF ResumeAuditSameKey, SecondPasses
<1>5. ASSUME NEW w \in Workers, NEW j \in Jobs, TakeJob(w, j) PROVE RecordInv'
  <2>1. Made' = Made
    BY <1>5, <1>t DEF TakeJob, Claim, Made, TypeOK
  <2> QED BY <1>5, <1>k, <2>1 DEF TakeJob, rowVars
<1>f. ASSUME NEW w \in Workers, RecordFailure(w) PROVE RecordInv'
  <2> DEFINE out == Outcome(seen[w].attempts, raised[w])
  <2>1. out # "absent"
    BY OutcomeType
  <2>2. /\ status' = [status EXCEPT ![running[w]] = IF out = seen[w].status THEN @ ELSE out]
        /\ running[w] \in Jobs /\ status[running[w]] # "absent"
    BY <1>f, <1>h DEF RecordFailure, CommitFail
  <2> HIDE DEF out
  <2>3. Made' = Made
    BY <1>t, <2>1, <2>2 DEF Made, TypeOK
  <2> QED BY <1>f, <1>k, <2>3 DEF RecordFailure, rowVars
<1>6. ASSUME NEW w \in Workers, Beat(w) \/ Die(w) \/ Revive(w) PROVE RecordInv'
  <2>1. Made' = Made
    BY <1>6 DEF Beat, Heartbeat, Die, Crash, Revive, Restart, jobVars, Made
  <2> QED BY <1>6, <1>k, <2>1 DEF Beat, Die, Revive, rowVars
<1>7. ASSUME NEW w \in Workers, PropagateFailure(w) PROVE RecordInv'
  <2>1. Made' = Made /\ completions' = completions
    BY <1>7 DEF PropagateFailure, Propagate, jobVars, Made
  <2>2. \A i \in Jobs : ~Live(i)'
    BY <1>7 DEF PropagateFailure, LiveInv, Unfinished
  <2> QED BY <2>1, <2>2 DEF RecordInv
<1>8. ASSUME NEW w \in Workers, Load(w) \/ BeginStage(w) \/ EndStage(w) \/ StageRaises(w)
      PROVE  RecordInv'
  <2>1. Made' = Made
    BY <1>8 DEF Load, BeginStage, EndStage, StageRaises, vars, jobVars, Made
  <2> QED BY <1>8, <1>k, <2>1 DEF Load, BeginStage, EndStage, StageRaises
<1>9. ASSUME NEW w \in Workers, Finalize(w) PROVE RecordInv'
  <2>1. audit # "completed"
    BY <1>9 DEF Finalize, StageInv
  <2>2. running[w] \in Jobs /\ Live(running[w])
    BY <1>9 DEF Finalize, Live, AuditTypeInv, AuditTypeOK, TypeOK, Busy
  <2>3. completions < Cardinality(Made)
    BY <2>1, <2>2 DEF RecordInv
  <2>4. Made' = Made /\ completions' = completions + 1 /\ audit' = "completed"
    BY <1>9 DEF Finalize, vars, jobVars, Made
  <2> QED BY <1>t, <2>3, <2>4 DEF RecordInv
<1>10. ASSUME NEW w \in Workers, Return(w) PROVE RecordInv'
  <2>1. Made' = Made
    BY <1>10, <1>t, <1>h DEF Return, Complete, Made, TypeOK
  <2> QED BY <1>10, <1>k, <2>1 DEF Return, rowVars
<1>11. ASSUME NEW w \in Workers, NEW cls \in Errors, Abort(w, cls) PROVE RecordInv'
  <2>1. Made' = Made
    BY <1>11 DEF Abort, LoadForFail, jobVars, Made
  <2> QED BY <1>11, <1>k, <2>1 DEF Abort, rowVars
<1>12. CASE UNCHANGED auditVars
  BY <1>12, <1>k DEF auditVars, rowVars, vars, jobVars, Made
<1> QED
  BY <1>1, <1>2, <1>3, <1>c, <1>4, <1>5, <1>f, <1>6, <1>7, <1>8, <1>9, <1>10, <1>11, <1>12
     DEF AuditNext, HandlerStep

LEMMA RecordInvariant == AuditSpec => []RecordInv
<1>1. AuditInit => RecordInv
  <2> SUFFICES ASSUME AuditInit PROVE RecordInv
    OBVIOUS
  <2>1. Made = {} /\ completions = 0
    BY DEF AuditInit, Init, Made
  <2>2. \A j \in Jobs : ~Live(j)
    BY JobQueueAssumption DEF AuditInit, Init, Live, Unfinished
  <2> QED BY <2>1, <2>2, FS_EmptySet DEF RecordInv
<1>2. /\ AuditTypeInv /\ RowInv /\ OwnerInv /\ LiveInv /\ LiveInv' /\ StageInv /\ RecordInv
      /\ [AuditNext]_auditVars
      => RecordInv'
  BY NextRecordInv
<1> QED BY <1>1, <1>2, HolderInvariant, LiveInvariant, StageInvariant, PTL DEF AuditSpec

\* Under the same assumptions the ledger holds at most one audit.completed event for each job
\* of the audit, however often its workers crash after they have recorded one.
THEOREM RecordedAtMostOncePerJob ==
    ASSUME ~MayStall, ~MayCancelClaimed
    PROVE  AuditSpec => []RecordedOncePerJob
<1>1. RecordInv => RecordedOncePerJob BY DEF RecordInv, RecordedOncePerJob, Made
<1> QED BY <1>1, RecordInvariant, PTL

-----------------------------------------------------------------------------
\* A deployment whose workers do not die and whose audits nobody cancels.
Undisturbed ==
    ~MayStall /\ ~MayCrash /\ ~MayCancelClaimed /\ ~MayResumeAtOnce /\ Cancellable = {}

\* UnfinishedAuditHasJob is not inductive: a running job needs a worker whose heart beats, or
\* the reaper fails it without telling the audit; and a handler that is about to return must
\* leave a completed audit behind.
JobInv ==
    Undisturbed =>
        /\ UnfinishedAuditHasJob
        /\ \A j \in Jobs : /\ status[j] = "running" => Beating(j)
                           /\ ~cancel_requested[j]
        /\ \A w \in Workers : pc[w] = "return" => audit = "completed"
        /\ ~key_second

LEMMA NextJobInv ==
    AuditTypeInv /\ OwnerInv /\ HolderInv /\ LiveInv /\ JobInv /\ [AuditNext]_auditVars => JobInv'
<1> SUFFICES ASSUME AuditTypeInv, OwnerInv, HolderInv, LiveInv, JobInv, [AuditNext]_auditVars,
                    Undisturbed
             PROVE  JobInv'
  BY DEF JobInv
<1>o. /\ \A v, w \in Workers : running[v] # NoJob /\ running[w] # NoJob => v = w
      /\ \A w \in Workers : pc[w] # "none" => running[w] # NoJob /\ phase[w] = "handler"
  BY OneHolder DEF RunningAudit, Undisturbed
<1>h. \A w \in Workers : phase[w] \in {"handler", "failing"} =>
          running[w] = audit_job /\ running[w] \in Jobs /\ status[running[w]] = "running"
  BY DEF AuditTypeInv, AuditTypeOK, TypeOK, Busy, OwnerInv, Executing, CancelledUnderWorker,
         LiveInv, Live, JobInv, Undisturbed
<1>s. \A j \in Jobs : status[j] = "running" => ~stale[j]
  BY DEF JobInv, OwnerInv, Beating, Undisturbed
<1> USE AuditRunAssumption, JobQueueAssumption
    DEF JobInv, UnfinishedAuditHasJob, Beating, Executing, Propagating, AuditTypeInv, AuditTypeOK,
        TypeOK, Busy, Unfinished, HandlerPc, Goto, Leave, Undisturbed
<1>1. ASSUME NEW j \in Jobs, StartAudit(j) \/ ResumeAudit(j) PROVE JobInv'
  BY <1>1, <1>o DEF StartAudit, ResumeAudit, Enqueue, handlerVars, workerVars
<1>2. ASSUME NEW j \in Jobs, Passive(j) PROVE JobInv'
  BY <1>2, <1>s DEF Passive, BackoffElapses, HeartbeatLapses, Reap, rowVars, handlerVars, workerVars
<1>3. ASSUME ResumeAuditSameKey \/ SecondPasses PROVE JobInv'
  BY <1>3 DEF ResumeAuditSameKey, SecondPasses, handlerVars, vars, jobVars, workerVars
<1>4. ASSUME NEW w \in Workers, NEW j \in Jobs, TakeJob(w, j) PROVE JobInv'
  BY <1>4 DEF TakeJob, Claim, rowVars
<1>5. ASSUME NEW w \in Workers, Beat(w) PROVE JobInv'
  BY <1>5 DEF Beat, Heartbeat, rowVars, handlerVars
<1>6. ASSUME NEW w \in Workers, Die(w) \/ Revive(w) PROVE JobInv'
  BY <1>6 DEF Die, Crash, Revive, Restart, rowVars, handlerVars, jobVars
<1>7. ASSUME NEW w \in Workers, PropagateFailure(w) PROVE JobInv'
  <2>1. \A v \in Workers : pc[v] = "none"
    BY <1>7, <1>o DEF PropagateFailure, Propagate
  <2> QED BY <1>7, <2>1 DEF PropagateFailure, Propagate, Release, handlerVars, jobVars
<1>8. ASSUME NEW w \in Workers, Load(w) PROVE JobInv'
  BY <1>8, <1>o, <1>h DEF Load, vars, jobVars, workerVars
<1>9. ASSUME NEW w \in Workers, BeginStage(w) \/ EndStage(w) \/ StageRaises(w) \/ Finalize(w)
      PROVE  JobInv'
  BY <1>9 DEF BeginStage, EndStage, StageRaises, Finalize, vars, jobVars, workerVars
<1>10. ASSUME NEW w \in Workers, Return(w) PROVE JobInv'
  BY <1>10, <1>o, <1>h DEF Return, Complete, Release, rowVars
<1>11. ASSUME NEW w \in Workers, NEW cls \in Errors, Abort(w, cls) PROVE JobInv'
  BY <1>11, <1>h DEF Abort, LoadForFail, rowVars, jobVars
<1>f. ASSUME NEW w \in Workers, RecordFailure(w) PROVE JobInv'
  <2> DEFINE out == Outcome(seen[w].attempts, raised[w])
  <2>1. out \in {"queued", "failed", "cancelled"}
    BY OutcomeType
  <2>2. /\ running[w] = audit_job /\ running[w] \in Jobs /\ status[running[w]] = "running"
        /\ seen[w].status = "running"
    BY <1>f, <1>h DEF RecordFailure, CommitFail, OwnerInv
  <2>3. /\ status' = [status EXCEPT ![running[w]] = out]
        /\ UNCHANGED <<audit, audit_job, key_second, pc, cancel_requested>>
    BY <1>f, <2>1, <2>2 DEF RecordFailure, CommitFail, rowVars, handlerVars
  <2>4. \A j \in Jobs \ {running[w]} : status[j] # "running"
    BY <1>f, <1>o, <2>2 DEF RecordFailure, CommitFail
  <2>5. out = "queued" \/ phase'[w] = "propagate"
    BY <1>f DEF RecordFailure, CommitFail
  <2> HIDE DEF out
  <2> QED BY <2>1, <2>2, <2>3, <2>4, <2>5
<1>12. CASE UNCHANGED auditVars
  BY <1>12 DEF auditVars, rowVars, handlerVars, vars, jobVars, workerVars
<1> QED
  BY <1>1, <1>2, <1>3, <1>4, <1>5, <1>6, <1>7, <1>8, <1>9, <1>10, <1>11, <1>f, <1>12
     DEF AuditNext, HandlerStep

\* Where no worker stalls or dies and nobody cancels, an audit shown as queued or running
\* always has a job that can still move it or a worker about to write its failure.  A worker
\* that dies at its last attempt leaves an audit behind: see the run AuditRun_lost.
THEOREM NoAuditLeftBehind == ASSUME Undisturbed PROVE AuditSpec => []UnfinishedAuditHasJob
<1>1. AuditInit => JobInv
  BY DEF AuditInit, Init, JobInv, UnfinishedAuditHasJob, Unfinished
<1>2. AuditTypeInv /\ OwnerInv /\ HolderInv /\ LiveInv /\ JobInv /\ [AuditNext]_auditVars => JobInv'
  BY NextJobInv
<1>3. JobInv => UnfinishedAuditHasJob
  BY DEF JobInv
<1> QED BY <1>1, <1>2, <1>3, LiveInvariant, PTL DEF AuditSpec
=============================================================================
