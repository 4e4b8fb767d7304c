---------------------------- MODULE WorkerProofs ----------------------------
(***************************************************************************)
(* Proofs about what worker processes share beside the queue: purges, for  *)
(* any objects, page size and number of attempts; retention sweeps, for    *)
(* any archives and sweepers; the cache of the object store, for any keys, *)
(* sizes and threads; and the dispatch of workers, for any jobs, slots and *)
(* number of faults.                                                       *)
(***************************************************************************)
EXTENDS Purge, Retention, Dispatch, ObjectCache, FiniteSetTheorems, SequenceTheorems,
        WellFoundedInduction, TLAPS

-----------------------------------------------------------------------------
(* Purges *)

PurgeTypeOK ==
    /\ version_row \in BOOLEAN
    /\ writer \in {"queued", "running", "stalled", "gone"} /\ outrun \in BOOLEAN
    /\ deletion \in {"idle", "scheduled", "purging", "done"}
    /\ purge_job \in [status : {"none", "queued", "running", "completed", "failed"},
                      sweep : BOOLEAN, due : BOOLEAN, attempts : Nat]
    /\ purger \in [Loops -> [at : {"rest", "list", "delete", "clean"}, page : SUBSET Objects,
                             more : BOOLEAN]]
    /\ below \subseteq Objects /\ old \subseteq Objects

\* Where the request is, what is committed, and which loop runs.
PhaseInv ==
    /\ version_row <=> deletion \in {"idle", "scheduled"}
    /\ version_row => purge_job.status = "none"
    /\ purger["inline"].at # "rest" => deletion = "purging"
    /\ purger["worker"].at # "rest" => purge_job.status = "running" /\ purge_job.due

\* A job of a deleted version that still runs is one the purge has seen and waits for, or has
\* outrun it.
WaitInv ==
    ~outrun =>
        /\ deletion = "scheduled" /\ ~purge_job.sweep => ~Writing
        /\ ~version_row /\ Writing => purge_job.sweep /\ ~purge_job.due

\* What a loop knows of some of the objects: none is left, or the page it deletes holds them all.
\* Every loop knows it of those the version had when it was deleted; the loops that may complete
\* the job know it of all if no writer has outrun the purge.
Left(all) == IF all THEN below ELSE below \cap old
Knowing(x, all) ==
    /\ purger[x].at = "clean" => Left(all) = {}
    /\ purger[x].at = "delete" /\ ~purger[x].more => Left(all) \subseteq purger[x].page
Final(x) == purger[x].at # "rest" /\ (x = "inline" => ~purge_job.sweep)
LoopInv ==
    \A x \in Loops :
        /\ Knowing(x, FALSE)
        /\ ~outrun /\ Final(x) => Knowing(x, TRUE)

DoneInv ==
    purge_job.status = "completed" =>
        /\ ~version_row /\ below \cap old = {}
        /\ ~outrun => ~Writing /\ below = {}

PurgeInv == PurgeTypeOK /\ PhaseInv /\ WaitInv /\ LoopInv /\ DoneInv

-----------------------------------------------------------------------------
LEMMA PurgeInitInv == PurgeInit => PurgeInv
<1> SUFFICES ASSUME PurgeInit PROVE PurgeInv
  OBVIOUS
<1> USE DEF PurgeInit, Resting, NoPurge, Loops
<1>1. PurgeTypeOK
  BY DEF PurgeTypeOK
<1>2. PhaseInv /\ WaitInv /\ DoneInv
  BY DEF PhaseInv, WaitInv, DoneInv, Writing
<1>3. LoopInv
  BY DEF LoopInv, Final, Knowing, Left
<1> QED BY <1>1, <1>2, <1>3 DEF PurgeInv

\* While a loop that may complete the job runs and no writer has outrun the purge, nobody writes
\* below the prefix.
LEMMA FinalAlone ==
    ASSUME PurgeInv, NEW x \in Loops, Final(x)
    PROVE  ~version_row /\ (~outrun => ~Writing)
BY DEF PurgeInv, PurgeTypeOK, PhaseInv, WaitInv, Final, Loops

\* While any loop runs the version is deleted.
LEMMA LoopAfterDeletion ==
    ASSUME PurgeInv, NEW x \in Loops, purger[x].at # "rest"
    PROVE  ~version_row
BY DEF PurgeInv, PurgeTypeOK, PhaseInv, Loops

\* The job that writes.
LEMMA WriterStep ==
    ASSUME PurgeInv,
           ClaimWriter \/ StallWriter \/ WriterEnds \/ \E o \in Objects : WriteObject(o)
    PROVE  PurgeInv'
<1> USE DEF PurgeInv
<1>1. PurgeTypeOK' /\ PhaseInv' /\ WaitInv'
  BY DEF PurgeTypeOK, PhaseInv, WaitInv, ClaimWriter, StallWriter, WriterEnds, WriteObject, Writing,
         purgeHistory
<1>2. /\ UNCHANGED <<version_row, deletion, purge_job, purger>>
      /\ below' \cap old' \subseteq below \cap old /\ (outrun => outrun')
      /\ below' = below \/ Writing
  <2>1. CASE ClaimWriter \/ StallWriter \/ WriterEnds
    BY <2>1 DEF PurgeTypeOK, ClaimWriter, StallWriter, WriterEnds, purgeHistory
  <2>2. ASSUME NEW o \in Objects, WriteObject(o)
        PROVE  /\ UNCHANGED <<version_row, deletion, purge_job, purger, outrun>>
               /\ below' \cap old' \subseteq below \cap old /\ Writing
    BY <2>2 DEF WriteObject
  <2> QED BY <2>1, <2>2
<1>3. LoopInv'
  <2> SUFFICES ASSUME NEW x \in Loops
               PROVE  /\ Knowing(x, FALSE)'
                      /\ ~outrun' /\ Final(x)' => Knowing(x, TRUE)'
    BY DEF LoopInv
  <2>1. Knowing(x, FALSE)'
    BY <1>2 DEF LoopInv, Knowing, Left
  <2>2. ASSUME ~outrun', Final(x)' PROVE Knowing(x, TRUE)'
    <3>1. Final(x) /\ ~outrun
      BY <1>2, <2>2 DEF Final
    <3>2. below' = below
      BY <1>2, <3>1, FinalAlone
    <3> QED BY <1>2, <3>1, <3>2 DEF LoopInv, Knowing, Left
  <2> QED BY <2>1, <2>2
<1>4. DoneInv'
  <2> SUFFICES ASSUME purge_job.status = "completed"
               PROVE  /\ ~version_row /\ below' \cap old' = {}
                      /\ ~outrun' => ~Writing' /\ below' = {}
    BY <1>2 DEF DoneInv
  <2>1. ~version_row /\ below' \cap old' = {}
    BY <1>2 DEF DoneInv
  <2>2. ASSUME ~outrun' PROVE ~Writing' /\ below' = {}
    <3>1. ~Writing /\ below = {}
      BY <1>2, <2>2 DEF DoneInv
    <3> QED BY <1>2, <2>1, <3>1 DEF ClaimWriter, StallWriter, WriterEnds, WriteObject, Writing
  <2> QED BY <2>1, <2>2
<1> QED BY <1>1, <1>3, <1>4

\* The request: what it schedules and commits.
LEMMA RequestStep ==
    ASSUME PurgeInv, SchedulePurge \/ CommitDeletion \/ StartInline \/ RequestEnds
    PROVE  PurgeInv'
<1> USE DEF PurgeInv, Loops, Resting, Loop, NoPurge, purgeHistory
<1>1. CASE SchedulePurge
  <2>1. PurgeTypeOK'
    BY <1>1 DEF PurgeTypeOK, SchedulePurge, Busy
  <2>2. PhaseInv' /\ WaitInv' /\ DoneInv'
    BY <1>1 DEF PurgeTypeOK, PhaseInv, WaitInv, DoneInv, SchedulePurge, Busy, Writing
  <2>3. \A x \in Loops : purger[x].at = "rest" /\ purger' = purger
    BY <1>1 DEF PurgeTypeOK, PhaseInv, SchedulePurge
  <2>4. LoopInv'
    BY <2>3 DEF LoopInv, Final, Knowing, Left
  <2> QED BY <2>1, <2>2, <2>4
<1>2. CASE CommitDeletion
  <2>1. PurgeTypeOK'
    BY <1>2 DEF PurgeTypeOK, CommitDeletion
  <2>2. PhaseInv' /\ DoneInv'
    BY <1>2 DEF PurgeTypeOK, PhaseInv, DoneInv, CommitDeletion
  <2>4. WaitInv'
    BY <1>2 DEF PurgeTypeOK, PhaseInv, WaitInv, CommitDeletion, Writing
  <2>3. \A x \in Loops : purger[x].at = "rest" /\ purger' = purger
    BY <1>2 DEF PurgeTypeOK, PhaseInv, CommitDeletion
  <2>5. LoopInv'
    BY <2>3 DEF LoopInv, Final, Knowing, Left
  <2> QED BY <2>1, <2>2, <2>4, <2>5
<1>3. CASE StartInline
  <2>1. PurgeTypeOK'
    <3>1. CASE purge_job.status = "queued"
      <4>1. purger' \in [Loops -> [at : {"rest", "list", "delete", "clean"}, page : SUBSET Objects, more : BOOLEAN]]
        <5>1. purger' = [purger EXCEPT !["inline"] = Loop("list", {}, FALSE)]
          BY <1>3, <3>1 DEF StartInline
        <5> QED BY <5>1 DEF PurgeTypeOK
      <4> QED BY <1>3, <3>1, <4>1 DEF PurgeTypeOK, StartInline
    <3>2. CASE purge_job.status # "queued"
      BY <1>3, <3>2 DEF PurgeTypeOK, StartInline
    <3> QED BY <3>1, <3>2
  <2>2. PhaseInv' /\ WaitInv' /\ DoneInv'
    BY <1>3 DEF PurgeTypeOK, PhaseInv, WaitInv, DoneInv, StartInline, Writing
  <2>3. LoopInv'
    BY <1>3 DEF PurgeTypeOK, LoopInv, Final, Knowing, Left, StartInline
  <2> QED BY <2>1, <2>2, <2>3
<1>4. CASE RequestEnds
  <2>1. PurgeTypeOK'
    BY <1>4 DEF PurgeTypeOK, RequestEnds
  <2>2. PhaseInv' /\ WaitInv' /\ DoneInv'
    BY <1>4 DEF PurgeTypeOK, PhaseInv, WaitInv, DoneInv, RequestEnds, Writing
  <2>3. ASSUME NEW x \in Loops PROVE purger'[x] = purger[x] \/ purger'[x].at = "rest"
    BY <1>4 DEF PurgeTypeOK, RequestEnds
  <2>4. \A x \in Loops : Final(x)' => Final(x) /\ purger'[x] = purger[x]
    BY <1>4, <2>3 DEF PurgeTypeOK, PhaseInv, Final, RequestEnds
  <2>5. LoopInv'
    BY <1>4, <2>3, <2>4 DEF LoopInv, Knowing, Left, RequestEnds
  <2> QED BY <2>1, <2>2, <2>5
<1> QED BY <1>1, <1>2, <1>3, <1>4

\* The loop of purge_prefix: the page it lists last is all there is.
LEMMA PageStep ==
    ASSUME PurgeInv, NEW x \in Loops, ListPage(x) \/ DeletePage(x)
    PROVE  PurgeInv'
<1> USE DEF PurgeInv, purgeHistory
<1>1. PurgeTypeOK' /\ PhaseInv' /\ WaitInv' /\ DoneInv'
  <2>1. PurgeTypeOK'
    <3>1. purger' \in [Loops -> [at : {"rest", "list", "delete", "clean"}, page : SUBSET Objects, more : BOOLEAN]]
      <4>1. CASE ListPage(x)
        <5>1. PICK page \in SUBSET below : purger' = [purger EXCEPT ![x] =
                IF page = {} THEN Loop("clean", {}, FALSE) ELSE Loop("delete", page, below # page)]
          BY <4>1 DEF ListPage, Truncated
        <5>2. page \in SUBSET Objects /\ (below # page) \in BOOLEAN
          BY <5>1 DEF PurgeTypeOK
        <5> QED BY <5>1, <5>2 DEF PurgeTypeOK, Loop
      <4>2. CASE DeletePage(x)
        BY <4>2 DEF PurgeTypeOK, DeletePage, Loop
      <4> QED BY <4>1, <4>2
    <3> QED BY <3>1 DEF PurgeTypeOK, ListPage, DeletePage
  <2>2. PhaseInv'
    BY DEF PurgeTypeOK, PhaseInv, ListPage, DeletePage, Loop, Loops
  <2>3. WaitInv'
    BY DEF WaitInv, ListPage, DeletePage, Writing
  <2>4. DoneInv'
    <3>1. below' \subseteq below
      BY DEF ListPage, DeletePage
    <3>2. UNCHANGED <<version_row, writer, purge_job, old, outrun>>
      BY DEF ListPage, DeletePage
    <3> QED BY <3>1, <3>2 DEF DoneInv, Writing
  <2> QED BY <2>1, <2>2, <2>3, <2>4
<1>2. LoopInv'
  <2>s. SUFFICES
          ASSUME NEW y \in Loops, NEW all \in BOOLEAN, Knowing(y, all) PROVE Knowing(y, all)'
    <3>1. ASSUME NEW y \in Loops PROVE Final(y)' => Final(y)
      BY DEF Final, ListPage, DeletePage, PurgeTypeOK
    <3>2. outrun' = outrun
      BY DEF ListPage, DeletePage
    <3> QED BY <3>1, <3>2 DEF LoopInv
  <2>0. old' = old /\ below' \subseteq below /\ Left(all)' \subseteq Left(all)
    BY DEF Left, ListPage, DeletePage
  <2>2. CASE y # x
    <3>1. purger'[y] = purger[y]
      BY <2>2 DEF PurgeTypeOK, ListPage, DeletePage
    <3> QED BY <2>0, <2>2, <2>s, <3>1 DEF Knowing, Left
  <2>3. CASE y = x /\ ListPage(x)
    <3>1. PICK page \in SUBSET below :
              /\ Cardinality(page) = PageSize \/ (page = below /\ Cardinality(page) < PageSize)
              /\ purger' = [purger EXCEPT ![x] =
                    IF page = {} THEN Loop("clean", {}, FALSE) ELSE Loop("delete", page, Truncated(page))]
      BY <2>3 DEF ListPage
    <3>2. page = {} => below = {}
      BY <3>1, FS_EmptySet, PurgeAssumption
    <3>3. /\ purger'[x].at = "clean" => below = {}
          /\ purger'[x].at = "delete" /\ ~purger'[x].more => below = purger'[x].page
      BY <2>3, <3>1, <3>2 DEF PurgeTypeOK, Loop, Truncated
    <3>4. Left(all)' \subseteq below
      BY <2>0 DEF Left
    <3> QED BY <2>3, <3>3, <3>4 DEF Knowing, Left
  <2>4. CASE y = x /\ DeletePage(x)
    <3>1. /\ purger[x].at = "delete" /\ below' = below \ purger[x].page
          /\ purger'[x] = Loop(IF purger[x].more THEN "list" ELSE "clean", {}, FALSE)
      BY <2>4 DEF DeletePage, PurgeTypeOK
    <3>2. ~purger[x].more => Left(all) \subseteq purger[x].page
      BY <2>4, <2>s, <3>1 DEF Knowing, Left
    <3>3. ~purger[x].more => Left(all)' = {}
      BY <2>0, <3>1, <3>2 DEF Left
    <3> QED BY <2>4, <3>1, <3>3 DEF Loop, Knowing, Left
  <2> QED BY <2>2, <2>3, <2>4
<1> QED BY <1>1, <1>2

\* Who completes the job has found the prefix empty of what the version had, and empty altogether
\* if no writer has outrun the purge.
LEMMA JobStep ==
    ASSUME PurgeInv, CompleteInline \/ SweepDue \/ ClaimPurge \/ CompletePurge \/ PurgeFails
    PROVE  PurgeInv'
<1> USE DEF PurgeInv, Loops, Resting, Loop, purgeHistory
<1>1. CASE CompleteInline
  <2>1. PurgeTypeOK'
    BY <1>1 DEF PurgeTypeOK, CompleteInline
  <2>2. PhaseInv' /\ WaitInv' /\ LoopInv'
    BY <1>1 DEF PurgeTypeOK, PhaseInv, WaitInv, LoopInv, Final, Knowing, Left, CompleteInline, Writing
  <2>3. /\ ~version_row /\ below \cap old = {}
        /\ ~purge_job.sweep /\ ~outrun => below = {} /\ ~Writing
    BY <1>1, FinalAlone, LoopAfterDeletion DEF CompleteInline, LoopInv, Final, Knowing, Left
  <2>4. DoneInv'
    BY <1>1, <2>3 DEF PurgeTypeOK, DoneInv, CompleteInline, InlineDone, Writing
  <2> QED BY <2>1, <2>2, <2>4
<1>2. CASE SweepDue
  <2>1. PurgeTypeOK'
    BY <1>2 DEF PurgeTypeOK, SweepDue
  <2>2. PhaseInv' /\ WaitInv' /\ LoopInv' /\ DoneInv'
    BY <1>2 DEF PurgeTypeOK, PhaseInv, WaitInv, LoopInv, DoneInv, Final, Knowing, Left, SweepDue, Writing
  <2> QED BY <2>1, <2>2
<1>3. CASE ClaimPurge
  <2>1. PurgeTypeOK'
    <3>1. purger' \in [Loops -> [at : {"rest", "list", "delete", "clean"}, page : SUBSET Objects, more : BOOLEAN]]
      BY <1>3 DEF PurgeTypeOK, ClaimPurge
    <3>2. purge_job' \in [status : {"none", "queued", "running", "completed", "failed"},
                          sweep : BOOLEAN, due : BOOLEAN, attempts : Nat]
      <4>1. purge_job.attempts + 1 \in Nat
        BY DEF PurgeTypeOK
      <4>2. purge_job' = [purge_job EXCEPT !.status = "running", !.attempts = purge_job.attempts + 1]
        BY <1>3 DEF ClaimPurge
      <4> QED BY <4>1, <4>2 DEF PurgeTypeOK
    <3> QED BY <1>3, <3>1, <3>2 DEF PurgeTypeOK, ClaimPurge
  <2>2. PhaseInv' /\ WaitInv' /\ LoopInv' /\ DoneInv'
    BY <1>3 DEF PurgeTypeOK, PhaseInv, WaitInv, LoopInv, DoneInv, Final, Knowing, Left, ClaimPurge, Writing
  <2> QED BY <2>1, <2>2
<1>4. CASE CompletePurge
  <2>1. PurgeTypeOK'
    BY <1>4 DEF PurgeTypeOK, CompletePurge
  <2>2. PhaseInv' /\ WaitInv' /\ LoopInv'
    BY <1>4 DEF PurgeTypeOK, PhaseInv, WaitInv, LoopInv, Final, Knowing, Left, CompletePurge, Writing
  <2>3. /\ ~version_row /\ below \cap old = {}
        /\ ~outrun => below = {} /\ ~Writing
    BY <1>4, FinalAlone DEF CompletePurge, LoopInv, Final, Knowing, Left
  <2>4. DoneInv'
    BY <1>4, <2>3 DEF DoneInv, CompletePurge, Writing
  <2> QED BY <2>1, <2>2, <2>4
<1>5. CASE PurgeFails
  <2>1. PurgeTypeOK'
    BY <1>5 DEF PurgeTypeOK, PurgeFails
  <2>2. PhaseInv' /\ WaitInv' /\ LoopInv' /\ DoneInv'
    BY <1>5 DEF PurgeTypeOK, PhaseInv, WaitInv, LoopInv, DoneInv, Final, Knowing, Left, PurgeFails, Writing
  <2> QED BY <2>1, <2>2
<1> QED BY <1>1, <1>2, <1>3, <1>4, <1>5

\* Every step of the purge keeps the invariant.
LEMMA PurgeStep == PurgeInv /\ [PurgeNext]_purgeVars => PurgeInv'
<1> SUFFICES ASSUME PurgeInv, [PurgeNext]_purgeVars PROVE PurgeInv'
  OBVIOUS
<1>1. CASE UNCHANGED purgeVars
  BY <1>1 DEF purgeVars, purgeHistory, PurgeInv, PurgeTypeOK, PhaseInv, WaitInv, LoopInv, DoneInv,
              Final, Knowing, Left, Writing
<1> QED BY <1>1, WriterStep, RequestStep, PageStep, JobStep DEF PurgeNext

\* What a version had stored is gone once its purge has completed, whoever of request and worker
\* completes it, although a running job writes on meanwhile; so is what that job wrote, unless it
\* was not seen when the purge was scheduled or is still running when the sweep falls due
\* (services/purge.py).
THEOREM NothingLeftOver == PurgeSpec => []NoLeftovers
<1>1. PurgeInv => NoLeftovers
  BY DEF PurgeInv, DoneInv, NoLeftovers
<1> QED BY PurgeInitInv, PurgeStep, <1>1, PTL DEF PurgeSpec

-----------------------------------------------------------------------------
(* Retention sweeps *)

\* A sweep holds what is expired or has been overtaken, and has deleted what it has cleared.
RetentionInv ==
    /\ archive_row \subseteq Archives /\ archive_object \subseteq Archives
    /\ due \in [Sweepers -> SUBSET Archives] /\ cleared \in [Sweepers -> SUBSET Archives]
    /\ ArchivesMatchRows
    /\ \A w \in Sweepers :
        /\ cleared[w] \cap archive_object = {}
        /\ due[w] \cup cleared[w] \subseteq expired \cup overtaken

\* The objects go first and the rows follow: a roll back leaves a row without its archive only
\* where the next sweep comes back to it, as long as the policy is not loosened
\* (services/retention.py).
THEOREM SweepsMatchRows == RetentionSpec => []ArchivesMatchRows
<1>1. RetentionInit => RetentionInv
  BY DEF RetentionInit, RetentionInv, ArchivesMatchRows
<1>2. RetentionInv /\ [RetentionNext]_retentionVars => RetentionInv'
  <2> SUFFICES ASSUME RetentionInv, [RetentionNext]_retentionVars PROVE RetentionInv'
    OBVIOUS
  <2> USE DEF RetentionInv, ArchivesMatchRows, sweepVars
  <2>1. ASSUME NEW a \in Archives, ExpireArchive(a) PROVE RetentionInv'
    BY <2>1 DEF ExpireArchive
  <2>2. ASSUME NEW a \in Archives, NEW w \in Sweepers, SweepArchive(w, a) PROVE RetentionInv'
    BY <2>2 DEF SweepArchive
  <2>3. ASSUME NEW some \in SUBSET Archives, LoosenRetention(some) PROVE RetentionInv'
    BY <2>3 DEF LoosenRetention, Swept
  <2>4. ASSUME NEW w \in Sweepers, StartSweep(w) PROVE RetentionInv'
    BY <2>4 DEF StartSweep
  <2>5. ASSUME NEW w \in Sweepers, EndSweep(w) PROVE RetentionInv'
    BY <2>5 DEF EndSweep
  <2>6. CASE UNCHANGED retentionVars
    BY <2>6 DEF retentionVars
  <2> QED BY <2>1, <2>2, <2>3, <2>4, <2>5, <2>6 DEF RetentionNext
<1>3. RetentionInv => ArchivesMatchRows
  BY DEF RetentionInv
<1> QED BY <1>1, <1>2, <1>3, PTL DEF RetentionSpec

-----------------------------------------------------------------------------
(* The cache of the object store *)

CallOps == Readers \cup Puts \cup {"delete", "purge"}

CacheTypeInv ==
    /\ remote \in [Keys -> Nat] /\ written \in [Keys -> Nat] /\ copy \in [Keys -> Nat]
    /\ absent \subseteq Keys
    /\ elsewhere \subseteq Keys /\ bypassed \subseteq Keys /\ inherited \subseteq Keys
    /\ call \in [Threads -> {NoCall} \cup
            [op : CallOps, at : {"store", "replace", "admit", "forget", "unlink", "note"},
             key : Keys, data : Nat]]
    /\ \A t \in Threads :
        /\ call[t].at \in {"replace", "admit"} => call[t].op \in {"put_bytes", "put_file", "get"}
        /\ call[t].at \in {"forget", "unlink"} =>
              call[t].op \in {"put_file", "put_stream", "purge", "delete"}
        /\ call[t].at = "note" => call[t].op = "exists"

\* A key has one writer, or any number of readers.
OneWriterInv ==
    \A t, u \in Threads :
        t # u /\ call[t].key = call[u].key /\ call[t].key \in Keys =>
            call[t].op \in Readers /\ call[u].op \in Readers

\* The file of a key and the note of its absence agree with the store, and with each other.
Agrees(k) ==
    /\ copy[k] # 0 => k \notin absent /\ copy[k] = remote[k]
    /\ k \in absent => remote[k] = 0

\* The store has changed, file and note have not yet.
Unsettled(t) ==
    \/ call[t].op \in Puts /\ call[t].at \in {"replace", "admit"}
    \/ call[t].op = "delete" /\ call[t].at \in {"forget", "unlink"}

\* What a thread in the middle of a call about k knows.
Knows(t, k) ==
    /\ call[t].at \in {"replace", "admit"} =>
        call[t].data = remote[k] /\ remote[k] # 0
    /\ call[t].at = "admit" => copy[k] \in {0, remote[k]}
    /\ call[t].op = "get" /\ call[t].at \in {"replace", "admit"} => k \notin absent \/ k \in bypassed
    /\ call[t].at = "note" => remote[k] = 0
    /\ call[t].op = "delete" /\ call[t].at \in {"forget", "unlink"} => remote[k] = 0
    /\ call[t].op = "purge" /\ call[t].at = "store" => copy[k] = 0

CoherenceInv ==
    \A k \in Keys \ elsewhere :
        /\ k \notin bypassed /\ (\A t \in Threads : call[t].key = k => ~Unsettled(t)) => Agrees(k)
        /\ \A t \in Threads : call[t].key = k => Knows(t, k)

CacheInv == CacheTypeInv /\ OneWriterInv /\ CoherenceInv

LEMMA NextCacheTypeInv == CacheTypeInv /\ [CacheNext]_cacheVars => CacheTypeInv'
<1> SUFFICES ASSUME CacheTypeInv, [CacheNext]_cacheVars PROVE CacheTypeInv'
  OBVIOUS
<1> USE ObjectCacheAssumption
    DEF CacheTypeInv, NoCall, CallOf, CallOps, Puts, Readers, Goes, GoesWith, Returns, historyVars
<1>1. ASSUME NEW t \in Threads, NEW k \in Keys, NEW op \in CallOps, StartCall(t, k, op)
      PROVE  CacheTypeInv'
  BY <1>1 DEF StartCall
<1>2. ASSUME NEW t \in Threads, AskStore(t) PROVE CacheTypeInv'
  <2>1. call[t].key \in Keys /\ call[t].op \in CallOps
    BY <1>2 DEF AskStore
  <2>2. CASE call[t].op \in Puts
    BY <1>2, <2>1, <2>2 DEF AskStore
  <2>3. CASE call[t].op \notin Puts
    BY <1>2, <2>1, <2>3 DEF AskStore
  <2> QED BY <2>2, <2>3
<1>3. ASSUME NEW t \in Threads, ReplaceFile(t) PROVE CacheTypeInv'
  BY <1>3 DEF ReplaceFile
<1>4. ASSUME NEW t \in Threads, Admit(t) PROVE CacheTypeInv'
  <2>1. PICK evicted : copy' = [k \in Keys |-> IF k \in evicted THEN 0 ELSE copy[k]]
    BY <1>4 DEF Admit
  <2>2. /\ absent' = absent \ {call[t].key} /\ call' = [call EXCEPT ![t] = NoCall]
        /\ bypassed' \subseteq bypassed /\ inherited' \subseteq inherited
        /\ UNCHANGED <<remote, written, elsewhere>>
    BY <1>4 DEF Admit
  <2> QED BY <2>1, <2>2
<1>5. ASSUME NEW t \in Threads, Forget(t) PROVE CacheTypeInv'
  BY <1>5 DEF Forget
<1>6. ASSUME NEW t \in Threads, UnlinkFile(t) PROVE CacheTypeInv'
  BY <1>6 DEF UnlinkFile
<1>7. ASSUME NEW t \in Threads, NoteAbsent(t) PROVE CacheTypeInv'
  BY <1>7 DEF NoteAbsent
<1>8. ASSUME NEW t \in Threads, StoreFails(t) PROVE CacheTypeInv'
  <2>1. call[t].key \in Keys
    BY <1>8 DEF StoreFails
  <2> QED BY <1>8, <2>1 DEF StoreFails
<1>9. ASSUME NEW k \in Keys, AbsenceExpires(k) \/ WrittenElsewhere(k) PROVE CacheTypeInv'
  BY <1>9 DEF AbsenceExpires, WrittenElsewhere
<1>10. ASSUME NewProcess \/ NewMachine PROVE CacheTypeInv'
  BY <1>10 DEF NewProcess, NewMachine
<1>11. CASE UNCHANGED cacheVars
  BY <1>11 DEF cacheVars, historyVars
<1> QED
  BY <1>1, <1>2, <1>3, <1>4, <1>5, <1>6, <1>7, <1>8, <1>9, <1>10, <1>11 DEF CacheNext

LEMMA NextOneWriterInv == CacheTypeInv /\ OneWriterInv /\ [CacheNext]_cacheVars => OneWriterInv'
<1> SUFFICES ASSUME CacheTypeInv, OneWriterInv, [CacheNext]_cacheVars PROVE OneWriterInv'
  OBVIOUS
<1>n. "none" \notin Keys
  BY ObjectCacheAssumption
<1> USE <1>n DEF CacheTypeInv, OneWriterInv, NoCall, CallOf, CallOps, Puts, Goes, GoesWith, Returns
<1>k. ASSUME NEW t \in Threads, call' = [call EXCEPT ![t] = NoCall] PROVE OneWriterInv'
  BY <1>k
<1>g. ASSUME NEW t \in Threads, call[t] # NoCall, NEW at, call' = [call EXCEPT ![t].at = at]
      PROVE  OneWriterInv'
  BY <1>g
<1>1. ASSUME NEW t \in Threads, NEW k \in Keys, NEW op \in CallOps, StartCall(t, k, op)
      PROVE  OneWriterInv'
  <2>1. /\ call[t] = NoCall
        /\ \A u \in Threads : call[u].key = k => op \in Readers /\ call[u].op \in Readers
    BY <1>1 DEF StartCall, MayCall
  <2>2. call' = call \/ \E at : call' = [call EXCEPT ![t] = CallOf(op, at, k, 0)]
    BY <1>1 DEF StartCall
  <2> QED BY <2>1, <2>2
<1>2. ASSUME NEW t \in Threads, AskStore(t) PROVE OneWriterInv'
  <2>1. call[t] # NoCall
    BY <1>2 DEF AskStore
  <2>2. \/ call' = [call EXCEPT ![t] = NoCall] \/ \E at : call' = [call EXCEPT ![t].at = at]
        \/ \E at, d : call' = [call EXCEPT ![t] = CallOf(call[t].op, at, call[t].key, d)]
    BY <1>2 DEF AskStore
  <2> QED BY <1>k, <1>g, <2>1, <2>2
<1>3. ASSUME NEW t \in Threads, ReplaceFile(t) \/ Forget(t) \/ UnlinkFile(t) PROVE OneWriterInv'
  <2>1. call[t] # NoCall
    BY <1>3 DEF ReplaceFile, Forget, UnlinkFile
  <2>2. call' = [call EXCEPT ![t] = NoCall] \/ \E at : call' = [call EXCEPT ![t].at = at]
    BY <1>3 DEF ReplaceFile, Forget, UnlinkFile
  <2> QED BY <1>k, <1>g, <2>1, <2>2
<1>4. ASSUME NEW t \in Threads, Admit(t) \/ NoteAbsent(t) \/ StoreFails(t) PROVE OneWriterInv'
  BY <1>k, <1>4 DEF Admit, NoteAbsent, StoreFails
<1>5. ASSUME NEW k \in Keys, AbsenceExpires(k) \/ WrittenElsewhere(k) PROVE OneWriterInv'
  BY <1>5 DEF AbsenceExpires, WrittenElsewhere
<1>6. ASSUME NewProcess \/ NewMachine PROVE OneWriterInv'
  BY <1>6 DEF NewProcess, NewMachine
<1>7. CASE UNCHANGED cacheVars
  BY <1>7 DEF cacheVars, historyVars
<1> QED
  BY <1>1, <1>2, <1>3, <1>4, <1>5, <1>6, <1>7 DEF CacheNext

LEMMA NextCoherenceInv ==
    CacheTypeInv /\ OneWriterInv /\ CoherenceInv /\ [CacheNext]_cacheVars => CoherenceInv'
<1> SUFFICES ASSUME CacheTypeInv, OneWriterInv, CoherenceInv, [CacheNext]_cacheVars
             PROVE  CoherenceInv'
  OBVIOUS
<1>n. "none" \notin Keys /\ 0 \notin Uncached
  BY ObjectCacheAssumption
<1> USE <1>n DEF CacheTypeInv, OneWriterInv, CoherenceInv, Agrees, Knows, Unsettled,
        NoCall, CallOf, CallOps, Puts, Readers, Goes, GoesWith, Returns, historyVars
<1>1. ASSUME NEW t \in Threads, NEW k \in Keys, NEW op \in CallOps, StartCall(t, k, op)
      PROVE  CoherenceInv'
  BY <1>1 DEF StartCall, MayCall
<1>2. ASSUME NEW t \in Threads, AskStore(t) PROVE CoherenceInv'
  <2>1. call[t].key \in Keys /\ call[t].op \in CallOps /\ call[t].at = "store"
    BY <1>2 DEF AskStore
  <2>2. CASE call[t].op \in Puts
    BY <1>2, <2>1, <2>2 DEF AskStore
  <2>3. CASE call[t].op \in {"delete", "purge"}
    BY <1>2, <2>1, <2>3 DEF AskStore
  <2>4. CASE call[t].op = "get"
    BY <1>2, <2>1, <2>4 DEF AskStore
  <2>5. CASE call[t].op = "exists"
    BY <1>2, <2>1, <2>5 DEF AskStore
  <2> QED BY <2>1, <2>2, <2>3, <2>4, <2>5
<1>3. ASSUME NEW t \in Threads, ReplaceFile(t) PROVE CoherenceInv'
  BY <1>3 DEF ReplaceFile
<1>4. ASSUME NEW t \in Threads, Admit(t) PROVE CoherenceInv'
  <2>1. PICK evicted : copy' = [k \in Keys |-> IF k \in evicted THEN 0 ELSE copy[k]]
    BY <1>4 DEF Admit
  <2>2. /\ absent' = absent \ {call[t].key} /\ call' = [call EXCEPT ![t] = NoCall]
        /\ bypassed' = bypassed \ {call[t].key}
        /\ UNCHANGED <<remote, written, elsewhere>> /\ call[t].at = "admit"
    BY <1>4 DEF Admit
  <2> QED BY <2>1, <2>2
<1>5. ASSUME NEW t \in Threads, Forget(t) PROVE CoherenceInv'
  BY <1>5 DEF Forget
<1>6. ASSUME NEW t \in Threads, UnlinkFile(t) PROVE CoherenceInv'
  BY <1>6 DEF UnlinkFile
<1>7. ASSUME NEW t \in Threads, NoteAbsent(t) PROVE CoherenceInv'
  BY <1>7 DEF NoteAbsent
<1>8. ASSUME NEW t \in Threads, StoreFails(t) PROVE CoherenceInv'
  BY <1>8 DEF StoreFails
<1>9. ASSUME NEW k \in Keys, AbsenceExpires(k) \/ WrittenElsewhere(k) PROVE CoherenceInv'
  BY <1>9 DEF AbsenceExpires, WrittenElsewhere
<1>10. ASSUME NewProcess PROVE CoherenceInv'
  <2>1. /\ call' = [t \in Threads |-> NoCall] /\ absent' = {}
        /\ UNCHANGED <<remote, written, copy>>
    BY <1>10 DEF NewProcess
  <2>2. ASSUME NEW k \in Keys, k \notin elsewhere', k \notin bypassed', copy[k] # 0
        PROVE  /\ k \notin elsewhere /\ k \notin bypassed
               /\ \A t \in Threads : call[t].key = k => call[t].op \in Readers
    <3> HIDE DEF Readers, CacheTypeInv, CoherenceInv, OneWriterInv
    <3>1. k \in {x \in Keys : copy[x] # 0}
      BY <2>2
    <3>2. k \notin elsewhere \cup {call[t].key : t \in {u \in Threads : call[u].op \notin Readers}}
      BY <1>10, <2>2, <3>1 DEF NewProcess
    <3>3. k \notin bypassed
      BY <1>10, <2>2, <3>1 DEF NewProcess
    <3> QED BY <3>2, <3>3
  <2>3. ASSUME NEW k \in Keys, k \notin elsewhere', k \notin bypassed' PROVE Agrees(k)'
    <3>1. CASE copy[k] = 0
      BY <2>1, <3>1
    <3>2. CASE copy[k] # 0
      <4>1. \A t \in Threads : call[t].key = k => ~Unsettled(t)
        BY <2>2, <2>3, <3>2
      <4>2. Agrees(k)
        BY <2>2, <2>3, <3>2, <4>1
      <4> QED BY <2>1, <4>2
    <3> QED BY <3>1, <3>2
  <2> QED BY <2>1, <2>3
<1>12. ASSUME NewMachine PROVE CoherenceInv'
  BY <1>12 DEF NewMachine
<1>11. CASE UNCHANGED cacheVars
  BY <1>11 DEF cacheVars, historyVars
<1> QED
  BY <1>1, <1>2, <1>3, <1>4, <1>5, <1>6, <1>7, <1>8, <1>9, <1>10, <1>11, <1>12 DEF CacheNext

LEMMA CacheInvariant == CacheSpec => []CacheInv
<1>1. CacheInit => CacheInv
  BY ObjectCacheAssumption
     DEF CacheInit, CacheInv, CacheTypeInv, OneWriterInv, CoherenceInv, Agrees, Knows, Unsettled, NoCall,
         Puts
<1>2. CacheInv /\ [CacheNext]_cacheVars => CacheInv'
  BY NextCacheTypeInv, NextOneWriterInv, NextCoherenceInv DEF CacheInv
<1> QED BY <1>1, <1>2, PTL DEF CacheSpec

\* Whatever its threads do at once, the cache answers for a key that only its own process has
\* written what the store holds: for any number of keys, threads and writes.
THEOREM CacheAnswersTruly == CacheSpec => []OwnWritesSeen
<1>1. CacheInv => OwnWritesSeen
  BY DEF CacheInv, CacheTypeInv, CoherenceInv, Agrees, OwnWritesSeen, AnswerOf
<1> QED BY <1>1, CacheInvariant, PTL

-----------------------------------------------------------------------------
\* The bytes of some keys.  That they are finitely many is part of the invariant: it holds of
\* no keys, and every step adds at most those of one.
Units(keys) == UNION {{k} \X (1..SizeOf[k]) : k \in keys}

LEMMA UnitsOfOne ==
    ASSUME NEW k \in Keys
    PROVE  IsFiniteSet(Units({k})) /\ Cardinality(Units({k})) = SizeOf[k]
<1> DEFINE n == SizeOf[k]
           f == [i \in 1..n |-> <<k, i>>]
<1>1. n \in Nat
  BY ObjectCacheAssumption
<1>2. Units({k}) = {k} \X (1..n)
  BY DEF Units
<1>3. f \in Bijection(1..n, {k} \X (1..n))
  BY DEF Bijection, Injection, Surjection, IsInjective
<1>4. IsFiniteSet(1..n) /\ Cardinality(1..n) = n
  BY <1>1, FS_Interval
<1>5. ExistsBijection(1..n, {k} \X (1..n))
  BY <1>3 DEF ExistsBijection
<1>6. IsFiniteSet({k} \X (1..n)) /\ Cardinality({k} \X (1..n)) = Cardinality(1..n)
  BY <1>4, <1>5, FS_Bijection
<1> QED BY <1>2, <1>4, <1>6

LEMMA BytesOfTwo ==
    ASSUME NEW S \in SUBSET Keys, NEW T \in SUBSET Keys, S \cap T = {},
           IsFiniteSet(Units(S)), IsFiniteSet(Units(T))
    PROVE  /\ IsFiniteSet(Units(S \cup T))
           /\ Bytes(S) \in Nat /\ Bytes(T) \in Nat
           /\ Bytes(S \cup T) = Bytes(S) + Bytes(T)
<1>1. Units(S \cup T) = Units(S) \cup Units(T) /\ Units(S) \cap Units(T) = {}
  BY DEF Units
<1>2. Cardinality(Units(S)) \in Nat /\ Cardinality(Units(T)) \in Nat
  BY FS_CardinalityType
<1>3. /\ IsFiniteSet(Units(S) \cup Units(T))
      /\ Cardinality(Units(S) \cup Units(T))
            = Cardinality(Units(S)) + Cardinality(Units(T)) - Cardinality(Units(S) \cap Units(T))
  BY FS_Union
<1>4. Cardinality(Units(S) \cap Units(T)) = 0
  BY <1>1, FS_EmptySet
<1>5. Bytes(S) = Cardinality(Units(S)) /\ Bytes(T) = Cardinality(Units(T))
  BY DEF Bytes, Units
<1>6. Bytes(S \cup T) = Cardinality(Units(S) \cup Units(T))
  BY <1>1 DEF Bytes, Units
<1>7. IsFiniteSet(Units(S \cup T))
  BY <1>1, <1>3
<1>8. Bytes(S) + Bytes(T) = Cardinality(Units(S) \cup Units(T))
  BY <1>2, <1>3, <1>4, <1>5
<1> QED BY <1>2, <1>5, <1>6, <1>7, <1>8

\* Fewer keys, fewer bytes.
LEMMA BytesOfPart ==
    ASSUME NEW S \in SUBSET Keys, NEW T \in SUBSET S, IsFiniteSet(Units(S))
    PROVE  /\ IsFiniteSet(Units(T)) /\ IsFiniteSet(Units(S \ T))
           /\ Bytes(S) \in Nat /\ Bytes(T) \in Nat /\ Bytes(S \ T) \in Nat
           /\ Bytes(S) = Bytes(T) + Bytes(S \ T)
<1>1. Units(T) \subseteq Units(S) /\ Units(S \ T) \subseteq Units(S)
  BY DEF Units
<1>2. IsFiniteSet(Units(T)) /\ IsFiniteSet(Units(S \ T))
  BY <1>1, FS_Subset
<1> DEFINE R == S \ T
<1>3. S = T \cup R /\ T \cap R = {} /\ R \in SUBSET Keys /\ T \in SUBSET Keys
  OBVIOUS
<1>4. IsFiniteSet(Units(R))
  BY <1>2
<1> HIDE DEF R
<1>5. /\ Bytes(T) \in Nat /\ Bytes(R) \in Nat
      /\ Bytes(T \cup R) = Bytes(T) + Bytes(R)
  BY <1>2, <1>3, <1>4, BytesOfTwo
<1>6. Bytes(S) = Bytes(T) + Bytes(R)
  BY <1>3, <1>5
<1>7. Bytes(S) \in Nat
  BY <1>5, <1>6
<1> QED BY <1>2, <1>5, <1>6, <1>7 DEF R

-----------------------------------------------------------------------------
\* A key is accounted for once.
Distinct(s) == \A i, j \in 1..Len(s) : s[i] = s[j] => i = j

LEMMA DroppedFrom ==
    ASSUME lru \in Seq(Keys), Distinct(lru), NEW k \in Keys
    PROVE  /\ Dropped(k) \in Seq(Keys) /\ Distinct(Dropped(k))
           /\ ToSet(Dropped(k)) = ToSet(lru) \ {k}
           /\ Len(Dropped(k)) = IF Accounted(k) THEN Len(lru) - 1 ELSE Len(lru)
<1>l. Len(lru) \in Nat /\ DOMAIN lru = 1..Len(lru) /\ \A i \in 1..Len(lru) : lru[i] \in Keys
  BY LenProperties
<1>1. CASE ~Accounted(k)
  BY <1>1, <1>l DEF Accounted, Dropped, ToSet
<1>2. CASE Accounted(k)
  <2> DEFINE p == PlaceOf(k)
             front == SubSeq(lru, 1, p - 1)
             back == SubSeq(lru, p + 1, Len(lru))
  <2>1. p \in 1..Len(lru) /\ lru[p] = k
    BY <1>2, <1>l DEF Accounted, ToSet, PlaceOf
  <2>2. Dropped(k) = front \o back
    BY <1>2 DEF Dropped, RemoveAt
  <2> HIDE DEF p
  <2>3. front \in Seq(Keys) /\ Len(front) = p - 1 /\ \A i \in 1..(p - 1) : front[i] = lru[i]
    <3>1. 1 \in Int /\ p - 1 \in Int /\ \A i \in 1..(p - 1) : lru[i] \in Keys
      BY <1>l, <2>1
    <3>2. /\ front \in Seq(Keys) /\ Len(front) = IF 1 <= p - 1 THEN p - 1 - 1 + 1 ELSE 0
          /\ \A i \in 1..(p - 1 - 1 + 1) : front[i] = lru[1 + i - 1]
      BY <3>1, SubSeqProperties
    <3>3. p \in Int /\ 1 <= p /\ p - 1 - 1 + 1 = p - 1
      BY <1>l, <2>1
    <3>4. Len(front) = p - 1
      BY <3>2, <3>3
    <3>5. \A i \in 1..(p - 1) : front[i] = lru[i]
      <4> SUFFICES ASSUME NEW i \in 1..(p - 1) PROVE front[i] = lru[i]
        OBVIOUS
      <4>1. 1 + i - 1 = i /\ i \in 1..(p - 1 - 1 + 1)
        BY <3>3
      <4> QED BY <3>2, <4>1
    <3> QED BY <3>2, <3>4, <3>5
  <2>4. /\ back \in Seq(Keys) /\ Len(back) = Len(lru) - p
        /\ \A i \in 1..(Len(lru) - p) : back[i] = lru[p + i]
    <3>1. p + 1 \in Int /\ Len(lru) \in Int /\ \A i \in (p + 1)..Len(lru) : lru[i] \in Keys
      BY <1>l, <2>1
    <3>2. /\ back \in Seq(Keys)
          /\ Len(back) = IF p + 1 <= Len(lru) THEN Len(lru) - (p + 1) + 1 ELSE 0
          /\ \A i \in 1..(Len(lru) - (p + 1) + 1) : back[i] = lru[p + 1 + i - 1]
      BY <3>1, SubSeqProperties
    <3>3. /\ p \in Int /\ Len(lru) \in Int /\ p <= Len(lru)
          /\ Len(lru) - (p + 1) + 1 = Len(lru) - p
      BY <1>l, <2>1
    <3> HIDE DEF back
    <3>4. Len(back) = Len(lru) - p
      <4>1. Len(back) = IF p + 1 <= Len(lru) THEN Len(lru) - (p + 1) + 1 ELSE 0
        BY <3>2
      <4>2. CASE p + 1 <= Len(lru)
        BY <3>3, <4>1, <4>2
      <4>3. CASE ~(p + 1 <= Len(lru))
        <5>a. \A a, b \in Int : a <= b /\ ~(a + 1 <= b) => b - a = 0
          OBVIOUS
        <5>1. Len(lru) - p = 0
          BY <3>3, <4>3, <5>a
        <5>2. Len(back) = 0
          BY <4>1, <4>3
        <5> QED BY <5>1, <5>2
      <4> QED BY <4>2, <4>3
    <3>5. \A i \in 1..(Len(lru) - p) : back[i] = lru[p + i]
      <4> SUFFICES ASSUME NEW i \in 1..(Len(lru) - p) PROVE back[i] = lru[p + i]
        OBVIOUS
      <4>1. p + 1 + i - 1 = p + i /\ i \in 1..(Len(lru) - (p + 1) + 1)
        BY <3>3
      <4> QED BY <3>2, <4>1
    <3> QED BY <3>2, <3>4, <3>5
  <2> HIDE DEF front, back
  <2>5. /\ front \o back \in Seq(Keys) /\ Len(front \o back) = Len(front) + Len(back)
        /\ \A i \in 1..(Len(front) + Len(back)) :
              (front \o back)[i] = IF i <= Len(front) THEN front[i] ELSE back[i - Len(front)]
    BY <2>3, <2>4, ConcatProperties
  <2>6. /\ Dropped(k) \in Seq(Keys) /\ Len(Dropped(k)) = Len(lru) - 1
        /\ \A i \in 1..(Len(lru) - 1) : Dropped(k)[i] = IF i < p THEN lru[i] ELSE lru[i + 1]
    BY <1>l, <2>1, <2>2, <2>3, <2>4, <2>5
  <2>7. Distinct(Dropped(k))
    BY <1>l, <2>1, <2>6 DEF Distinct
  <2>8. ToSet(Dropped(k)) = ToSet(lru) \ {k}
    <3>1. DOMAIN Dropped(k) = 1..(Len(lru) - 1)
      BY <2>6, LenProperties
    <3>2. \A x : x \in ToSet(Dropped(k)) <=> \E i \in 1..(Len(lru) - 1) : Dropped(k)[i] = x
      BY <3>1 DEF ToSet
    <3>3. \A x : x \in ToSet(lru) <=> \E i \in 1..Len(lru) : lru[i] = x
      BY <1>l DEF ToSet
    <3>4. ASSUME NEW x \in ToSet(Dropped(k)) PROVE x \in ToSet(lru) \ {k}
      BY <1>l, <2>1, <2>6, <3>2, <3>3 DEF Distinct
    <3>5. ASSUME NEW x \in ToSet(lru), x # k PROVE x \in ToSet(Dropped(k))
      <4>1. PICK i \in 1..Len(lru) : lru[i] = x
        BY <3>3
      <4>2. CASE i < p
        BY <1>l, <2>1, <2>6, <3>2, <4>1, <4>2
      <4>3. CASE i > p
        <5>1. i - 1 \in 1..(Len(lru) - 1) /\ Dropped(k)[i - 1] = lru[i - 1 + 1]
          BY <1>l, <2>1, <2>6, <4>1, <4>3
        <5>2. i - 1 + 1 = i
          BY <4>1
        <5> QED BY <3>2, <4>1, <5>1, <5>2
      <4> QED BY <1>l, <2>1, <3>5, <4>1, <4>2, <4>3
    <3> QED BY <3>4, <3>5
  <2> QED BY <1>2, <2>6, <2>7, <2>8
<1> QED BY <1>1, <1>2

\* A key that is used, or admitted, comes last.
LEMMA AppendedTo ==
    ASSUME NEW s \in Seq(Keys), Distinct(s), NEW k \in Keys, k \notin ToSet(s)
    PROVE  /\ Append(s, k) \in Seq(Keys) /\ Distinct(Append(s, k))
           /\ ToSet(Append(s, k)) = ToSet(s) \cup {k}
           /\ Len(Append(s, k)) = Len(s) + 1
<1>1. /\ Append(s, k) \in Seq(Keys) /\ Len(Append(s, k)) = Len(s) + 1
      /\ \A i \in 1..Len(s) : Append(s, k)[i] = s[i]
      /\ Append(s, k)[Len(s) + 1] = k
  BY AppendProperties
<1>2. Len(s) \in Nat /\ DOMAIN s = 1..Len(s) /\ DOMAIN Append(s, k) = 1..(Len(s) + 1)
  BY <1>1, LenProperties
<1>3. \A i \in 1..Len(s) : s[i] # k
  BY <1>2 DEF ToSet
<1>4. \A i \in 1..(Len(s) + 1) : i \in 1..Len(s) \/ i = Len(s) + 1
  BY <1>2
<1>5. Distinct(Append(s, k))
  BY <1>1, <1>2, <1>3, <1>4 DEF Distinct
<1>6. ToSet(Append(s, k)) = ToSet(s) \cup {k}
  <2>1. \A x : x \in ToSet(Append(s, k)) <=> \E i \in 1..(Len(s) + 1) : Append(s, k)[i] = x
    BY <1>2 DEF ToSet
  <2>2. \A x : x \in ToSet(s) <=> \E i \in 1..Len(s) : s[i] = x
    BY <1>2 DEF ToSet
  <2>3. Len(s) + 1 \in 1..(Len(s) + 1) /\ \A i \in 1..Len(s) : i \in 1..(Len(s) + 1)
    BY <1>2
  <2> QED BY <1>1, <1>4, <2>1, <2>2, <2>3
<1> QED BY <1>1, <1>5, <1>6

\* What is left after an eviction: the end of the order, which fits or is a single key.
LEMMA FittingIn ==
    ASSUME NEW order \in Seq(Keys), Distinct(order), Len(order) > 0
    PROVE  /\ Fitting(order) \in Seq(Keys) /\ Distinct(Fitting(order))
           /\ ToSet(Fitting(order)) \subseteq ToSet(order)
           /\ Len(Fitting(order)) = 1 \/ Bytes(ToSet(Fitting(order))) <= Capacity
<1> DEFINE fits == {n \in 1..Len(order) :
                        n = Len(order) \/ Bytes(ToSet(SubSeq(order, n, Len(order)))) <= Capacity}
<1>l. Len(order) \in Nat /\ DOMAIN order = 1..Len(order) /\ \A i \in 1..Len(order) : order[i] \in Keys
  BY LenProperties
<1>1. Len(order) \in fits /\ fits \subseteq Nat
  BY <1>l
<1> HIDE DEF fits
<1>2. \E n \in fits : \A m \in fits : n <= m
  <2>1. PICK n \in fits : \A m \in fits : ~(<<m, n>> \in OpToRel(<, Nat))
    BY <1>1, NatLessThanWellFounded, WFMin
  <2>2. n \in Nat
    BY <1>1, <2>1
  <2>3. ASSUME NEW m \in fits PROVE n <= m
    <3>1. m \in Nat
      BY <1>1
    <3>2. ~(m < n)
      BY <2>1, <2>2, <3>1 DEF OpToRel
    <3> QED BY <2>2, <3>1, <3>2
  <2> QED BY <2>1, <2>3
<1>3. Min(fits) \in fits
  BY <1>2 DEF Min
<1> DEFINE n == Min(fits)
<1>4. n \in 1..Len(order) /\ (n = Len(order) \/ Bytes(ToSet(SubSeq(order, n, Len(order)))) <= Capacity)
  BY <1>3 DEF fits
<1>5. Fitting(order) = SubSeq(order, n, Len(order))
  BY DEF Fitting, fits
<1> HIDE DEF n
<1>n. n \in Int /\ Len(order) \in Int /\ 1 <= n /\ n <= Len(order)
  <2>1. n \in 1..Len(order)
    BY <1>4
  <2> QED BY <1>l, <2>1
<1>6. /\ Fitting(order) \in Seq(Keys) /\ Len(Fitting(order)) = Len(order) - n + 1
      /\ \A i \in 1..(Len(order) - n + 1) : Fitting(order)[i] = order[n + i - 1]
  <2>1. \A i \in n..Len(order) : order[i] \in Keys
    BY <1>l, <1>n
  <2> QED BY <1>5, <1>n, <2>1, SubSeqProperties
<1>7. \A i \in 1..(Len(order) - n + 1) : n + i - 1 \in 1..Len(order)
  BY <1>n
<1>8. Distinct(Fitting(order))
  <2> SUFFICES ASSUME NEW i \in 1..Len(Fitting(order)), NEW j \in 1..Len(Fitting(order)),
                      Fitting(order)[i] = Fitting(order)[j]
               PROVE  i = j
    BY DEF Distinct
  <2>1. i \in 1..(Len(order) - n + 1) /\ j \in 1..(Len(order) - n + 1)
    BY <1>6
  <2>2. order[n + i - 1] = order[n + j - 1]
    BY <1>6, <2>1
  <2>3. n + i - 1 = n + j - 1
    BY <1>7, <2>1, <2>2 DEF Distinct
  <2> QED BY <1>n, <2>1, <2>3
<1>9. ToSet(Fitting(order)) \subseteq ToSet(order)
  <2>1. DOMAIN Fitting(order) = 1..(Len(order) - n + 1)
    BY <1>6, LenProperties
  <2> QED BY <1>l, <1>6, <1>7, <2>1 DEF ToSet
<1>10. CASE n = Len(order)
  BY <1>6, <1>8, <1>9, <1>10, <1>n
<1>11. CASE n # Len(order)
  BY <1>4, <1>5, <1>6, <1>8, <1>9, <1>11
<1> QED BY <1>10, <1>11


-----------------------------------------------------------------------------
\* The account: every key once, its bytes those of the keys, within the limit but for a single
\* object.
LruInv ==
    /\ lru \in Seq(Keys) /\ Distinct(lru)
    /\ IsFiniteSet(Units(ToSet(lru)))
    /\ cached_bytes = Bytes(ToSet(lru))
    /\ cached_bytes <= Capacity \/ Len(lru) = 1

\* A file of this process that is not accounted for is about to be admitted or removed.
FileInv ==
    \A k \in Keys \ inherited : copy[k] # 0 =>
        Accounted(k) \/ \E t \in Threads : call[t].key = k /\ call[t].at \in {"admit", "unlink"}

LEMMA EmptyAccount ==
    /\ <<>> \in Seq(Keys) /\ Distinct(<<>>) /\ ToSet(<<>>) = {}
    /\ IsFiniteSet(Units(ToSet(<<>>))) /\ Bytes(ToSet(<<>>)) = 0 /\ 0 <= Capacity
<1>1. <<>> \in Seq(Keys) /\ Len(<<>>) = 0 /\ DOMAIN <<>> = {}
  BY EmptySeq, LenProperties
<1>2. ToSet(<<>>) = {}
  BY <1>1 DEF ToSet
<1>3. Units({}) = {}
  BY DEF Units
<1>4. IsFiniteSet(Units({})) /\ Bytes({}) = 0
  BY <1>3, FS_EmptySet DEF Bytes, Units
<1>5. Distinct(<<>>)
  BY <1>1 DEF Distinct
<1>6. 0 <= Capacity
  BY ObjectCacheAssumption
<1> QED BY <1>1, <1>2, <1>4, <1>5, <1>6

LEMMA TouchedIn ==
    ASSUME LruInv, NEW k \in Keys
    PROVE  /\ Touched(k) \in Seq(Keys) /\ Distinct(Touched(k))
           /\ ToSet(Touched(k)) = ToSet(lru) /\ Len(Touched(k)) = Len(lru)
<1>1. CASE ~Accounted(k)
  BY <1>1 DEF LruInv, Touched
<1>2. CASE Accounted(k)
  <2> DEFINE s == Dropped(k)
  <2>1. /\ s \in Seq(Keys) /\ Distinct(s) /\ ToSet(s) = ToSet(lru) \ {k}
        /\ Len(s) = Len(lru) - 1
    BY <1>2, DroppedFrom DEF LruInv
  <2>2. Touched(k) = Append(s, k) /\ k \in ToSet(lru) /\ Len(lru) \in Nat
    BY <1>2, LenProperties DEF Touched, Accounted, LruInv
  <2> HIDE DEF s
  <2>3. /\ Append(s, k) \in Seq(Keys) /\ Distinct(Append(s, k))
        /\ ToSet(Append(s, k)) = ToSet(s) \cup {k} /\ Len(Append(s, k)) = Len(s) + 1
    BY <2>1, AppendedTo
  <2> QED BY <2>1, <2>2, <2>3
<1> QED BY <1>1, <1>2

\* What accounting for a key, and no longer accounting for it, makes of the bytes.
LEMMA BytesWithout ==
    ASSUME LruInv, NEW k \in Keys
    PROVE  /\ IsFiniteSet(Units(ToSet(lru) \ {k})) /\ Bytes(ToSet(lru) \ {k}) \in Nat
           /\ Bytes(ToSet(lru) \ {k})
                = cached_bytes - IF Accounted(k) THEN SizeOf[k] ELSE 0
           /\ IsFiniteSet(Units((ToSet(lru) \ {k}) \cup {k}))
           /\ Bytes((ToSet(lru) \ {k}) \cup {k}) = Bytes(ToSet(lru) \ {k}) + SizeOf[k]
<1> DEFINE S == ToSet(lru)
           R == S \ {k}
<1>1. S \in SUBSET Keys
  <2>1. DOMAIN lru = 1..Len(lru) /\ \A i \in 1..Len(lru) : lru[i] \in Keys
    BY LenProperties DEF LruInv
  <2> QED BY <2>1 DEF ToSet
<1>2. IsFiniteSet(Units({k})) /\ Bytes({k}) = SizeOf[k]
  BY UnitsOfOne DEF Bytes, Units
<1>3. IsFiniteSet(Units(S)) /\ cached_bytes = Bytes(S) /\ (Accounted(k) <=> k \in S)
  BY DEF LruInv, Accounted
<1>4. IsFiniteSet(Units(R)) /\ Bytes(R) \in Nat
      /\ Bytes(R) = cached_bytes - IF Accounted(k) THEN SizeOf[k] ELSE 0
  <2>1. CASE k \in S
    <3>1. {k} \in SUBSET S
      BY <2>1
    <3> HIDE DEF S
    <3>2. /\ IsFiniteSet(Units(S \ {k}))
          /\ Bytes(S) \in Nat /\ Bytes({k}) \in Nat /\ Bytes(S \ {k}) \in Nat
          /\ Bytes(S) = Bytes({k}) + Bytes(S \ {k})
      BY <1>1, <1>3, <3>1, BytesOfPart
    <3> QED BY <1>2, <1>3, <2>1, <3>2
  <2>2. CASE k \notin S
    <3>1. R = S
      BY <2>2
    <3>2. {} \in SUBSET S
      OBVIOUS
    <3> HIDE DEF S, R
    <3>3. Bytes(S) \in Nat
      BY <1>1, <1>3, <3>2, BytesOfPart
    <3> QED BY <1>3, <2>2, <3>1, <3>3
  <2> QED BY <2>1, <2>2
<1>5. R \in SUBSET Keys /\ {k} \in SUBSET Keys /\ R \cap {k} = {}
  BY <1>1
<1> HIDE DEF R
<1>6. IsFiniteSet(Units(R \cup {k})) /\ Bytes(R \cup {k}) = Bytes(R) + Bytes({k})
  BY <1>2, <1>4, <1>5, BytesOfTwo
<1> QED BY <1>2, <1>4, <1>6 DEF R

LEMMA AdmitLruInv ==
    ASSUME CacheTypeInv, LruInv, NEW t \in Threads, Admit(t)
    PROVE  LruInv'
<1> DEFINE k == call[t].key
           s == Dropped(k)
           order == Append(s, k)
           R == ToSet(lru) \ {k}
           all == ToSet(order)
           kept == ToSet(Fitting(order))
<1>k. k \in Keys /\ SizeOf[k] \in Nat
  BY ObjectCacheAssumption DEF Admit, CacheTypeInv, NoCall
<1>1. s \in Seq(Keys) /\ Distinct(s) /\ ToSet(s) = R
  BY <1>k, DroppedFrom DEF LruInv
<1>2. /\ lru' = Fitting(order)
      /\ cached_bytes' = cached_bytes + SizeOf[k] - Bytes(all \ kept)
                            - IF Accounted(k) THEN SizeOf[k] ELSE 0
  BY DEF Admit
<1>3. /\ IsFiniteSet(Units(R)) /\ Bytes(R) \in Nat
      /\ Bytes(R) = cached_bytes - IF Accounted(k) THEN SizeOf[k] ELSE 0
      /\ IsFiniteSet(Units(R \cup {k})) /\ Bytes(R \cup {k}) = Bytes(R) + SizeOf[k]
  BY <1>k, BytesWithout
<1>c. cached_bytes \in Int
  <2> HIDE DEF R, k
  <2>1. cached_bytes = Bytes(ToSet(lru)) /\ IsFiniteSet(Units(ToSet(lru)))
    BY DEF LruInv
  <2>2. Cardinality(Units(ToSet(lru))) \in Nat
    BY <2>1, FS_CardinalityType
  <2> QED BY <2>1, <2>2 DEF Bytes, Units
<1>r. k \notin R
  OBVIOUS
<1> HIDE DEF k, s, R
<1>4. /\ order \in Seq(Keys) /\ Distinct(order) /\ all = R \cup {k} /\ Len(order) = Len(s) + 1
  BY <1>k, <1>1, <1>r, AppendedTo
<1>5. Len(order) > 0 /\ all \in SUBSET Keys
  <2>1. Len(s) \in Nat
    BY <1>1, LenProperties
  <2>2. DOMAIN order = 1..Len(order) /\ \A i \in 1..Len(order) : order[i] \in Keys
    BY <1>4, LenProperties
  <2> QED BY <1>4, <2>1, <2>2 DEF ToSet
<1> HIDE DEF order
<1>6. /\ Fitting(order) \in Seq(Keys) /\ Distinct(Fitting(order))
      /\ kept \subseteq all
      /\ Len(Fitting(order)) = 1 \/ Bytes(kept) <= Capacity
  BY <1>4, <1>5, FittingIn
<1>7. IsFiniteSet(Units(all)) /\ Bytes(all) = Bytes(R) + SizeOf[k]
  BY <1>3, <1>4
<1> HIDE DEF all, kept
<1>8. /\ IsFiniteSet(Units(kept)) /\ Bytes(all) = Bytes(kept) + Bytes(all \ kept)
      /\ Bytes(kept) \in Nat /\ Bytes(all \ kept) \in Nat
  BY <1>5, <1>6, <1>7, BytesOfPart
<1>9. cached_bytes' = Bytes(kept)
  BY <1>c, <1>k, <1>2, <1>3, <1>7, <1>8
<1> QED BY <1>2, <1>6, <1>8, <1>9 DEF LruInv, kept

LEMMA ForgetLruInv ==
    ASSUME CacheTypeInv, LruInv, NEW t \in Threads, Forget(t)
    PROVE  LruInv'
<1> DEFINE k == call[t].key
           R == ToSet(lru) \ {k}
<1>k. k \in Keys /\ SizeOf[k] \in Nat /\ Capacity \in Nat
  BY ObjectCacheAssumption DEF Forget, CacheTypeInv, NoCall
<1>1. /\ Dropped(k) \in Seq(Keys) /\ Distinct(Dropped(k)) /\ ToSet(Dropped(k)) = R
      /\ Len(Dropped(k)) = IF Accounted(k) THEN Len(lru) - 1 ELSE Len(lru)
  BY <1>k, DroppedFrom DEF LruInv
<1>2. /\ IsFiniteSet(Units(R)) /\ Bytes(R) \in Nat
      /\ Bytes(R) = cached_bytes - IF Accounted(k) THEN SizeOf[k] ELSE 0
  BY <1>k, BytesWithout
<1>3. lru' = Dropped(k) /\ cached_bytes' = Bytes(R)
  BY <1>2 DEF Forget
<1>4. Bytes(R) <= Capacity \/ Len(Dropped(k)) = 1
  <2>1. CASE Accounted(k) /\ Len(lru) = 1
    <3>1. Len(Dropped(k)) = 0
      BY <1>1, <2>1
    <3>2. R = {}
      BY <1>1, <3>1, LenProperties DEF ToSet
    <3>3. Bytes({}) = 0
      BY FS_EmptySet DEF Bytes
    <3> QED BY <1>k, <3>2, <3>3
  <2>2. CASE ~Accounted(k) /\ Len(lru) = 1
    BY <1>1, <2>2
  <2>3. CASE Len(lru) # 1
    <3>1. cached_bytes <= Capacity /\ cached_bytes \in Int
      <4>1. cached_bytes = Bytes(ToSet(lru)) /\ IsFiniteSet(Units(ToSet(lru)))
        BY DEF LruInv
      <4>2. Cardinality(Units(ToSet(lru))) \in Nat
        BY <4>1, FS_CardinalityType
      <4> QED BY <2>3, <4>1, <4>2 DEF LruInv, Bytes, Units
    <3> HIDE DEF k, R
    <3> QED BY <1>k, <1>2, <3>1
  <2> QED BY <2>1, <2>2, <2>3
<1> QED BY <1>1, <1>2, <1>3, <1>4 DEF LruInv

LEMMA NextLruInv == CacheTypeInv /\ LruInv /\ [CacheNext]_cacheVars => LruInv'
<1> SUFFICES ASSUME CacheTypeInv, LruInv, [CacheNext]_cacheVars PROVE LruInv'
  OBVIOUS
<1>u. ASSUME UNCHANGED <<lru, cached_bytes>> PROVE LruInv'
  BY <1>u DEF LruInv
<1>1. ASSUME NEW t \in Threads, NEW k \in Keys, NEW op \in CallOps, StartCall(t, k, op)
      PROVE  LruInv'
  <2>1. UNCHANGED cached_bytes /\ (lru' = lru \/ lru' = Touched(k))
    BY <1>1 DEF StartCall
  <2>2. CASE lru' = Touched(k)
    BY <2>1, <2>2, TouchedIn DEF LruInv
  <2> QED BY <1>u, <2>1, <2>2
<1>2. ASSUME NEW t \in Threads,
             AskStore(t) \/ ReplaceFile(t) \/ UnlinkFile(t) \/ NoteAbsent(t) \/ StoreFails(t)
      PROVE  LruInv'
  BY <1>u, <1>2 DEF AskStore, ReplaceFile, UnlinkFile, NoteAbsent, StoreFails
<1>3. ASSUME NEW k \in Keys, AbsenceExpires(k) \/ WrittenElsewhere(k) PROVE LruInv'
  BY <1>u, <1>3 DEF AbsenceExpires, WrittenElsewhere
<1>4. ASSUME NewProcess \/ NewMachine PROVE LruInv'
  <2>1. lru' = <<>> /\ cached_bytes' = 0
    BY <1>4 DEF NewProcess, NewMachine
  <2>2. /\ lru' \in Seq(Keys) /\ Distinct(lru') /\ IsFiniteSet(Units(ToSet(lru')))
        /\ cached_bytes' = Bytes(ToSet(lru')) /\ cached_bytes' <= Capacity
    <3>1. \A c, s : c = 0 /\ s = <<>> =>
            /\ s \in Seq(Keys) /\ Distinct(s) /\ IsFiniteSet(Units(ToSet(s)))
            /\ c = Bytes(ToSet(s)) /\ c <= Capacity
      BY EmptyAccount
    <3> QED BY <2>1, <3>1
  <2> QED BY <2>2 DEF LruInv
<1>5. CASE UNCHANGED cacheVars
  BY <1>u, <1>5 DEF cacheVars, historyVars
<1> QED
  BY <1>1, <1>2, <1>3, <1>4, <1>5, AdmitLruInv, ForgetLruInv DEF CacheNext, CallOps, Puts

LEMMA NextFileInv == CacheTypeInv /\ LruInv /\ FileInv /\ [CacheNext]_cacheVars => FileInv'
<1> SUFFICES ASSUME CacheTypeInv, LruInv, FileInv, [CacheNext]_cacheVars,
                    NEW k \in Keys \ inherited', copy'[k] # 0
             PROVE  \/ k \in ToSet(lru')
                    \/ \E t \in Threads : call'[t].key = k /\ call'[t].at \in {"admit", "unlink"}
  BY DEF FileInv, Accounted
<1> USE DEF CacheTypeInv, NoCall, CallOf, Goes, GoesWith, Returns, historyVars
<1>f. copy[k] # 0 /\ k \notin inherited =>
                     \/ k \in ToSet(lru)
                     \/ \E t \in Threads : call[t].key = k /\ call[t].at \in {"admit", "unlink"}
  BY DEF FileInv, Accounted
<1>1. ASSUME NEW t \in Threads, NEW key \in Keys, NEW op \in CallOps, StartCall(t, key, op)
      PROVE  \/ k \in ToSet(lru')
             \/ \E u \in Threads : call'[u].key = k /\ call'[u].at \in {"admit", "unlink"}
  <2>1. /\ call[t] = NoCall /\ copy' = copy /\ (lru' = lru \/ lru' = Touched(key))
        /\ call' = call \/ \E at : call' = [call EXCEPT ![t] = CallOf(op, at, key, 0)]
        /\ inherited' = inherited
    BY <1>1 DEF StartCall, MayCall
  <2>2. ToSet(lru') = ToSet(lru)
    BY <2>1, TouchedIn
  <2> QED BY <1>f, <2>1, <2>2
<1>2. ASSUME NEW t \in Threads, AskStore(t) \/ NoteAbsent(t) \/ StoreFails(t)
      PROVE  \/ k \in ToSet(lru')
             \/ \E u \in Threads : call'[u].key = k /\ call'[u].at \in {"admit", "unlink"}
  <2>1. /\ call[t].at \in {"store", "note"} /\ UNCHANGED <<copy, lru, inherited>>
        /\ \A u \in Threads \ {t} : call'[u] = call[u]
    BY <1>2 DEF AskStore, NoteAbsent, StoreFails
  <2> QED BY <1>f, <2>1
<1>3. ASSUME NEW t \in Threads, ReplaceFile(t)
      PROVE  \/ k \in ToSet(lru')
             \/ \E u \in Threads : call'[u].key = k /\ call'[u].at \in {"admit", "unlink"}
  BY <1>f, <1>3 DEF ReplaceFile
<1>4. ASSUME NEW t \in Threads, Admit(t)
      PROVE  \/ k \in ToSet(lru')
             \/ \E u \in Threads : call'[u].key = k /\ call'[u].at \in {"admit", "unlink"}
  <2> DEFINE key == call[t].key
             order == Append(Dropped(key), key)
             evicted == ToSet(order) \ ToSet(Fitting(order))
  <2>1. /\ lru' = Fitting(order) /\ copy' = [x \in Keys |-> IF x \in evicted THEN 0 ELSE copy[x]]
        /\ call' = [call EXCEPT ![t] = NoCall] /\ key \in Keys /\ inherited' = inherited \ {key}
    BY <1>4 DEF Admit
  <2>2. ToSet(order) = ToSet(lru) \cup {key}
    <3> DEFINE s == Dropped(key)
    <3>1. s \in Seq(Keys) /\ Distinct(s) /\ ToSet(s) = ToSet(lru) \ {key}
      BY <2>1, DroppedFrom DEF LruInv
    <3> HIDE DEF s
    <3>2. ToSet(Append(s, key)) = ToSet(s) \cup {key}
      BY <2>1, <3>1, AppendedTo
    <3> QED BY <3>1, <3>2 DEF s
  <2> HIDE DEF order
  <2>3. k \notin evicted /\ copy[k] # 0
    BY <2>1
  <2>4. CASE k \in ToSet(lru) \cup {key}
    BY <2>1, <2>2, <2>3, <2>4
  <2>5. CASE k \notin ToSet(lru) \cup {key}
    BY <1>f, <2>1, <2>3, <2>5
  <2> QED BY <2>4, <2>5
<1>5. ASSUME NEW t \in Threads, Forget(t)
      PROVE  \/ k \in ToSet(lru')
             \/ \E u \in Threads : call'[u].key = k /\ call'[u].at \in {"admit", "unlink"}
  <2>1. /\ lru' = Dropped(call[t].key) /\ copy' = copy /\ call[t].key \in Keys
        /\ call' = [call EXCEPT ![t].at = "unlink"] /\ call[t].at = "forget"
        /\ inherited' = inherited
    BY <1>5 DEF Forget
  <2>2. ToSet(lru') = ToSet(lru) \ {call[t].key}
    BY <2>1, DroppedFrom DEF LruInv
  <2>3. call'[t].key = call[t].key /\ call'[t].at = "unlink" /\ \A u \in Threads \ {t} : call'[u] = call[u]
    BY <2>1
  <2> QED BY <1>f, <2>1, <2>2, <2>3
<1>6. ASSUME NEW t \in Threads, UnlinkFile(t)
      PROVE  \/ k \in ToSet(lru')
             \/ \E u \in Threads : call'[u].key = k /\ call'[u].at \in {"admit", "unlink"}
  <2>1. /\ call[t].at = "unlink" /\ lru' = lru /\ copy' = [copy EXCEPT ![call[t].key] = 0]
        /\ inherited' = inherited \ {call[t].key}
        /\ \A u \in Threads \ {t} : call'[u] = call[u]
    BY <1>6 DEF UnlinkFile
  <2> QED BY <1>f, <2>1
<1>7. ASSUME NEW key \in Keys, AbsenceExpires(key) \/ WrittenElsewhere(key)
      PROVE  \/ k \in ToSet(lru')
             \/ \E u \in Threads : call'[u].key = k /\ call'[u].at \in {"admit", "unlink"}
  BY <1>f, <1>7 DEF AbsenceExpires, WrittenElsewhere
<1>8. CASE NewProcess \/ NewMachine
  BY <1>8 DEF NewProcess, NewMachine
<1>9. CASE UNCHANGED cacheVars
  BY <1>f, <1>9 DEF cacheVars, historyVars
<1> QED
  BY <1>1, <1>2, <1>3, <1>4, <1>5, <1>6, <1>7, <1>8, <1>9 DEF CacheNext, CallOps, Puts

\* The account of the cache is exact and within its limit whatever its threads admit, evict and
\* forget at once, and no file escapes it: for any number of keys, sizes, threads and writes.
THEOREM CacheAccountIsExact == CacheSpec => []AccountingExact
<1>1. CacheInit => LruInv /\ FileInv
  <2>1. CacheInit => LruInv
    <3>1. \A c, s : c = 0 /\ s = <<>> =>
            /\ s \in Seq(Keys) /\ Distinct(s) /\ IsFiniteSet(Units(ToSet(s)))
            /\ c = Bytes(ToSet(s)) /\ c <= Capacity
      BY EmptyAccount
    <3> QED BY <3>1 DEF CacheInit, LruInv
  <2> QED BY <2>1 DEF CacheInit, FileInv
<1>2. CacheTypeInv /\ LruInv /\ FileInv /\ [CacheNext]_cacheVars => LruInv' /\ FileInv'
  BY NextLruInv, NextFileInv
<1>3. LruInv /\ FileInv => AccountingExact
  BY DEF LruInv, FileInv, AccountingExact
<1>4. CacheInv => CacheTypeInv
  BY DEF CacheInv
<1> QED BY <1>1, <1>2, <1>3, <1>4, CacheInvariant, PTL DEF CacheSpec

-----------------------------------------------------------------------------
(* The dispatch of workers *)

RowStatus == {"none", "uncommitted", "queued", "running", "stale", "done"}
RunPhase == {"none", "check", "drain", "work", "look", "hand_over"}

DispatchTypeOK ==
    /\ job_row \in [DispatchJobs -> [status : RowStatus, due : BOOLEAN,
                                     dispatched : {"never", "recent", "old"}]]
    /\ waking \subseteq DispatchJobs /\ pending \subseteq Groups /\ unattended \subseteq DispatchJobs
    /\ active \in [Groups -> [at : RunPhase, budget : {"fresh", "short", "out"},
                              processed : BOOLEAN, job : DispatchJobs \cup {"none"}]]
    /\ poller \in DispatchJobs \cup {"none"}

\* Only a failed attempt makes a job wait, and a job without a run is one a fault has left.
RowKept(j) ==
    /\ ~job_row[j].due => job_row[j].status \in {"queued", "done"}
    /\ job_row[j].status = "queued" /\ ~job_row[j].due => j \in unattended
    /\ job_row[j].status = "stale" => j \in unattended
    /\ job_row[j].status = "running" /\ j \notin unattended => \E g \in Groups : active[g].job = j
RowsInv == \A j \in DispatchJobs : RowKept(j)

\* A run has a job exactly while it works, and one whose budget is worn has had a job: the
\* hand-over, which needs that, never fails for want of progress.
RunKept(g) ==
    /\ IF active[g].at = "work" THEN active[g].job \in DispatchJobs ELSE active[g].job = "none"
    /\ active[g].budget # "fresh" => active[g].processed \/ active[g].at = "work"
    /\ active[g].at = "hand_over" => active[g].budget # "fresh"
RunsInv == \A g \in Groups : RunKept(g)

DispatchInv == DispatchTypeOK /\ RowsInv /\ RunsInv /\ NoLostWakeup

-----------------------------------------------------------------------------
LEMMA DispatchInitInv == DispatchInit => DispatchInv
<1> SUFFICES ASSUME DispatchInit PROVE DispatchInv
  OBVIOUS
<1>1. DispatchTypeOK
  BY DEF DispatchInit, DispatchTypeOK, NotEnqueued, NoRun, RowStatus, RunPhase
<1>2. RowsInv
  BY DEF DispatchInit, RowsInv, RowKept, NotEnqueued
<1>3. RunsInv
  BY DEF DispatchInit, RunsInv, RunKept, NoRun
<1>4. NoLostWakeup
  BY DEF DispatchInit, NoLostWakeup, DueJobs, Queued, NotEnqueued
<1> QED BY <1>1, <1>2, <1>3, <1>4 DEF DispatchInv

\* The reaper changes the status of stale jobs and nothing else.
LEMMA ReapedRows ==
    ASSUME DispatchTypeOK, NEW rows \in Reaped(job_row)
    PROVE  /\ rows \in [DispatchJobs -> [status : RowStatus, due : BOOLEAN,
                                         dispatched : {"never", "recent", "old"}]]
           /\ \A j \in DispatchJobs :
                 /\ rows[j].due = job_row[j].due /\ rows[j].dispatched = job_row[j].dispatched
                 /\ \/ rows[j].status = job_row[j].status
                    \/ job_row[j].status = "stale" /\ rows[j].status \in {"queued", "done"}
                 /\ rows[j].status # "stale"
<1>1. PICK s \in {"queued", "done"} :
        rows = [j \in DispatchJobs |->
                  IF job_row[j].status = "stale" THEN [job_row[j] EXCEPT !.status = s] ELSE job_row[j]]
  BY DEF Reaped
<1>2. \A j \in DispatchJobs :
        rows[j] = IF job_row[j].status = "stale" THEN [job_row[j] EXCEPT !.status = s] ELSE job_row[j]
  BY <1>1
<1>3. \A j \in DispatchJobs :
        job_row[j] \in [status : RowStatus, due : BOOLEAN, dispatched : {"never", "recent", "old"}]
  BY DEF DispatchTypeOK
<1>4. ASSUME NEW j \in DispatchJobs
      PROVE  /\ rows[j] \in [status : RowStatus, due : BOOLEAN, dispatched : {"never", "recent", "old"}]
             /\ rows[j].due = job_row[j].due /\ rows[j].dispatched = job_row[j].dispatched
             /\ \/ rows[j].status = job_row[j].status
                \/ job_row[j].status = "stale" /\ rows[j].status \in {"queued", "done"}
             /\ rows[j].status # "stale"
  BY <1>2, <1>3 DEF RowStatus
<1> QED BY <1>1, <1>4

-----------------------------------------------------------------------------
(* The steps of the dispatch, by what they change *)

\* Rows, waking and what is unattended, while the runs go on.
LEMMA RunRequestStep ==
    ASSUME DispatchInv, NEW j \in DispatchJobs,
           \/ EnqueueJob(j) \/ CommitEnqueue(j) \/ RollbackEnqueue(j)
           \/ DispatchAges(j) \/ BecomesDue(j) \/ GoesStale(j)
    PROVE  DispatchInv'
<1> USE DEF DispatchInv
<1>1. /\ job_row[j] \in [status : RowStatus, due : BOOLEAN, dispatched : {"never", "recent", "old"}]
      /\ RowKept(j)
  BY DEF DispatchTypeOK, RowsInv
<1>2. CASE EnqueueJob(j) \/ CommitEnqueue(j) \/ RollbackEnqueue(j)
  <2>1. DispatchTypeOK'
    BY <1>1, <1>2 DEF DispatchTypeOK, EnqueueJob, CommitEnqueue, RollbackEnqueue, Status, RowStatus
  <2>2. RowsInv'
    BY <1>1, <1>2 DEF DispatchTypeOK, RowsInv, RowKept, EnqueueJob, CommitEnqueue, RollbackEnqueue, Status
  <2>3. RunsInv'
    BY <1>2 DEF RunsInv, RunKept, EnqueueJob, CommitEnqueue, RollbackEnqueue
  <2>4. NoLostWakeup'
    BY <1>1, <1>2 DEF DispatchTypeOK, NoLostWakeup, Coming, DueJobs, Queued, EnqueueJob, CommitEnqueue,
                      RollbackEnqueue, Status
  <2> QED BY <2>1, <2>2, <2>3, <2>4
<1>3. CASE DispatchAges(j) \/ BecomesDue(j) \/ GoesStale(j)
  <2>1. DispatchTypeOK'
    <3>1. CASE DispatchAges(j)
      BY <1>1, <3>1 DEF DispatchTypeOK, DispatchAges
    <3>2. CASE BecomesDue(j)
      BY <1>1, <3>2 DEF DispatchTypeOK, BecomesDue
    <3>3. CASE GoesStale(j)
      BY <1>1, <3>3 DEF DispatchTypeOK, GoesStale, Status, RowStatus
    <3> QED BY <1>3, <3>1, <3>2, <3>3
  <2>2. RowsInv'
    BY <1>1, <1>3 DEF DispatchTypeOK, RowsInv, RowKept, DispatchAges, BecomesDue, GoesStale, Orphans, Status
  <2>3. RunsInv'
    BY <1>3 DEF RunsInv, RunKept, DispatchAges, BecomesDue, GoesStale
  <2>4. NoLostWakeup'
    BY <1>1, <1>3 DEF DispatchTypeOK, NoLostWakeup, Coming, DueJobs, Queued, DispatchAges, BecomesDue,
                      GoesStale, Status, RowKept
  <2> QED BY <2>1, <2>2, <2>3, <2>4
<1> QED BY <1>2, <1>3

\* A dispatch leaves a run waiting, or the job unattended.
LEMMA DispatchEffect ==
    ASSUME DispatchInv, NEW j \in DispatchJobs, Dispatched(j) \/ DispatchLost(j)
    PROVE  /\ job_row' \in [DispatchJobs -> [status : RowStatus, due : BOOLEAN,
                                             dispatched : {"never", "recent", "old"}]]
           /\ \A i \in DispatchJobs :
                 job_row'[i].status = job_row[i].status /\ job_row'[i].due = job_row[i].due
           /\ pending' \subseteq Groups /\ pending \subseteq pending'
           /\ unattended' \subseteq DispatchJobs /\ unattended \subseteq unattended'
           /\ pending' # {} \/ j \in unattended'
<1>1. DispatchTypeOK
  BY DEF DispatchInv
<1>2. job_row' \in {[job_row EXCEPT ![j].dispatched = "recent"], job_row}
  BY DEF Dispatched, DispatchLost
<1>3. /\ job_row' \in [DispatchJobs -> [status : RowStatus, due : BOOLEAN,
                                        dispatched : {"never", "recent", "old"}]]
      /\ \A i \in DispatchJobs :
            job_row'[i].status = job_row[i].status /\ job_row'[i].due = job_row[i].due
  BY <1>1, <1>2 DEF DispatchTypeOK
<1>4. /\ pending' \subseteq Groups /\ pending \subseteq pending'
      /\ unattended' \subseteq DispatchJobs /\ unattended \subseteq unattended'
      /\ pending' # {} \/ j \in unattended'
  BY <1>1 DEF DispatchTypeOK, Dispatched, DispatchLost, Groups
<1> QED BY <1>3, <1>4

LEMMA DispatchCommittedStep ==
    ASSUME DispatchInv, NEW j \in DispatchJobs, DispatchCommitted(j)
    PROVE  DispatchInv'
<1> USE DEF DispatchInv
<1>1. /\ Dispatched(j) \/ DispatchLost(j)
      /\ j \in waking /\ waking' = waking \ {j}
      /\ UNCHANGED <<active, poller>>
  BY DEF DispatchCommitted
<1>2. /\ job_row' \in [DispatchJobs -> [status : RowStatus, due : BOOLEAN,
                                        dispatched : {"never", "recent", "old"}]]
      /\ \A i \in DispatchJobs :
            job_row'[i].status = job_row[i].status /\ job_row'[i].due = job_row[i].due
      /\ pending' \subseteq Groups /\ pending \subseteq pending'
      /\ unattended' \subseteq DispatchJobs /\ unattended \subseteq unattended'
      /\ pending' # {} \/ j \in unattended'
  BY <1>1, DispatchEffect
<1>3. DispatchTypeOK'
  BY <1>1, <1>2 DEF DispatchTypeOK
<1>4. RowsInv'
  BY <1>1, <1>2 DEF RowsInv, RowKept
<1>5. RunsInv'
  BY <1>1 DEF RunsInv, RunKept
<1>6. NoLostWakeup'
  BY <1>1, <1>2 DEF NoLostWakeup, Coming, DueJobs, Queued
<1> QED BY <1>3, <1>4, <1>5, <1>6

LEMMA PollStampStep ==
    ASSUME DispatchInv, PollStamp
    PROVE  DispatchInv'
<1> USE DEF DispatchInv
<1>1. PICK rows \in Reaped(job_row) :
        \/ \E j \in DispatchJobs :
            /\ Redispatchable(rows[j])
            /\ job_row' = [rows EXCEPT ![j].dispatched = "recent"]
            /\ poller' = j
        \/ job_row' = rows /\ poller' = poller
  BY DEF PollStamp
<1>2. UNCHANGED <<waking, pending, active, unattended>>
  BY DEF PollStamp
<1>3. /\ job_row' \in [DispatchJobs -> [status : RowStatus, due : BOOLEAN,
                                        dispatched : {"never", "recent", "old"}]]
      /\ \A j \in DispatchJobs :
            /\ job_row'[j].due = job_row[j].due
            /\ \/ job_row'[j].status = job_row[j].status
               \/ job_row[j].status = "stale" /\ job_row'[j].status \in {"queued", "done"}
            /\ job_row'[j].status # "stale"
      /\ poller' \in DispatchJobs \cup {"none"}
  <2>1. CASE job_row' = rows /\ poller' = poller
    BY <2>1, ReapedRows DEF DispatchTypeOK
  <2>2. ASSUME NEW j \in DispatchJobs, job_row' = [rows EXCEPT ![j].dispatched = "recent"], poller' = j
        PROVE  <1>3!:
    <3>1. rows \in [DispatchJobs -> [status : RowStatus, due : BOOLEAN,
                                     dispatched : {"never", "recent", "old"}]]
      BY ReapedRows
    <3>2. /\ job_row' \in [DispatchJobs -> [status : RowStatus, due : BOOLEAN,
                                            dispatched : {"never", "recent", "old"}]]
          /\ \A i \in DispatchJobs :
                job_row'[i].status = rows[i].status /\ job_row'[i].due = rows[i].due
      BY <2>2, <3>1
    <3> QED BY <2>2, <3>2, ReapedRows
  <2> QED BY <1>1, <2>1, <2>2
<1>4. DispatchTypeOK'
  BY <1>2, <1>3 DEF DispatchTypeOK
<1>5. RowsInv'
  BY <1>2, <1>3 DEF RowsInv, RowKept
<1>6. RunsInv'
  BY <1>2 DEF RunsInv, RunKept
<1>7. NoLostWakeup'
  BY <1>2, <1>3 DEF NoLostWakeup, Coming, DueJobs, Queued, RowsInv, RowKept
<1> QED BY <1>4, <1>5, <1>6, <1>7

LEMMA PollDispatchStep ==
    ASSUME DispatchInv, PollDispatch
    PROVE  DispatchInv'
<1> USE DEF DispatchInv
<1>1. /\ poller \in DispatchJobs
      /\ \/ UNCHANGED <<job_row, pending, unattended>>
         \/ Dispatched(poller) \/ DispatchLost(poller)
      /\ poller' = "none" /\ UNCHANGED <<waking, active>>
  BY DEF PollDispatch, DispatchTypeOK
<1>2. /\ job_row' \in [DispatchJobs -> [status : RowStatus, due : BOOLEAN,
                                        dispatched : {"never", "recent", "old"}]]
      /\ \A i \in DispatchJobs :
            job_row'[i].status = job_row[i].status /\ job_row'[i].due = job_row[i].due
      /\ pending' \subseteq Groups /\ pending \subseteq pending'
      /\ unattended' \subseteq DispatchJobs /\ unattended \subseteq unattended'
  <2>1. CASE UNCHANGED <<job_row, pending, unattended>>
    BY <2>1 DEF DispatchTypeOK
  <2>2. CASE Dispatched(poller) \/ DispatchLost(poller)
    BY <1>1, <2>2, DispatchEffect
  <2> QED BY <1>1, <2>1, <2>2
<1>3. DispatchTypeOK'
  BY <1>1, <1>2 DEF DispatchTypeOK
<1>4. RowsInv'
  BY <1>1, <1>2 DEF RowsInv, RowKept
<1>5. RunsInv'
  BY <1>1 DEF RunsInv, RunKept
<1>6. NoLostWakeup'
  BY <1>1, <1>2 DEF NoLostWakeup, Coming, DueJobs, Queued
<1> QED BY <1>3, <1>4, <1>5, <1>6

-----------------------------------------------------------------------------
(* Runs *)

LEMMA StartRunStep ==
    ASSUME DispatchInv, NEW g \in Groups, StartRun(g)
    PROVE  DispatchInv'
<1> USE DEF DispatchInv, StartRun
<1>1. /\ active' \in [Groups -> [at : RunPhase, budget : {"fresh", "short", "out"},
                                 processed : BOOLEAN, job : DispatchJobs \cup {"none"}]]
      /\ active'[g].at = "check" /\ active'[g].job = "none" /\ active'[g].budget = "fresh"
      /\ \A h \in Groups \ {g} : active'[h] = active[h]
  BY DEF DispatchTypeOK, NoRun, RunPhase
<1>2. DispatchTypeOK'
  BY <1>1 DEF DispatchTypeOK
<1>3. RunsInv'
  BY <1>1 DEF RunsInv, RunKept
<1>4. RowsInv'
  <2>1. active[g].job = "none"
    BY DEF RunsInv, RunKept
  <2> QED BY <1>1, <2>1, DispatchAssumption DEF RowsInv, RowKept
<1>5. NoLostWakeup'
  BY <1>1 DEF NoLostWakeup, Coming
<1> QED BY <1>2, <1>3, <1>4, <1>5

LEMMA ScheduleStep ==
    ASSUME DispatchInv, ScheduleRun
    PROVE  DispatchInv'
<1> USE DEF DispatchInv, ScheduleRun
<1>1. DispatchTypeOK'
  BY DEF DispatchTypeOK, Groups
<1>2. RowsInv' /\ RunsInv'
  BY DEF RowsInv, RowKept, RunsInv, RunKept
<1>3. NoLostWakeup'
  BY DEF NoLostWakeup, Coming
<1> QED BY <1>1, <1>2, <1>3

\* The steps of a run that change nothing but its own entry, and go on.
LEMMA GoingOnStep ==
    ASSUME DispatchInv, NEW g \in Groups, LookAgain(g) \/ BudgetOver(g) \/ BudgetShrinks(g)
    PROVE  DispatchInv'
<1> USE DEF DispatchInv
<1>1. /\ active[g] \in [at : RunPhase, budget : {"fresh", "short", "out"}, processed : BOOLEAN,
                        job : DispatchJobs \cup {"none"}]
      /\ RunKept(g)
  BY DEF DispatchTypeOK, RunsInv
<1>2. UNCHANGED <<job_row, waking, pending, poller, unattended>>
  BY DEF LookAgain, BudgetOver, BudgetShrinks
<1>3. /\ active' \in [Groups -> [at : RunPhase, budget : {"fresh", "short", "out"},
                                 processed : BOOLEAN, job : DispatchJobs \cup {"none"}]]
      /\ \A h \in Groups : active'[h].job = active[h].job
      /\ \A h \in Groups \ {g} : active'[h] = active[h]
      /\ active'[g].at # "none" /\ RunKept(g)'
  <2>1. CASE LookAgain(g)
    <3>1. DueJobs \subseteq DispatchJobs
      BY DEF DueJobs, Queued
    <3>2. \/ active' = At(g, "drain")
          \/ active' = At(g, "hand_over") /\ active[g].budget # "fresh"
      BY <2>1, <3>1 DEF LookAgain, Takes
    <3>3. active[g].at = "look"
      BY <2>1 DEF LookAgain
    <3>4. CASE active' = At(g, "drain")
      BY <1>1, <3>3, <3>4 DEF DispatchTypeOK, At, RunKept, RunPhase
    <3>5. CASE active' = At(g, "hand_over") /\ active[g].budget # "fresh"
      BY <1>1, <3>3, <3>5 DEF DispatchTypeOK, At, RunKept, RunPhase
    <3> QED BY <3>2, <3>4, <3>5
  <2>2. CASE BudgetOver(g)
    BY <1>1, <2>2 DEF DispatchTypeOK, BudgetOver, At, RunKept, RunPhase
  <2>3. CASE BudgetShrinks(g)
    BY <1>1, <2>3 DEF DispatchTypeOK, BudgetShrinks, RunKept, RunPhase
  <2> QED BY <2>1, <2>2, <2>3
<1>4. DispatchTypeOK'
  BY <1>2, <1>3 DEF DispatchTypeOK
<1>5. RowsInv'
  BY <1>2, <1>3 DEF RowsInv, RowKept
<1>6. RunsInv'
  BY <1>3 DEF RunsInv, RunKept
<1>7. NoLostWakeup'
  BY <1>2, <1>3 DEF NoLostWakeup, Coming, DueJobs, Queued
<1> QED BY <1>4, <1>5, <1>6, <1>7

LEMMA CheckQueueStep ==
    ASSUME DispatchInv, NEW g \in Groups, CheckQueue(g)
    PROVE  DispatchInv'
<1> USE DEF DispatchInv
<1>1. PICK rows \in Reaped(job_row) :
        /\ job_row' = rows
        /\ \/ active' = At(g, "drain")
           \/ /\ \A j \in DispatchJobs : rows[j].status = "queued" => ~rows[j].due
              /\ active' = [active EXCEPT ![g] = NoRun]
  BY DEF CheckQueue
<1>2. active[g].at = "check" /\ UNCHANGED <<waking, pending, poller, unattended>>
  BY DEF CheckQueue
<1>3. /\ active[g] \in [at : RunPhase, budget : {"fresh", "short", "out"}, processed : BOOLEAN,
                        job : DispatchJobs \cup {"none"}]
      /\ RunKept(g)
  BY DEF DispatchTypeOK, RunsInv
<1>4. /\ active' \in [Groups -> [at : RunPhase, budget : {"fresh", "short", "out"},
                                 processed : BOOLEAN, job : DispatchJobs \cup {"none"}]]
      /\ \A h \in Groups : active'[h].job = active[h].job
      /\ \A h \in Groups \ {g} : active'[h] = active[h]
      /\ RunKept(g)'
  <2>1. CASE active' = At(g, "drain")
    BY <1>2, <1>3, <2>1 DEF DispatchTypeOK, At, RunKept, RunPhase
  <2>2. CASE active' = [active EXCEPT ![g] = NoRun]
    BY <1>2, <1>3, <2>2 DEF DispatchTypeOK, NoRun, RunKept, RunPhase
  <2> QED BY <1>1, <2>1, <2>2
<1>5. DispatchTypeOK'
  BY <1>1, <1>2, <1>4, ReapedRows DEF DispatchTypeOK
<1>6. RowsInv'
  BY <1>1, <1>2, <1>4, ReapedRows DEF RowsInv, RowKept
<1>7. RunsInv'
  BY <1>4 DEF RunsInv, RunKept
<1>8. NoLostWakeup'
  <2>1. CASE active' = At(g, "drain")
    <3>1. active'[g].at = "drain"
      BY <2>1 DEF DispatchTypeOK, At
    <3> QED BY <3>1 DEF NoLostWakeup, Coming
  <2>2. CASE \A j \in DispatchJobs : rows[j].status = "queued" => ~rows[j].due
    BY <1>1, <2>2 DEF NoLostWakeup, DueJobs, Queued
  <2> QED BY <1>1, <2>1, <2>2
<1> QED BY <1>5, <1>6, <1>7, <1>8

LEMMA ClaimJobStep ==
    ASSUME DispatchInv, NEW g \in Groups, ClaimJob(g)
    PROVE  DispatchInv'
<1> USE DEF DispatchInv
<1>1. /\ active[g] \in [at : RunPhase, budget : {"fresh", "short", "out"}, processed : BOOLEAN,
                        job : DispatchJobs \cup {"none"}]
      /\ RunKept(g) /\ active[g].at = "drain" /\ active[g].job = "none"
  BY DEF DispatchTypeOK, RunsInv, RunKept, ClaimJob
<1>2. UNCHANGED <<waking, pending, poller, unattended>>
  BY DEF ClaimJob
<1>3. ASSUME NEW j \in DispatchJobs, Takes(g, j), job_row' = Status(j, "running"),
             active' = [active EXCEPT ![g].at = "work", ![g].job = j]
      PROVE  DispatchInv'
  <2>1. job_row[j] \in [status : RowStatus, due : BOOLEAN, dispatched : {"never", "recent", "old"}]
        /\ job_row[j].due
    BY <1>3 DEF DispatchTypeOK, Takes, DueJobs
  <2>2. /\ active' \in [Groups -> [at : RunPhase, budget : {"fresh", "short", "out"},
                                   processed : BOOLEAN, job : DispatchJobs \cup {"none"}]]
        /\ active'[g].at = "work" /\ active'[g].job = j
        /\ \A h \in Groups \ {g} : active'[h] = active[h]
    BY <1>1, <1>3 DEF DispatchTypeOK, RunPhase
  <2>3. /\ job_row' \in [DispatchJobs -> [status : RowStatus, due : BOOLEAN,
                                          dispatched : {"never", "recent", "old"}]]
        /\ job_row'[j].status = "running" /\ job_row'[j].due
        /\ \A i \in DispatchJobs \ {j} : job_row'[i] = job_row[i]
    BY <1>3, <2>1 DEF DispatchTypeOK, Status, RowStatus
  <2>4. DispatchTypeOK'
    BY <1>2, <2>2, <2>3 DEF DispatchTypeOK
  <2>5. RowsInv'
    <3>1. RowKept(j)'
      BY <2>2, <2>3 DEF RowKept
    <3>2. ASSUME NEW i \in DispatchJobs \ {j} PROVE RowKept(i)'
      <4>1. RowKept(i) /\ i # "none"
        BY DispatchAssumption DEF RowsInv
      <4>2. \A h \in Groups : active[h].job = i => active'[h].job = i
        BY <1>1, <2>2, <4>1
      <4> QED BY <1>2, <2>3, <4>1, <4>2 DEF RowKept
    <3> QED BY <3>1, <3>2 DEF RowsInv
  <2>6. RunsInv'
    BY <2>2 DEF RunsInv, RunKept
  <2>7. NoLostWakeup'
    BY <2>2 DEF NoLostWakeup, Coming
  <2> QED BY <2>4, <2>5, <2>6, <2>7
<1>4. CASE active' = At(g, "look") /\ UNCHANGED job_row
  <2>1. /\ active' \in [Groups -> [at : RunPhase, budget : {"fresh", "short", "out"},
                                   processed : BOOLEAN, job : DispatchJobs \cup {"none"}]]
        /\ active'[g].at = "look" /\ RunKept(g)'
        /\ \A h \in Groups : active'[h].job = active[h].job
        /\ \A h \in Groups \ {g} : active'[h] = active[h]
    BY <1>1, <1>4 DEF DispatchTypeOK, At, RunKept, RunPhase
  <2>2. DispatchTypeOK'
    BY <1>2, <1>4, <2>1 DEF DispatchTypeOK
  <2>3. RowsInv'
    BY <1>2, <1>4, <2>1 DEF RowsInv, RowKept
  <2>4. RunsInv'
    BY <2>1 DEF RunsInv, RunKept
  <2>5. NoLostWakeup'
    BY <2>1 DEF NoLostWakeup, Coming
  <2> QED BY <2>2, <2>3, <2>4, <2>5
<1> QED BY <1>3, <1>4 DEF ClaimJob

LEMMA FollowUpStep ==
    ASSUME DispatchInv, NEW g \in Groups, NEW j \in DispatchJobs, EnqueueFollowUp(g, j)
    PROVE  DispatchInv'
<1> USE DEF DispatchInv, EnqueueFollowUp
<1>1. /\ job_row' \in [DispatchJobs -> [status : RowStatus, due : BOOLEAN,
                                        dispatched : {"never", "recent", "old"}]]
      /\ job_row'[j].status = "queued" /\ job_row'[j].due
      /\ \A i \in DispatchJobs \ {j} : job_row'[i] = job_row[i]
  BY DEF DispatchTypeOK, RowStatus
<1>2. DispatchTypeOK'
  BY <1>1 DEF DispatchTypeOK
<1>3. RowsInv'
  BY <1>1 DEF RowsInv, RowKept
<1>4. RunsInv'
  BY DEF RunsInv, RunKept
<1>5. NoLostWakeup'
  BY DEF NoLostWakeup, Coming
<1> QED BY <1>2, <1>3, <1>4, <1>5

LEMMA EndJobStep ==
    ASSUME DispatchInv, NEW g \in Groups, EndJob(g)
    PROVE  DispatchInv'
<1> USE DEF DispatchInv
<1> DEFINE j == active[g].job
<1>1. /\ active[g] \in [at : RunPhase, budget : {"fresh", "short", "out"}, processed : BOOLEAN,
                        job : DispatchJobs \cup {"none"}]
      /\ j \in DispatchJobs
      /\ job_row[j] \in [status : RowStatus, due : BOOLEAN, dispatched : {"never", "recent", "old"}]
  BY DEF DispatchTypeOK, RunsInv, RunKept, EndJob
<1>2. /\ UNCHANGED <<waking, pending, poller>>
      /\ \/ job_row' = Status(j, "done") /\ unattended' = unattended \ {j}
         \/ /\ job_row' = [job_row EXCEPT ![j].status = "queued", ![j].due = FALSE]
            /\ unattended' = unattended \cup {j}
  BY DEF EndJob
<1>3. /\ active' \in [Groups -> [at : RunPhase, budget : {"fresh", "short", "out"},
                                 processed : BOOLEAN, job : DispatchJobs \cup {"none"}]]
      /\ active'[g].at = "drain" /\ active'[g].job = "none" /\ active'[g].processed
      /\ \A h \in Groups \ {g} : active'[h] = active[h]
  BY <1>1 DEF DispatchTypeOK, EndJob, RunPhase
<1>4. /\ job_row' \in [DispatchJobs -> [status : RowStatus, due : BOOLEAN,
                                        dispatched : {"never", "recent", "old"}]]
      /\ \A i \in DispatchJobs \ {j} :
            job_row'[i] = job_row[i] /\ (i \in unattended' <=> i \in unattended)
      /\ \/ job_row'[j].status = "done"
         \/ job_row'[j].status = "queued" /\ j \in unattended'
      /\ unattended' \subseteq DispatchJobs
  <2> HIDE DEF j
  <2>1. CASE job_row' = Status(j, "done") /\ unattended' = unattended \ {j}
    BY <1>1, <2>1 DEF DispatchTypeOK, Status, RowStatus
  <2>2. CASE /\ job_row' = [job_row EXCEPT ![j].status = "queued", ![j].due = FALSE]
             /\ unattended' = unattended \cup {j}
    BY <1>1, <2>2 DEF DispatchTypeOK, RowStatus
  <2> QED BY <1>2, <2>1, <2>2
<1>5. DispatchTypeOK'
  BY <1>2, <1>3, <1>4 DEF DispatchTypeOK
<1>6. RowsInv'
  <2>1. ASSUME NEW i \in DispatchJobs, i = j PROVE RowKept(i)'
    BY <1>4, <2>1 DEF RowKept
  <2>2. ASSUME NEW i \in DispatchJobs \ {j} PROVE RowKept(i)'
    <3>1. RowKept(i)
      BY DEF RowsInv
    <3>2. \A h \in Groups : active[h].job = i => active'[h].job = i
      BY <1>3
    <3>3. job_row'[i] = job_row[i] /\ (i \in unattended' <=> i \in unattended)
      BY <1>4
    <3> QED BY <3>1, <3>2, <3>3 DEF RowKept
  <2> QED BY <2>1, <2>2 DEF RowsInv
<1>7. RunsInv'
  <2>1. RunKept(g)'
    BY <1>3 DEF RunKept
  <2>2. ASSUME NEW h \in Groups \ {g} PROVE RunKept(h)'
    <3>1. RunKept(h)
      BY DEF RunsInv
    <3> QED BY <1>3, <3>1 DEF RunKept
  <2> QED BY <2>1, <2>2 DEF RunsInv
<1>8. NoLostWakeup'
  BY <1>3 DEF NoLostWakeup, Coming
<1> QED BY <1>5, <1>6, <1>7, <1>8

\* The steps that end a run.
LEMMA RunEnds ==
    ASSUME DispatchInv, NEW g \in Groups, active' = [active EXCEPT ![g] = NoRun]
    PROVE  /\ active' \in [Groups -> [at : RunPhase, budget : {"fresh", "short", "out"},
                                      processed : BOOLEAN, job : DispatchJobs \cup {"none"}]]
           /\ RunsInv'
           /\ \A h \in Groups \ {g} : active'[h] = active[h]
BY DEF DispatchInv, DispatchTypeOK, NoRun, RunPhase, RunsInv, RunKept

LEMMA IdleOutStep ==
    ASSUME DispatchInv, NEW g \in Groups, IdleOut(g)
    PROVE  DispatchInv'
<1> USE DEF DispatchInv, IdleOut
<1>1. /\ active' \in [Groups -> [at : RunPhase, budget : {"fresh", "short", "out"},
                                 processed : BOOLEAN, job : DispatchJobs \cup {"none"}]]
      /\ RunsInv'
      /\ \A h \in Groups \ {g} : active'[h] = active[h]
  BY RunEnds
<1>2. active[g].job = "none"
  BY DEF RunsInv, RunKept
<1>3. DispatchTypeOK'
  BY <1>1 DEF DispatchTypeOK
<1>4. RowsInv'
  BY <1>1, <1>2, DispatchAssumption DEF RowsInv, RowKept
<1>5. NoLostWakeup'
  BY DEF NoLostWakeup, DueJobs, Queued
<1> QED BY <1>1, <1>3, <1>4, <1>5

LEMMA RunDiesStep ==
    ASSUME DispatchInv, NEW g \in Groups, RunDies(g)
    PROVE  DispatchInv'
<1> USE DEF DispatchInv, RunDies
<1>1. /\ active' \in [Groups -> [at : RunPhase, budget : {"fresh", "short", "out"},
                                 processed : BOOLEAN, job : DispatchJobs \cup {"none"}]]
      /\ RunsInv'
      /\ \A h \in Groups \ {g} : active'[h] = active[h]
  BY RunEnds
<1>2. DispatchTypeOK'
  BY <1>1 DEF DispatchTypeOK, Queued
<1>3. RowsInv'
  <2>1. ASSUME NEW j \in DispatchJobs PROVE RowKept(j)'
    <3>1. RowKept(j)
      BY DEF RowsInv
    <3>2. j \in unattended' <=> j \in unattended \/ job_row[j].status = "queued" \/ active[g].job = j
      BY DEF Queued
    <3>3. \A h \in Groups : active[h].job = j /\ h # g => active'[h].job = j
      BY <1>1
    <3> QED BY <3>1, <3>2, <3>3 DEF RowKept
  <2> QED BY <2>1 DEF RowsInv
<1>4. NoLostWakeup'
  BY DEF NoLostWakeup, DueJobs, Queued
<1> QED BY <1>1, <1>2, <1>3, <1>4

LEMMA HandOverStep ==
    ASSUME DispatchInv, NEW g \in Groups, HandOver(g)
    PROVE  DispatchInv'
<1> USE DEF DispatchInv
<1>1. /\ active' \in [Groups -> [at : RunPhase, budget : {"fresh", "short", "out"},
                                 processed : BOOLEAN, job : DispatchJobs \cup {"none"}]]
      /\ RunsInv'
      /\ \A h \in Groups \ {g} : active'[h] = active[h]
      /\ UNCHANGED <<waking, poller>>
  BY RunEnds DEF HandOver
<1>2. active[g].processed /\ active[g].job = "none"
  BY DEF RunsInv, RunKept, HandOver
<1>3. /\ pending \subseteq pending' /\ pending' \subseteq Groups
      /\ unattended \subseteq unattended' /\ unattended' \subseteq DispatchJobs
      /\ job_row' = job_row \/ \E j \in DispatchJobs : job_row' = [job_row EXCEPT ![j].dispatched = "recent"]
      /\ Queued = {} \/ pending' # {} \/ Queued \subseteq unattended'
  BY <1>2, DispatchAssumption DEF HandOver, DispatchTypeOK, Groups, Queued
<1>4. /\ job_row' \in [DispatchJobs -> [status : RowStatus, due : BOOLEAN,
                                        dispatched : {"never", "recent", "old"}]]
      /\ \A i \in DispatchJobs :
            job_row'[i].status = job_row[i].status /\ job_row'[i].due = job_row[i].due
  BY <1>3 DEF DispatchTypeOK
<1>5. DispatchTypeOK'
  BY <1>1, <1>3, <1>4 DEF DispatchTypeOK
<1>6. RowsInv'
  BY <1>1, <1>2, <1>3, <1>4, DispatchAssumption DEF RowsInv, RowKept
<1>7. NoLostWakeup'
  BY <1>3, <1>4 DEF NoLostWakeup, Coming, DueJobs, Queued
<1> QED BY <1>1, <1>5, <1>6, <1>7

-----------------------------------------------------------------------------
LEMMA DispatchStepInv == DispatchInv /\ [DispatchNext]_dispatchVars => DispatchInv'
<1> SUFFICES ASSUME DispatchInv, [DispatchNext]_dispatchVars PROVE DispatchInv'
  OBVIOUS
<1>1. ASSUME NEW j \in DispatchJobs,
             \/ EnqueueJob(j) \/ CommitEnqueue(j) \/ RollbackEnqueue(j)
             \/ DispatchAges(j) \/ BecomesDue(j) \/ GoesStale(j)
      PROVE  DispatchInv'
  BY <1>1, RunRequestStep
<1>2. ASSUME NEW j \in DispatchJobs, DispatchCommitted(j) PROVE DispatchInv'
  BY <1>2, DispatchCommittedStep
<1>3. CASE PollStamp \/ PollDispatch \/ ScheduleRun
  BY <1>3, PollStampStep, PollDispatchStep, ScheduleStep
<1>4. ASSUME NEW g \in Groups, StartRun(g) \/ CheckQueue(g) \/ ClaimJob(g) \/ EndJob(g)
      PROVE  DispatchInv'
  BY <1>4, StartRunStep, CheckQueueStep, ClaimJobStep, EndJobStep
<1>5. ASSUME NEW g \in Groups, LookAgain(g) \/ BudgetOver(g) \/ BudgetShrinks(g)
      PROVE  DispatchInv'
  BY <1>5, GoingOnStep
<1>6. ASSUME NEW g \in Groups, IdleOut(g) \/ HandOver(g) \/ RunDies(g)
      PROVE  DispatchInv'
  BY <1>6, IdleOutStep, HandOverStep, RunDiesStep
<1>7. ASSUME NEW g \in Groups, NEW j \in DispatchJobs, EnqueueFollowUp(g, j) PROVE DispatchInv'
  BY <1>7, FollowUpStep
<1>8. CASE UNCHANGED dispatchVars
  BY <1>8 DEF dispatchVars, DispatchInv, DispatchTypeOK, RowsInv, RowKept, RunsInv, RunKept,
              NoLostWakeup, Coming, DueJobs, Queued
<1> QED BY <1>1, <1>2, <1>3, <1>4, <1>5, <1>6, <1>7, <1>8 DEF DispatchNext

\* Whatever races a commit, a poll, the schedule, a hand-over and the end of a run have, a due job
\* that no fault has struck has a run coming: its dispatch, a waiting run, or an active one that
\* looks at the queue again.  For any jobs and slots, execution.py and drain.
THEOREM WakeupsStay == DispatchSpec => []NoLostWakeup
<1>1. DispatchInv => NoLostWakeup
  BY DEF DispatchInv
<1> QED BY <1>1, DispatchInitInv, DispatchStepInv, PTL DEF DispatchSpec

\* A run that stops because its budget is worn has had a job, so that its hand-over starts a
\* successor whenever anything is queued (_continue_elsewhere asks for progress).
THEOREM WornRunsHandOver ==
    DispatchSpec => [](\A g \in Groups : active[g].at = "hand_over" => active[g].processed)
<1>1. DispatchInv => \A g \in Groups : active[g].at = "hand_over" => active[g].processed
  BY DEF DispatchInv, RunsInv, RunKept
<1> QED BY <1>1, DispatchInitInv, DispatchStepInv, PTL DEF DispatchSpec
=============================================================================
