------------------------ MODULE DatasetVersionProofs ------------------------
(***************************************************************************)
(* Proofs about a dataset version, for any archive, any number of parts,   *)
(* files, jobs and attempts, and any sequence of requests.                 *)
(*                                                                         *)
(* That archive and uploads stay in step with the row needs only that      *)
(* requests do not overlap (UploadInv).  Readiness needs besides that a    *)
(* job of a ready version does not raise (VersionInv).  Neither asks that  *)
(* retry-ingest waits for the jobs there are: a version fails with a job   *)
(* alive only if its archive holds no image, and then it never becomes     *)
(* ready, so that one ingestion at a time is claimed, and true, of         *)
(* archives with images (ImageInv).                                        *)
(***************************************************************************)
EXTENDS DatasetVersion, TLAPS

OneRequest == ~RequestsOverlap
Serial     == OneRequest /\ ~MayFailWhenReady

Live(j) == job[j].status \in {"queued", "running"}

\* TypeOK, and the attempts a queued job has left.
VersionTypeInv ==
    /\ TypeOK
    /\ \A j \in Jobs : job[j].status = "queued" => job[j].attempts < MaxAttempts

JobRow == [status : {"none", "queued", "running", "completed", "failed"},
           key : {"none", "first", "retry"}, attempts : 0..MaxAttempts]
Asked  == [kind : {"none", "finalize", "abort", "cleanup", "retry"},
           phase : {"done", "loaded", "accepted", "rejected"}, uploading : BOOLEAN]
Work   == [doing : {"nothing", "starting", "ingesting", "returned", "failing"}, todo : SUBSET Files]

\* What an open request loaded still holds when it commits, and a multipart upload is open
\* only while the version waits for it.
RequestInv ==
    /\ \A r, q \in Requests : Open(r) /\ Open(q) => r = q
    /\ \A r \in Requests : ~Open(r) => request[r].phase = "done"
    /\ \A r \in Requests : Open(r) =>
        /\ request[r].uploading = row.uploading
        /\ IF request[r].kind = "retry"
           THEN /\ row.status # "awaiting_upload" /\ store.object
                /\ request[r].phase = "loaded"
           ELSE row.status = "awaiting_upload"
        /\ request[r].phase = "accepted" => store.object /\ request[r].kind = "finalize"
        /\ request[r].phase \in {"accepted", "rejected"} => ~store.open
    /\ store.open => row.uploading
    /\ row.uploading => row.status = "awaiting_upload"

\* A job that is queued or running has the archive, and there is none before the upload.
IngestInv ==
    /\ \A j \in Jobs :
        /\ handler[j].doing \in {"starting", "ingesting", "returned"} => job[j].status = "running"
        /\ handler[j].doing = "failing" => job[j].status = "failed"
        /\ Live(j) => store.object
    /\ row.status \in {"uploaded", "ingesting"} => store.object
    /\ row.status = "awaiting_upload" => \A j \in Jobs : job[j].status = "none"

UploadInv == VersionTypeInv /\ RequestInv /\ IngestInv

\* Of an archive with images one job at a time is queued or running, its worker knows exactly
\* which files are still to be recorded, and a retry finds no such job.
ImageInv ==
    archive.contents = "images" =>
        /\ \A i, j \in Jobs : Live(i) /\ Live(j) => i = j
        /\ \A j \in Jobs : handler[j].doing = "ingesting" => handler[j].todo = Files \ recorded
        /\ \A r \in Requests : request[r].kind = "retry" =>
                row.status = "failed" /\ \A j \in Jobs : ~Live(j)

\* The status of the version, as far as its jobs and their reports can still change it.
StatusInv ==
    /\ row.status = "ready" => archive.contents = "images" /\ recorded = Files /\ audits = 1
    /\ row.status # "ready" => audits = 0
    /\ \A j \in Jobs :
        /\ handler[j].doing = "ingesting" => row.status # "ready"
        /\ handler[j].doing = "failing" => row.status # "ready"
        /\ archive.contents = "images" =>
            /\ Live(j) => row.status \in {"uploaded", "ingesting", "ready"}
            /\ handler[j].doing = "failing" =>
                /\ row.status \in {"uploaded", "ingesting"}
                /\ \A i \in Jobs : ~Live(i) /\ (handler[i].doing = "failing" => i = j)

VersionInv == UploadInv /\ ImageInv /\ StatusInv

\* A request that goes on stays a request.
LEMMA GoesTyped ==
    ASSUME request \in [Requests -> Asked], NEW r \in Requests,
           NEW p \in {"accepted", "rejected"}, Goes(r, p)
    PROVE  request' \in [Requests -> Asked]
<1>1. [request[r] EXCEPT !.phase = p] \in Asked
  BY DEF Asked
<1> QED BY <1>1 DEF Goes

Bucket == [object : BOOLEAN, open : BOOLEAN, parts : SUBSET Parts]

\* Discarding a multipart upload leaves a bucket.
LEMMA DiscardedTyped ==
    ASSUME store \in Bucket, NEW r
    PROVE  Discarded(r) \in Bucket
<1>1. [store EXCEPT !.open = FALSE, !.parts = {}] \in Bucket
  BY DEF Bucket
<1> QED BY <1>1 DEF Discarded

LEMMA VersionInitially == Init => VersionInv
BY DatasetVersionAssumption
DEF Init, VersionInv, UploadInv, VersionTypeInv, RequestInv, IngestInv, ImageInv, StatusInv,
    TypeOK, Statuses, Contents, NoRequest, NoJob, Idle, Open, Live

\* The type invariant does not need the deployment to be serial.
LEMMA TypeStep ==
    ASSUME VersionTypeInv, [Next]_vars
    PROVE  VersionTypeInv'
<1> USE DatasetVersionAssumption DEF VersionTypeInv, TypeOK, Statuses, Contents
<1>1. ASSUME PutObject PROVE VersionTypeInv'
  BY <1>1 DEF PutObject
<1>2. ASSUME NEW p \in Parts, PutPart(p) PROVE VersionTypeInv'
  BY <1>2 DEF PutPart
<1>3. ASSUME NEW r \in Requests,
             NEW kind \in {"finalize", "abort", "cleanup", "retry"}, Begin(r, kind)
      PROVE  VersionTypeInv'
  BY <1>3 DEF RetryAllowed, Awaiting, Begin
<1>4. ASSUME NEW r \in Requests, FinalizeInStore(r) PROVE VersionTypeInv'
  <2>2. UNCHANGED <<row, archive, job, handler, recorded, audits>>
    BY <1>4 DEF FinalizeInStore
  <2>3. CASE store' = [object |-> TRUE, open |-> FALSE, parts |-> {}] /\ Goes(r, "accepted")
    BY <2>2, <2>3, GoesTyped DEF Asked
  <2>4. CASE Ends(r) /\ UNCHANGED store
    BY <2>2, <2>4 DEF Ends, NoRequest
  <2>5. CASE store' = [store EXCEPT !.object = FALSE] /\ Goes(r, "rejected")
    BY <2>2, <2>5, GoesTyped DEF Asked
  <2>6. CASE Goes(r, "accepted") /\ UNCHANGED store
    BY <2>2, <2>6, GoesTyped DEF Asked
  <2> QED
    BY <1>4, <2>3, <2>4, <2>5, <2>6 DEF FinalizeInStore
<1>5. ASSUME NEW r \in Requests, AbortInStore(r) PROVE VersionTypeInv'
  <2>1. Discarded(r) \in Bucket
    BY DiscardedTyped DEF Bucket
  <2>2. store' = [Discarded(r) EXCEPT !.object = FALSE]
    BY <1>5 DEF AbortInStore
  <2>3. store' \in Bucket
    BY <2>1, <2>2 DEF Bucket
  <2>4. Goes(r, "rejected") /\ UNCHANGED <<row, archive, job, handler, recorded, audits>>
    BY <1>5 DEF AbortInStore
  <2>5. request' \in [Requests -> Asked]
    BY <2>4, GoesTyped DEF Asked
  <2> QED BY <2>3, <2>4, <2>5 DEF Asked, Bucket
<1>6. ASSUME NEW r \in Requests, CommitFailed(r) PROVE VersionTypeInv'
  BY <1>6 DEF Ends, NoRequest, CommitFailed
<1>7. ASSUME NEW r \in Requests, CommitUploaded(r) PROVE VersionTypeInv'
  <2>1. /\ job \in [Jobs -> JobRow]
        /\ row' \in [status : Statuses, uploading : BOOLEAN]
        /\ request' = [request EXCEPT ![r] = [kind |-> "none", phase |-> "done", uploading |-> FALSE]]
        /\ UNCHANGED <<archive, store, handler, recorded, audits>>
    BY <1>7 DEF CommitUploaded, Ends, NoRequest, JobRow
  <2>2. CASE job' = job
    BY <2>1, <2>2
  <2>3. ASSUME NEW k \in Jobs,
               job' = [job EXCEPT ![k] = [status |-> "queued", key |-> "first", attempts |-> 0]]
        PROVE  VersionTypeInv'
    <3>1. [status |-> "queued", key |-> "first", attempts |-> 0] \in JobRow
      BY DEF JobRow
    <3>2. /\ job' \in [Jobs -> JobRow]
          /\ \A i \in Jobs : job'[i].status = "queued" => job'[i].attempts < MaxAttempts
      BY <2>1, <2>3, <3>1
    <3> QED BY <2>1, <3>2 DEF JobRow
  <2> QED BY <1>7, <2>2, <2>3 DEF CommitUploaded, EnqueueIngest
<1>8. ASSUME NEW r \in Requests, LoseRequest(r) PROVE VersionTypeInv'
  BY <1>8 DEF Ends, NoRequest, LoseRequest
<1>9. ASSUME NEW j \in Jobs, ClaimIngest(j) PROVE VersionTypeInv'
  BY <1>9 DEF ClaimIngest
<1>10. ASSUME NEW j \in Jobs, StartIngest(j) PROVE VersionTypeInv'
  <2>1. UNCHANGED <<archive, store, request, job, recorded, audits>>
    BY <1>10 DEF StartIngest
  <2>2. handler \in [Jobs -> Work]
    BY DEF Work
  <2>3. CASE handler' = [handler EXCEPT ![j].doing = "returned"] /\ row' = row
    <3>1. \A i \in Jobs : handler'[i] \in Work
      BY <2>2, <2>3 DEF Work
    <3>2. handler' \in [Jobs -> Work]
      BY <2>2, <2>3, <3>1
    <3> QED BY <2>1, <2>3, <3>2 DEF Work
  <2>4. CASE /\ handler' = [handler EXCEPT ![j] = [doing |-> "ingesting", todo |-> Files \ recorded]]
             /\ row' = [row EXCEPT !.status = "ingesting"]
    <3>1. [doing |-> "ingesting", todo |-> Files \ recorded] \in Work
      BY DEF Work
    <3>2. handler' \in [Jobs -> Work]
      BY <2>2, <2>4, <3>1
    <3>3. row' \in [status : Statuses, uploading : BOOLEAN]
      BY <2>4
    <3> QED BY <2>1, <3>2, <3>3 DEF Work
  <2> QED BY <1>10, <2>3, <2>4 DEF StartIngest
<1>11. ASSUME NEW j \in Jobs, NEW chunk \in SUBSET Files, RecordChunk(j, chunk) PROVE VersionTypeInv'
  <2>1. /\ handler' = [handler EXCEPT ![j].todo = @ \ chunk] /\ recorded' = recorded \cup chunk
        /\ UNCHANGED <<row, archive, store, request, job, audits>>
    BY <1>11 DEF RecordChunk
  <2>2. handler \in [Jobs -> Work]
    BY DEF Work
  <2>3. [handler[j] EXCEPT !.todo = @ \ chunk] \in Work
    BY <2>2 DEF Work
  <2>4. handler' \in [Jobs -> Work]
    BY <2>1, <2>2, <2>3
  <2> QED BY <2>1, <2>4 DEF Work
<1>12. ASSUME NEW j \in Jobs, FinishIngest(j) PROVE VersionTypeInv'
  <2>1. /\ row' = [row EXCEPT !.status = IF archive.contents = "images" THEN "ready" ELSE "failed"]
        /\ audits' = IF archive.contents = "images" THEN audits + 1 ELSE audits
        /\ handler' = [handler EXCEPT ![j].doing = "returned"]
        /\ UNCHANGED <<archive, store, request, job, recorded>>
    BY <1>12 DEF FinishIngest
  <2>2. row' \in [status : Statuses, uploading : BOOLEAN]
    BY <2>1
  <2>3. audits' \in Nat
    BY <2>1
  <2>4. handler \in [Jobs -> Work]
    BY DEF Work
  <2>5. \A i \in Jobs : handler'[i] \in Work
    BY <2>1, <2>4 DEF Work
  <2>6. handler' \in [Jobs -> Work]
    BY <2>1, <2>4, <2>5
  <2> QED BY <2>1, <2>2, <2>3, <2>6 DEF Work
<1>13. ASSUME NEW j \in Jobs, CompleteJob(j) PROVE VersionTypeInv'
  BY <1>13 DEF Doing, Idle, CompleteJob
<1>14. ASSUME NEW j \in Jobs, FailJob(j) PROVE VersionTypeInv'
  <2>1. /\ job \in [Jobs -> JobRow] /\ handler \in [Jobs -> Work]
        /\ UNCHANGED <<row, archive, store, request, recorded, audits>>
    BY <1>14 DEF FailJob, JobRow, Work
  <2>2. CASE /\ job' = [job EXCEPT ![j].status = "failed"]
             /\ handler' = [handler EXCEPT ![j] = [doing |-> "failing", todo |-> {}]]
    <3>1. [job[j] EXCEPT !.status = "failed"] \in JobRow
      BY <2>1 DEF JobRow
    <3>2. /\ job' \in [Jobs -> JobRow]
          /\ \A i \in Jobs : job'[i].status = "queued" => job'[i] = job[i]
      BY <2>1, <2>2, <3>1
    <3>3. handler' \in [Jobs -> Work]
      BY <2>1, <2>2 DEF Work
    <3> QED BY <2>1, <3>2, <3>3 DEF JobRow, Work
  <2>3. CASE /\ job[j].attempts # MaxAttempts
             /\ job' = [job EXCEPT ![j].status = "queued"]
             /\ handler' = [handler EXCEPT ![j] = Idle]
    <3>1. [job[j] EXCEPT !.status = "queued"] \in JobRow
      BY <2>1, <2>3 DEF JobRow
    <3>2. /\ job' \in [Jobs -> JobRow]
          /\ \A i \in Jobs : job'[i].status = "queued" => job'[i].attempts < MaxAttempts
      <4>1. job[j].attempts \in 0..MaxAttempts
        BY <2>1 DEF JobRow
      <4>2. MaxAttempts \in Nat /\ job[j].attempts # MaxAttempts
        BY <2>3
      <4>3. \A n \in 0..MaxAttempts : n # MaxAttempts => n < MaxAttempts
        BY <4>2
      <4>4. job[j].attempts < MaxAttempts
        BY <4>1, <4>2, <4>3
      <4> QED BY <2>1, <2>3, <3>1, <4>4
    <3>3. handler' \in [Jobs -> Work]
      BY <2>1, <2>3 DEF Work, Idle
    <3> QED BY <2>1, <3>2, <3>3 DEF JobRow, Work
  <2> QED BY <1>14, <2>2, <2>3 DEF FailJob
<1>15. ASSUME NEW j \in Jobs, Propagate(j) PROVE VersionTypeInv'
  BY <1>15 DEF Doing, Idle, Propagate
<1>16. ASSUME NEW j \in Jobs, LoseWorker(j) PROVE VersionTypeInv'
  BY <1>16 DEF Idle, LoseWorker
<1>17. CASE UNCHANGED vars
  BY <1>17 DEF vars
<1>18. ASSUME NEW r \in Requests, CleanUpInStore(r) PROVE VersionTypeInv'
  <2>1. /\ store' = Discarded(r) /\ Goes(r, "rejected")
        /\ UNCHANGED <<row, archive, job, handler, recorded, audits>>
    BY <1>18 DEF CleanUpInStore
  <2>2. store' \in Bucket
    BY <2>1, DiscardedTyped DEF Bucket
  <2>3. request' \in [Requests -> Asked]
    BY <2>1, GoesTyped DEF Asked
  <2> QED BY <2>1, <2>2, <2>3 DEF Asked, Bucket
<1>19. ASSUME NEW r \in Requests, CommitRetry(r) PROVE VersionTypeInv'
  <2>1. /\ row' = [row EXCEPT !.status = "uploaded"] /\ request[r].kind = "retry"
        /\ request' = [request EXCEPT ![r] = [kind |-> "none", phase |-> "done", uploading |-> FALSE]]
        /\ UNCHANGED <<archive, store, handler, recorded, audits>>
    BY <1>19 DEF CommitRetry, Ends, NoRequest
  <2>2. ASSUME NEW k \in Jobs, job[k].status = "none",
               job' = [job EXCEPT ![k] = [status |-> "queued", key |-> "retry", attempts |-> 0]]
        PROVE  VersionTypeInv'
    BY <2>1, <2>2
  <2> QED BY <1>19, <2>2 DEF CommitRetry, EnqueueIngest
<1> HIDE DEF VersionTypeInv, RequestInv, IngestInv, StatusInv
<1>20. ASSUME RequestStep PROVE VersionTypeInv'
  BY <1>3, <1>4, <1>5, <1>6, <1>7, <1>8, <1>18, <1>19, <1>20 DEF RequestStep
<1>21. ASSUME IngestStep PROVE VersionTypeInv'
  BY <1>9, <1>10, <1>11, <1>12, <1>13, <1>14, <1>15, <1>16, <1>21 DEF IngestStep
<1> QED
  BY <1>1, <1>2, <1>17, <1>20, <1>21 DEF Next

\* A request finds the version as it loaded it.
LEMMA RequestStepKept ==
    ASSUME OneRequest, UploadInv, [Next]_vars
    PROVE  RequestInv'
<1> USE DatasetVersionAssumption
    DEF UploadInv, VersionTypeInv, TypeOK, RequestInv, IngestInv, OneRequest, Open, Live
<1>1. ASSUME PutObject PROVE RequestInv'
  BY <1>1 DEF PutObject
<1>2. ASSUME NEW p \in Parts, PutPart(p) PROVE RequestInv'
  BY <1>2 DEF PutPart
<1>3. ASSUME NEW r \in Requests,
             NEW kind \in {"finalize", "abort", "cleanup", "retry"}, Begin(r, kind)
      PROVE  RequestInv'
  BY <1>3 DEF RetryAllowed, Awaiting, Begin
<1>4. ASSUME NEW r \in Requests, FinalizeInStore(r) PROVE RequestInv'
  <2>1. request[r].kind = "finalize" /\ request[r].phase = "loaded"
    BY <1>4 DEF FinalizeInStore
  <2>2. UNCHANGED <<row, archive, job, handler, recorded, audits>>
    BY <1>4 DEF FinalizeInStore
  <2>3. CASE store' = [object |-> TRUE, open |-> FALSE, parts |-> {}] /\ Goes(r, "accepted")
    BY <2>1, <2>2, <2>3 DEF Goes
  <2>4. CASE Ends(r) /\ UNCHANGED store
    <3>1. \A q \in Requests : request'[q].kind = "none" /\ request'[q].phase = "done"
      BY <2>1, <2>4 DEF Ends, NoRequest
    <3> QED BY <2>1, <2>2, <2>4, <3>1
  <2>5. CASE /\ ~request[r].uploading
             /\ store' = [store EXCEPT !.object = FALSE] /\ Goes(r, "rejected")
    BY <2>1, <2>2, <2>5 DEF Goes
  <2>6. CASE ~request[r].uploading /\ store.object /\ Goes(r, "accepted") /\ UNCHANGED store
    BY <2>1, <2>2, <2>6 DEF Goes
  <2> QED
    BY <1>4, <2>3, <2>4, <2>5, <2>6 DEF FinalizeInStore
<1>5. ASSUME NEW r \in Requests, AbortInStore(r) PROVE RequestInv'
  BY <1>5 DEF Goes, Discarded, AbortInStore
<1>6. ASSUME NEW r \in Requests, CommitFailed(r) PROVE RequestInv'
  <2>1. Open(r) /\ row.status = "awaiting_upload" /\ ~store.open
    BY <1>6 DEF CommitFailed
  <2>2. \A j \in Jobs : job[j].status = "none" /\ handler[j].doing = "nothing"
    BY <2>1
  <2>3. \A q \in Requests : request'[q].kind = "none" /\ request'[q].phase = "done"
    BY <1>6, <2>1 DEF CommitFailed, Ends, NoRequest
  <2> QED BY <1>6, <2>1, <2>2, <2>3 DEF CommitFailed
<1>7. ASSUME NEW r \in Requests, CommitUploaded(r) PROVE RequestInv'
  <2>1. /\ row' = [status |-> "uploaded", uploading |-> FALSE]
        /\ request' = [request EXCEPT ![r] = [kind |-> "none", phase |-> "done", uploading |-> FALSE]]
        /\ UNCHANGED <<archive, store, handler, recorded, audits>>
    BY <1>7 DEF CommitUploaded, Ends, NoRequest
  <2>2. request[r].phase = "accepted"
    BY <1>7 DEF CommitUploaded
  <2>5. /\ \A q \in Requests : request'[q].kind = "none" /\ request'[q].phase = "done"
        /\ ~store.open
    BY <2>1, <2>2
  <2>3. CASE job' = job
    BY <2>1, <2>3, <2>5
  <2>4. ASSUME NEW k \in Jobs, job[k].status = "none",
               job' = [job EXCEPT ![k] = [status |-> "queued", key |-> "first", attempts |-> 0]]
        PROVE  RequestInv'
    BY <2>1, <2>4, <2>5
  <2> QED BY <1>7, <2>3, <2>4 DEF CommitUploaded, EnqueueIngest
<1>8. ASSUME NEW r \in Requests, LoseRequest(r) PROVE RequestInv'
  BY <1>8 DEF Ends, NoRequest, LoseRequest
<1>9. ASSUME NEW j \in Jobs, ClaimIngest(j) PROVE RequestInv'
  BY <1>9 DEF ClaimIngest
<1>10. ASSUME NEW j \in Jobs, StartIngest(j) PROVE RequestInv'
  BY <1>10 DEF Doing, StartIngest
<1>11. ASSUME NEW j \in Jobs, NEW chunk \in SUBSET Files, RecordChunk(j, chunk) PROVE RequestInv'
  BY <1>11 DEF Doing, Readable, RecordChunk
<1>12. ASSUME NEW j \in Jobs, FinishIngest(j) PROVE RequestInv'
  BY <1>12 DEF Doing, Readable, FinishIngest
<1>13. ASSUME NEW j \in Jobs, CompleteJob(j) PROVE RequestInv'
  BY <1>13 DEF Doing, Idle, CompleteJob
<1>14. ASSUME NEW j \in Jobs, FailJob(j) PROVE RequestInv'
  BY <1>14 DEF Fails, Doing, Readable, Idle, FailJob
<1>15. ASSUME NEW j \in Jobs, Propagate(j) PROVE RequestInv'
  BY <1>15 DEF Doing, Idle, Propagate
<1>16. ASSUME NEW j \in Jobs, LoseWorker(j) PROVE RequestInv'
  BY <1>16 DEF Idle, LoseWorker
<1>17. CASE UNCHANGED vars
  BY <1>17 DEF vars
<1>18. ASSUME NEW r \in Requests, CleanUpInStore(r) PROVE RequestInv'
  BY <1>18 DEF Goes, Discarded, CleanUpInStore
<1>19. ASSUME NEW r \in Requests, CommitRetry(r) PROVE RequestInv'
  <2>1. /\ row' = [row EXCEPT !.status = "uploaded"] /\ request[r].kind = "retry"
        /\ request' = [request EXCEPT ![r] = [kind |-> "none", phase |-> "done", uploading |-> FALSE]]
        /\ UNCHANGED <<archive, store, handler, recorded, audits>>
    BY <1>19 DEF CommitRetry, Ends, NoRequest
  <2>3. /\ \A q \in Requests : request'[q].kind = "none" /\ request'[q].phase = "done"
        /\ ~row.uploading /\ ~store.open
    BY <2>1
  <2>2. ASSUME NEW k \in Jobs, job[k].status = "none",
               job' = [job EXCEPT ![k] = [status |-> "queued", key |-> "retry", attempts |-> 0]]
        PROVE  RequestInv'
    BY <2>1, <2>2, <2>3
  <2> QED BY <1>19, <2>2 DEF CommitRetry, EnqueueIngest
<1> HIDE DEF VersionTypeInv, RequestInv, IngestInv
<1>20. ASSUME RequestStep PROVE RequestInv'
  BY <1>3, <1>4, <1>5, <1>6, <1>7, <1>8, <1>18, <1>19, <1>20 DEF RequestStep
<1>21. ASSUME IngestStep PROVE RequestInv'
  BY <1>9, <1>10, <1>11, <1>12, <1>13, <1>14, <1>15, <1>16, <1>21 DEF IngestStep
<1> QED
  BY <1>1, <1>2, <1>17, <1>20, <1>21 DEF Next

\* The archive stays where its ingestion expects it.
LEMMA IngestStepKept ==
    ASSUME OneRequest, UploadInv, [Next]_vars
    PROVE  IngestInv'
<1> USE DatasetVersionAssumption
    DEF UploadInv, VersionTypeInv, TypeOK, RequestInv, IngestInv, OneRequest, Open, Live
<1>1. ASSUME PutObject PROVE IngestInv'
  BY <1>1 DEF PutObject
<1>2. ASSUME NEW p \in Parts, PutPart(p) PROVE IngestInv'
  BY <1>2 DEF PutPart
<1>3. ASSUME NEW r \in Requests,
             NEW kind \in {"finalize", "abort", "cleanup", "retry"}, Begin(r, kind)
      PROVE  IngestInv'
  BY <1>3 DEF RetryAllowed, Awaiting, Begin
<1>4. ASSUME NEW r \in Requests, FinalizeInStore(r) PROVE IngestInv'
  BY <1>4 DEF Ends, Goes, NoRequest, FinalizeInStore
<1>5. ASSUME NEW r \in Requests, AbortInStore(r) PROVE IngestInv'
  BY <1>5 DEF Goes, Discarded, AbortInStore
<1>6. ASSUME NEW r \in Requests, CommitFailed(r) PROVE IngestInv'
  BY <1>6 DEF Ends, NoRequest, CommitFailed
<1>7. ASSUME NEW r \in Requests, CommitUploaded(r) PROVE IngestInv'
  <2>1. /\ row' = [status |-> "uploaded", uploading |-> FALSE]
        /\ request' = [request EXCEPT ![r] = [kind |-> "none", phase |-> "done", uploading |-> FALSE]]
        /\ UNCHANGED <<archive, store, handler, recorded, audits>>
    BY <1>7 DEF CommitUploaded, Ends, NoRequest
  <2>2. request[r].phase = "accepted"
    BY <1>7 DEF CommitUploaded
  <2>3. CASE job' = job
    BY <2>1, <2>2, <2>3
  <2>4. ASSUME NEW k \in Jobs, job[k].status = "none",
               job' = [job EXCEPT ![k] = [status |-> "queued", key |-> "first", attempts |-> 0]]
        PROVE  IngestInv'
    BY <2>1, <2>2, <2>4
  <2> QED BY <1>7, <2>3, <2>4 DEF CommitUploaded, EnqueueIngest
<1>8. ASSUME NEW r \in Requests, LoseRequest(r) PROVE IngestInv'
  BY <1>8 DEF Ends, NoRequest, LoseRequest
<1>9. ASSUME NEW j \in Jobs, ClaimIngest(j) PROVE IngestInv'
  BY <1>9 DEF ClaimIngest
<1>10. ASSUME NEW j \in Jobs, StartIngest(j) PROVE IngestInv'
  <2>1. /\ UNCHANGED <<archive, store, request, job, recorded, audits>>
        /\ handler[j].doing = "starting" /\ job[j].status = "running"
    BY <1>10 DEF Doing, StartIngest
  <2>2. CASE handler' = [handler EXCEPT ![j].doing = "returned"] /\ row' = row
    BY <2>1, <2>2
  <2>3. CASE /\ handler' = [handler EXCEPT ![j] = [doing |-> "ingesting", todo |-> Files \ recorded]]
             /\ row' = [row EXCEPT !.status = "ingesting"]
    <3>1. \A i \in Jobs : handler'[i].doing = "ingesting" /\ i # j => handler[i].doing = "ingesting"
                                                          /\ handler'[i].todo = handler[i].todo
      BY <2>3
    <3>2. handler'[j].todo = Files \ recorded
      BY <2>3
    <3> QED BY <2>1, <2>3, <3>1, <3>2
  <2> QED BY <1>10, <2>2, <2>3 DEF StartIngest
<1>11. ASSUME NEW j \in Jobs, NEW chunk \in SUBSET Files, RecordChunk(j, chunk) PROVE IngestInv'
  BY <1>11 DEF Doing, Readable, RecordChunk
<1>12. ASSUME NEW j \in Jobs, FinishIngest(j) PROVE IngestInv'
  BY <1>12 DEF Doing, Readable, FinishIngest
<1>13. ASSUME NEW j \in Jobs, CompleteJob(j) PROVE IngestInv'
  BY <1>13 DEF Doing, Idle, CompleteJob
<1>14. ASSUME NEW j \in Jobs, FailJob(j) PROVE IngestInv'
  <2>1. /\ handler[j].doing \in {"starting", "ingesting", "returned"}
        /\ row.status = "ready" => MayFailWhenReady
    BY <1>14 DEF FailJob, Fails
  <2>2. UNCHANGED <<row, archive, store, request, recorded, audits>>
    BY <1>14 DEF FailJob
  <2>3. CASE /\ job' = [job EXCEPT ![j].status = "failed"]
             /\ handler' = [handler EXCEPT ![j] = [doing |-> "failing", todo |-> {}]]
    BY <2>1, <2>2, <2>3
  <2>4. CASE /\ job[j].attempts # MaxAttempts
             /\ job' = [job EXCEPT ![j].status = "queued"]
             /\ handler' = [handler EXCEPT ![j] = Idle]
    BY <2>1, <2>2, <2>4 DEF Idle
  <2> QED BY <1>14, <2>3, <2>4 DEF FailJob
<1>15. ASSUME NEW j \in Jobs, Propagate(j) PROVE IngestInv'
  BY <1>15 DEF Doing, Idle, Propagate
<1>16. ASSUME NEW j \in Jobs, LoseWorker(j) PROVE IngestInv'
  BY <1>16 DEF Idle, LoseWorker
<1>17. CASE UNCHANGED vars
  BY <1>17 DEF vars
<1>18. ASSUME NEW r \in Requests, CleanUpInStore(r) PROVE IngestInv'
  BY <1>18 DEF Goes, Discarded, CleanUpInStore
<1>19. ASSUME NEW r \in Requests, CommitRetry(r) PROVE IngestInv'
  <2>1. /\ row' = [row EXCEPT !.status = "uploaded"] /\ request[r].kind = "retry"
        /\ request' = [request EXCEPT ![r] = [kind |-> "none", phase |-> "done", uploading |-> FALSE]]
        /\ UNCHANGED <<archive, store, handler, recorded, audits>>
    BY <1>19 DEF CommitRetry, Ends, NoRequest
  <2>2. ASSUME NEW k \in Jobs, job[k].status = "none",
               job' = [job EXCEPT ![k] = [status |-> "queued", key |-> "retry", attempts |-> 0]]
        PROVE  IngestInv'
    BY <2>1, <2>2
  <2> QED BY <1>19, <2>2 DEF CommitRetry, EnqueueIngest
<1> HIDE DEF VersionTypeInv, RequestInv, IngestInv
<1>20. ASSUME RequestStep PROVE IngestInv'
  BY <1>3, <1>4, <1>5, <1>6, <1>7, <1>8, <1>18, <1>19, <1>20 DEF RequestStep
<1>21. ASSUME IngestStep PROVE IngestInv'
  BY <1>9, <1>10, <1>11, <1>12, <1>13, <1>14, <1>15, <1>16, <1>21 DEF IngestStep
<1> QED
  BY <1>1, <1>2, <1>17, <1>20, <1>21 DEF Next

\* Images are ingested by one job at a time.
LEMMA ImageStepKept ==
    ASSUME Serial, VersionInv, [Next]_vars
    PROVE  ImageInv'
<1> USE DatasetVersionAssumption
    DEF VersionInv, UploadInv, VersionTypeInv, TypeOK, RequestInv, IngestInv, ImageInv, StatusInv,
        Serial, OneRequest, Open, Live
<1>1. ASSUME PutObject PROVE ImageInv'
  BY <1>1 DEF PutObject
<1>2. ASSUME NEW p \in Parts, PutPart(p) PROVE ImageInv'
  BY <1>2 DEF PutPart
<1>3. ASSUME NEW r \in Requests,
             NEW kind \in {"finalize", "abort", "cleanup", "retry"}, Begin(r, kind)
      PROVE  ImageInv'
  BY <1>3 DEF RetryAllowed, Awaiting, Begin
<1>4. ASSUME NEW r \in Requests, FinalizeInStore(r) PROVE ImageInv'
  <2>1. request[r].kind = "finalize" /\ UNCHANGED <<row, archive, job, handler, recorded, audits>>
    BY <1>4 DEF FinalizeInStore
  <2>2. Ends(r) \/ Goes(r, "accepted") \/ Goes(r, "rejected")
    BY <1>4 DEF FinalizeInStore
  <2>3. \A q \in Requests : request'[q].kind = "retry" => request[q].kind = "retry"
    BY <2>2 DEF Ends, Goes, NoRequest
  <2> QED BY <2>1, <2>3
<1>5. ASSUME NEW r \in Requests, AbortInStore(r) PROVE ImageInv'
  BY <1>5 DEF Goes, Discarded, AbortInStore
<1>6. ASSUME NEW r \in Requests, CommitFailed(r) PROVE ImageInv'
  BY <1>6 DEF Ends, NoRequest, CommitFailed
<1>7. ASSUME NEW r \in Requests, CommitUploaded(r) PROVE ImageInv'
  <2>1. /\ row' = [status |-> "uploaded", uploading |-> FALSE]
        /\ request' = [request EXCEPT ![r] = [kind |-> "none", phase |-> "done", uploading |-> FALSE]]
        /\ UNCHANGED <<archive, store, handler, recorded, audits>>
    BY <1>7 DEF CommitUploaded, Ends, NoRequest
  <2>2. request[r].phase = "accepted"
    BY <1>7 DEF CommitUploaded
  <2>3. CASE job' = job
    BY <2>1, <2>2, <2>3
  <2>4. ASSUME NEW k \in Jobs, job[k].status = "none",
               job' = [job EXCEPT ![k] = [status |-> "queued", key |-> "first", attempts |-> 0]]
        PROVE  ImageInv'
    BY <2>1, <2>2, <2>4
  <2> QED BY <1>7, <2>3, <2>4 DEF CommitUploaded, EnqueueIngest
<1>8. ASSUME NEW r \in Requests, LoseRequest(r) PROVE ImageInv'
  BY <1>8 DEF Ends, NoRequest, LoseRequest
<1>9. ASSUME NEW j \in Jobs, ClaimIngest(j) PROVE ImageInv'
  BY <1>9 DEF ClaimIngest
<1>10. ASSUME NEW j \in Jobs, StartIngest(j) PROVE ImageInv'
  <2>1. /\ UNCHANGED <<archive, store, request, job, recorded, audits>>
        /\ handler[j].doing = "starting" /\ job[j].status = "running"
    BY <1>10 DEF Doing, StartIngest
  <2>2. CASE handler' = [handler EXCEPT ![j].doing = "returned"] /\ row' = row
    BY <2>1, <2>2
  <2>3. CASE /\ handler' = [handler EXCEPT ![j] = [doing |-> "ingesting", todo |-> Files \ recorded]]
             /\ row' = [row EXCEPT !.status = "ingesting"]
    <3>1. \A i \in Jobs : handler'[i].doing = "ingesting" /\ i # j => handler[i].doing = "ingesting"
                                                          /\ handler'[i].todo = handler[i].todo
      BY <2>3
    <3>2. handler'[j].todo = Files \ recorded
      BY <2>3
    <3> QED BY <2>1, <2>3, <3>1, <3>2
  <2> QED BY <1>10, <2>2, <2>3 DEF StartIngest
<1>11. ASSUME NEW j \in Jobs, NEW chunk \in SUBSET Files, RecordChunk(j, chunk) PROVE ImageInv'
  BY <1>11 DEF Doing, Readable, RecordChunk
<1>12. ASSUME NEW j \in Jobs, FinishIngest(j) PROVE ImageInv'
  BY <1>12 DEF Doing, Readable, FinishIngest
<1>13. ASSUME NEW j \in Jobs, CompleteJob(j) PROVE ImageInv'
  BY <1>13 DEF Doing, Idle, CompleteJob
<1>14. ASSUME NEW j \in Jobs, FailJob(j) PROVE ImageInv'
  <2>1. /\ handler[j].doing \in {"starting", "ingesting", "returned"}
        /\ row.status = "ready" => MayFailWhenReady
    BY <1>14 DEF FailJob, Fails
  <2>2. UNCHANGED <<row, archive, store, request, recorded, audits>>
    BY <1>14 DEF FailJob
  <2>3. CASE /\ job' = [job EXCEPT ![j].status = "failed"]
             /\ handler' = [handler EXCEPT ![j] = [doing |-> "failing", todo |-> {}]]
    BY <2>1, <2>2, <2>3
  <2>4. CASE /\ job[j].attempts # MaxAttempts
             /\ job' = [job EXCEPT ![j].status = "queued"]
             /\ handler' = [handler EXCEPT ![j] = Idle]
    BY <2>1, <2>2, <2>4 DEF Idle
  <2> QED BY <1>14, <2>3, <2>4 DEF FailJob
<1>15. ASSUME NEW j \in Jobs, Propagate(j) PROVE ImageInv'
  BY <1>15 DEF Doing, Idle, Propagate
<1>16. ASSUME NEW j \in Jobs, LoseWorker(j) PROVE ImageInv'
  BY <1>16 DEF Idle, LoseWorker
<1>17. CASE UNCHANGED vars
  BY <1>17 DEF vars
<1>18. ASSUME NEW r \in Requests, CleanUpInStore(r) PROVE ImageInv'
  BY <1>18 DEF Goes, Discarded, CleanUpInStore
<1>19. ASSUME NEW r \in Requests, CommitRetry(r) PROVE ImageInv'
  <2>1. /\ row' = [row EXCEPT !.status = "uploaded"] /\ request[r].kind = "retry"
        /\ request' = [request EXCEPT ![r] = [kind |-> "none", phase |-> "done", uploading |-> FALSE]]
        /\ UNCHANGED <<archive, store, handler, recorded, audits>>
    BY <1>19 DEF CommitRetry, Ends, NoRequest
  <2>2. ASSUME NEW k \in Jobs, job[k].status = "none",
               job' = [job EXCEPT ![k] = [status |-> "queued", key |-> "retry", attempts |-> 0]]
        PROVE  ImageInv'
    BY <2>1, <2>2
  <2> QED BY <1>19, <2>2 DEF CommitRetry, EnqueueIngest
<1> HIDE DEF VersionTypeInv, RequestInv, IngestInv, ImageInv, StatusInv
<1>20. ASSUME RequestStep PROVE ImageInv'
  BY <1>3, <1>4, <1>5, <1>6, <1>7, <1>8, <1>18, <1>19, <1>20 DEF RequestStep
<1>21. ASSUME IngestStep PROVE ImageInv'
  BY <1>9, <1>10, <1>11, <1>12, <1>13, <1>14, <1>15, <1>16, <1>21 DEF IngestStep
<1> QED
  BY <1>1, <1>2, <1>17, <1>20, <1>21 DEF Next

\* A version that is ready stays so.
LEMMA StatusStepKept ==
    ASSUME Serial, VersionInv, [Next]_vars
    PROVE  StatusInv'
<1> USE DatasetVersionAssumption
    DEF VersionInv, UploadInv, VersionTypeInv, TypeOK, RequestInv, IngestInv, ImageInv, StatusInv,
        Serial, OneRequest, Open, Live
<1>1. ASSUME PutObject PROVE StatusInv'
  BY <1>1 DEF PutObject
<1>2. ASSUME NEW p \in Parts, PutPart(p) PROVE StatusInv'
  BY <1>2 DEF PutPart
<1>3. ASSUME NEW r \in Requests,
             NEW kind \in {"finalize", "abort", "cleanup", "retry"}, Begin(r, kind)
      PROVE  StatusInv'
  BY <1>3 DEF RetryAllowed, Awaiting, Begin
<1>4. ASSUME NEW r \in Requests, FinalizeInStore(r) PROVE StatusInv'
  BY <1>4 DEF Ends, Goes, NoRequest, FinalizeInStore
<1>5. ASSUME NEW r \in Requests, AbortInStore(r) PROVE StatusInv'
  BY <1>5 DEF Goes, Discarded, AbortInStore
<1>6. ASSUME NEW r \in Requests, CommitFailed(r) PROVE StatusInv'
  <2>1. Open(r) /\ row.status = "awaiting_upload" /\ ~store.open
    BY <1>6 DEF CommitFailed
  <2>2. \A j \in Jobs : job[j].status = "none" /\ handler[j].doing = "nothing"
    BY <2>1
  <2>3. \A q \in Requests : request'[q].kind = "none" /\ request'[q].phase = "done"
    BY <1>6, <2>1 DEF CommitFailed, Ends, NoRequest
  <2> QED BY <1>6, <2>1, <2>2, <2>3 DEF CommitFailed
<1>7. ASSUME NEW r \in Requests, CommitUploaded(r) PROVE StatusInv'
  <2>1. /\ row' = [status |-> "uploaded", uploading |-> FALSE]
        /\ request' = [request EXCEPT ![r] = [kind |-> "none", phase |-> "done", uploading |-> FALSE]]
        /\ UNCHANGED <<archive, store, handler, recorded, audits>>
    BY <1>7 DEF CommitUploaded, Ends, NoRequest
  <2>2. request[r].phase = "accepted"
    BY <1>7 DEF CommitUploaded
  <2>3. CASE job' = job
    BY <2>1, <2>2, <2>3
  <2>4. ASSUME NEW k \in Jobs, job[k].status = "none",
               job' = [job EXCEPT ![k] = [status |-> "queued", key |-> "first", attempts |-> 0]]
        PROVE  StatusInv'
    BY <2>1, <2>2, <2>4
  <2> QED BY <1>7, <2>3, <2>4 DEF CommitUploaded, EnqueueIngest
<1>8. ASSUME NEW r \in Requests, LoseRequest(r) PROVE StatusInv'
  BY <1>8 DEF Ends, NoRequest, LoseRequest
<1>9. ASSUME NEW j \in Jobs, ClaimIngest(j) PROVE StatusInv'
  BY <1>9 DEF ClaimIngest
<1>10. ASSUME NEW j \in Jobs, StartIngest(j) PROVE StatusInv'
  BY <1>10 DEF Doing, StartIngest
<1>11. ASSUME NEW j \in Jobs, NEW chunk \in SUBSET Files, RecordChunk(j, chunk) PROVE StatusInv'
  BY <1>11 DEF Doing, Readable, RecordChunk
<1>12. ASSUME NEW j \in Jobs, FinishIngest(j) PROVE StatusInv'
  <2>1. CASE archive.contents = "images"
    <3>1. job[j].status = "running" /\ row.status # "ready" /\ recorded = Files
      <4>1. handler[j].doing = "ingesting" /\ handler[j].todo = {}
        BY <1>12 DEF FinishIngest, Doing
      <4>2. handler[j].todo = Files \ recorded /\ recorded \subseteq Files
        BY <2>1, <4>1
      <4>3. recorded = Files
        BY <4>1, <4>2
      <4> QED BY <4>1, <4>3
    <3>2. row' = [row EXCEPT !.status = "ready"] /\ audits' = 1
      BY <1>12, <2>1, <3>1 DEF FinishIngest
    <3>3. \A i \in Jobs : handler[i].doing # "failing" /\ (i # j => handler[i].doing # "ingesting")
      BY <2>1, <3>1
    <3>4. \A i \in Jobs : handler'[i].doing \notin {"failing", "ingesting"}
      BY <1>12, <3>3 DEF FinishIngest
    <3> QED BY <1>12, <2>1, <3>1, <3>2, <3>4 DEF FinishIngest
  <2>2. CASE archive.contents # "images"
    BY <1>12, <2>2 DEF FinishIngest, Doing, Readable
  <2> QED BY <2>1, <2>2
<1>13. ASSUME NEW j \in Jobs, CompleteJob(j) PROVE StatusInv'
  BY <1>13 DEF Doing, Idle, CompleteJob
<1>14. ASSUME NEW j \in Jobs, FailJob(j) PROVE StatusInv'
  <2>1. /\ handler[j].doing \in {"starting", "ingesting", "returned"}
        /\ row.status = "ready" => MayFailWhenReady
    BY <1>14 DEF FailJob, Fails
  <2>2. UNCHANGED <<row, archive, store, request, recorded, audits>>
    BY <1>14 DEF FailJob
  <2>3. CASE /\ job' = [job EXCEPT ![j].status = "failed"]
             /\ handler' = [handler EXCEPT ![j] = [doing |-> "failing", todo |-> {}]]
    BY <2>1, <2>2, <2>3
  <2>4. CASE /\ job[j].attempts # MaxAttempts
             /\ job' = [job EXCEPT ![j].status = "queued"]
             /\ handler' = [handler EXCEPT ![j] = Idle]
    BY <2>1, <2>2, <2>4 DEF Idle
  <2> QED BY <1>14, <2>3, <2>4 DEF FailJob
<1>15. ASSUME NEW j \in Jobs, Propagate(j) PROVE StatusInv'
  BY <1>15 DEF Doing, Idle, Propagate
<1>16. ASSUME NEW j \in Jobs, LoseWorker(j) PROVE StatusInv'
  BY <1>16 DEF Idle, LoseWorker
<1>17. CASE UNCHANGED vars
  BY <1>17 DEF vars
<1>18. ASSUME NEW r \in Requests, CleanUpInStore(r) PROVE StatusInv'
  BY <1>18 DEF Goes, Discarded, CleanUpInStore
<1>19. ASSUME NEW r \in Requests, CommitRetry(r) PROVE StatusInv'
  <2>1. /\ row' = [row EXCEPT !.status = "uploaded"] /\ request[r].kind = "retry"
        /\ request' = [request EXCEPT ![r] = [kind |-> "none", phase |-> "done", uploading |-> FALSE]]
        /\ UNCHANGED <<archive, store, handler, recorded, audits>>
    BY <1>19 DEF CommitRetry, Ends, NoRequest
  <2>2. ASSUME NEW k \in Jobs, job[k].status = "none",
               job' = [job EXCEPT ![k] = [status |-> "queued", key |-> "retry", attempts |-> 0]]
        PROVE  StatusInv'
    BY <2>1, <2>2
  <2> QED BY <1>19, <2>2 DEF CommitRetry, EnqueueIngest
<1> HIDE DEF VersionTypeInv, RequestInv, IngestInv, ImageInv, StatusInv
<1>20. ASSUME RequestStep PROVE StatusInv'
  BY <1>3, <1>4, <1>5, <1>6, <1>7, <1>8, <1>18, <1>19, <1>20 DEF RequestStep
<1>21. ASSUME IngestStep PROVE StatusInv'
  BY <1>9, <1>10, <1>11, <1>12, <1>13, <1>14, <1>15, <1>16, <1>21 DEF IngestStep
<1> QED
  BY <1>1, <1>2, <1>17, <1>20, <1>21 DEF Next

-----------------------------------------------------------------------------
LEMMA VersionTypeAlways == Spec => []VersionTypeInv
<1>1. Init => VersionTypeInv BY VersionInitially DEF VersionInv, UploadInv
<1>2. VersionTypeInv /\ [Next]_vars => VersionTypeInv' BY TypeStep
<1> QED BY <1>1, <1>2, PTL DEF Spec

\* Requests and jobs keep what they need of each other.
LEMMA UploadStep ==
    ASSUME OneRequest, UploadInv, [Next]_vars
    PROVE  UploadInv'
<1>1. VersionTypeInv' BY TypeStep DEF UploadInv
<1> QED BY <1>1, RequestStepKept, IngestStepKept DEF UploadInv

LEMMA UploadAlways ==
    ASSUME OneRequest
    PROVE  Spec => []UploadInv
<1>1. Init => UploadInv BY VersionInitially DEF VersionInv
<1>2. UploadInv /\ [Next]_vars => UploadInv' BY UploadStep
<1> QED BY <1>1, <1>2, PTL DEF Spec

LEMMA VersionAlways ==
    ASSUME Serial
    PROVE  Spec => []VersionInv
<1>1. VersionInv /\ [Next]_vars => VersionInv'
  <2> SUFFICES ASSUME VersionInv, [Next]_vars PROVE VersionInv'
    OBVIOUS
  <2>1. UploadInv' BY UploadStep DEF VersionInv, Serial
  <2> QED BY <2>1, ImageStepKept, StatusStepKept DEF VersionInv
<1> QED BY <1>1, VersionInitially, PTL DEF Spec

\* Rows, requests, jobs and workers have the values the code gives them, and no job is
\* attempted more often than max_attempts, in every deployment.
THEOREM VersionTypeCorrect == Spec => []TypeOK
<1>1. VersionTypeInv => TypeOK BY DEF VersionTypeInv
<1> QED BY <1>1, VersionTypeAlways, PTL

\* An ingestion never waits for an archive that a rejection or an abort has deleted.
THEOREM ArchiveStays ==
    ASSUME OneRequest
    PROVE  Spec => []IngestionHasArchive
<1>1. UploadInv => IngestionHasArchive
  BY DEF UploadInv, IngestInv, IngestionHasArchive
<1> QED BY <1>1, UploadAlways, PTL

\* However an upload ends, and wherever a request was lost on the way, the bucket keeps no
\* parts and the row no upload id.
THEOREM UploadsAreClosed ==
    ASSUME OneRequest
    PROVE  Spec => []NoUploadLeftOpen
<1>1. UploadInv => NoUploadLeftOpen
  BY DEF UploadInv, VersionTypeInv, TypeOK, RequestInv, NoUploadLeftOpen
<1> QED BY <1>1, UploadAlways, PTL

\* A version that says ready has every file and one audit, however often workers died.
THEOREM ReadyMeansWhole ==
    ASSUME Serial
    PROVE  Spec => []ReadyIsWhole
<1>1. VersionInv => ReadyIsWhole
  BY DEF VersionInv, StatusInv, ReadyIsWhole
<1> QED BY <1>1, VersionAlways, PTL

\* No report of a job, no retry and no clean-up takes the readiness of a version back.
THEOREM ReadyStays ==
    ASSUME Serial
    PROVE  Spec => ReadyIsFinal
<1>1. VersionInv /\ [Next]_vars => (row.status = "ready" => row'.status = "ready")
  <2> SUFFICES ASSUME VersionInv, [Next]_vars, row.status = "ready"
               PROVE  row'.status = "ready"
    OBVIOUS
  <2>1. \A r \in Requests : ~Open(r)
    BY DEF VersionInv, UploadInv, RequestInv, ImageInv, StatusInv, Open
  <2>2. \A j \in Jobs : handler[j].doing \notin {"ingesting", "failing"}
    BY DEF VersionInv, StatusInv
  <2>3. ASSUME NEW r \in Requests, FinalizeInStore(r) \/ AbortInStore(r) \/ CleanUpInStore(r)
                                    \/ CommitFailed(r) \/ CommitUploaded(r) \/ CommitRetry(r)
                                    \/ LoseRequest(r)
        PROVE  FALSE
    BY <2>1, <2>3 DEF VersionInv, UploadInv, RequestInv, Open, FinalizeInStore, AbortInStore,
                      CleanUpInStore, CommitFailed, CommitUploaded, CommitRetry, LoseRequest
  <2>4. ASSUME NEW j \in Jobs, StartIngest(j) PROVE row' = row
    BY <2>4 DEF StartIngest
  <2>5. ASSUME NEW j \in Jobs, FinishIngest(j) \/ Propagate(j) PROVE FALSE
    BY <2>2, <2>5 DEF FinishIngest, Propagate, Doing
  <2>6. ASSUME \/ PutObject
               \/ \E p \in Parts : PutPart(p)
               \/ \E r \in Requests, kind \in {"finalize", "abort", "cleanup", "retry"} : Begin(r, kind)
               \/ \E j \in Jobs : ClaimIngest(j) \/ CompleteJob(j) \/ FailJob(j) \/ LoseWorker(j)
               \/ \E j \in Jobs, chunk \in SUBSET Files : RecordChunk(j, chunk)
               \/ UNCHANGED vars
        PROVE  row' = row
    BY <2>6 DEF PutObject, PutPart, Begin, ClaimIngest, CompleteJob, FailJob, LoseWorker,
                RecordChunk, vars
  <2> QED BY <2>3, <2>4, <2>5, <2>6 DEF Next, RequestStep, IngestStep
<1> QED BY <1>1, VersionAlways, PTL DEF Spec, ReadyIsFinal
=============================================================================
