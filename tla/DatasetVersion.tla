--------------------------- MODULE DatasetVersion ---------------------------
(***************************************************************************)
(* One dataset version from its upload to its ingestion: the row of        *)
(* dataset_versions, the archive in the object store, the requests that    *)
(* finalize, abort or retry it, the clean-up of abandoned uploads, and the *)
(* ingestion jobs.                                                         *)
(*                                                                         *)
(* A request is three steps, because the store is not part of its          *)
(* transaction: it loads and checks the row, acts on the store, and        *)
(* commits.  It may die (or its commit fail) between any two of them.  An  *)
(* ingestion job is claimed, failed and re-queued as module JobQueue says  *)
(* when live workers do not stall: one worker at a time has it.            *)
(*                                                                         *)
(* The three Boolean constants admit what the code does not rule out and   *)
(* does not survive; the properties below hold without it.                 *)
(***************************************************************************)
EXTENDS Integers, FiniteSets

CONSTANTS
    Requests,        \* the requests and clean-ups that may be in progress
    Parts,           \* the parts of a multipart upload
    Files,           \* the files of the archive
    Jobs,            \* bound on the ingestion jobs of the version
    MaxAttempts,     \* max_attempts of a job
    RequestsOverlap, \* may two requests (or a request and the clean-up) overlap?
    MayFailWhenReady,\* may a job of a ready version raise (its only query, or jobs.complete)?
    MayRetryEarly    \* may retry-ingest come while a job of the failed version is not over?

ASSUME DatasetVersionAssumption ==
    /\ MaxAttempts \in Nat \ {0}
    /\ {RequestsOverlap, MayFailWhenReady, MayRetryEarly} \subseteq BOOLEAN

VARIABLES
    row,       \* status of the version and whether upload_id is set
    archive,   \* what the user uploads: mode and contents
    store,     \* the archive object, and the multipart upload with its parts
    request,   \* what each open request is doing
    job,       \* rows of the ingestion jobs
    handler,   \* what the worker of each job is doing, and the files it has still to record
    recorded,  \* paths in dataset_files
    audits     \* how many audits ingestion has started

vars == <<row, archive, store, request, job, handler, recorded, audits>>

Statuses  == {"awaiting_upload", "uploaded", "ingesting", "ready", "failed"}
Contents  == {"images", "no_images", "unreadable", "not_a_zip"}
NoRequest == [kind |-> "none", phase |-> "done", uploading |-> FALSE]
NoJob     == [status |-> "none", key |-> "none", attempts |-> 0]
Idle      == [doing |-> "nothing", todo |-> {}]

\* create_version with the upload plan: one presigned PUT, or a multipart upload.
Init ==
    /\ archive \in [multipart : BOOLEAN, contents : Contents]
    /\ row = [status |-> "awaiting_upload", uploading |-> archive.multipart]
    /\ store = [object |-> FALSE, open |-> archive.multipart, parts |-> {}]
    /\ request = [r \in Requests |-> NoRequest]
    /\ job = [j \in Jobs |-> NoJob]
    /\ handler = [j \in Jobs |-> Idle]
    /\ recorded = {}
    /\ audits = 0

-----------------------------------------------------------------------------
(* Browser: straight to the bucket. A presigned URL outlives the upload.   *)

PutObject ==
    /\ ~archive.multipart
    /\ store' = [store EXCEPT !.object = TRUE]
    /\ UNCHANGED <<row, archive, request, job, handler, recorded, audits>>

PutPart(p) ==
    /\ store.open
    /\ store' = [store EXCEPT !.parts = @ \cup {p}]
    /\ UNCHANGED <<row, archive, request, job, handler, recorded, audits>>

-----------------------------------------------------------------------------
(* Requests.                                                               *)

Open(r) == request[r].kind # "none"

\* Mutant: retry_ingest does not ask the store whether the archive is there.
RetryAllowed_NoLook ==
    /\ row.status = "failed" /\ ~row.uploading
    /\ MayRetryEarly \/ \A j \in Jobs : job[j].status \notin {"queued", "running"}

\* The checks of retry_ingest.
RetryAllowed ==
    /\ row.status = "failed" /\ ~row.uploading /\ store.object
    /\ MayRetryEarly \/ \A j \in Jobs : job[j].status \notin {"queued", "running"}

\* _awaiting for finalize and abort; maintenance asks for the same status.
Awaiting == row.status = "awaiting_upload"

Begin(r, kind) ==
    /\ ~Open(r)
    /\ RequestsOverlap \/ \A q \in Requests : ~Open(q)
    /\ IF kind = "retry" THEN RetryAllowed ELSE Awaiting
    /\ request' = [request EXCEPT ![r] =
                      [kind |-> kind, phase |-> "loaded", uploading |-> row.uploading]]
    /\ UNCHANGED <<row, archive, store, job, handler, recorded, audits>>

Ends(r)    == request' = [request EXCEPT ![r] = NoRequest]
Goes(r, p) == request' = [request EXCEPT ![r].phase = p]

\* finalize_upload up to its commit: complete the multipart upload (an upload that is gone is
\* an error), or read the head of the object and reject what is no ZIP file.
FinalizeInStore(r) ==
    /\ request[r].kind = "finalize" /\ request[r].phase = "loaded"
    /\ IF request[r].uploading
       THEN \/ /\ store.open /\ store.parts = Parts
               /\ store' = [object |-> TRUE, open |-> FALSE, parts |-> {}]
               /\ Goes(r, "accepted")
            \/ /\ ~(store.open /\ store.parts = Parts)
               /\ Ends(r) /\ UNCHANGED store
       ELSE \/ /\ ~store.object
               /\ Ends(r) /\ UNCHANGED store
            \/ /\ store.object /\ archive.contents = "not_a_zip"
               /\ store' = [store EXCEPT !.object = FALSE]
               /\ Goes(r, "rejected")
            \/ /\ store.object /\ archive.contents # "not_a_zip"
               /\ Goes(r, "accepted") /\ UNCHANGED store
    /\ UNCHANGED <<row, archive, job, handler, recorded, audits>>

\* abort_multipart_upload of the upload the request has read from the row, if any.
Discarded(r) == IF request[r].uploading THEN [store EXCEPT !.open = FALSE, !.parts = {}] ELSE store

\* abort_upload up to its commit.
AbortInStore(r) ==
    /\ request[r].kind = "abort" /\ request[r].phase = "loaded"
    /\ store' = [Discarded(r) EXCEPT !.object = FALSE]
    /\ Goes(r, "rejected")
    /\ UNCHANGED <<row, archive, job, handler, recorded, audits>>

\* maintenance up to its commit: an archive uploaded in one piece stays where it is.
CleanUpInStore(r) ==
    /\ request[r].kind = "cleanup" /\ request[r].phase = "loaded"
    /\ store' = Discarded(r)
    /\ Goes(r, "rejected")
    /\ UNCHANGED <<row, archive, job, handler, recorded, audits>>

\* The commit of abort_upload, _reject and maintenance.
CommitFailed(r) ==
    /\ request[r].phase = "rejected"
    /\ row' = [status |-> "failed", uploading |-> FALSE]
    /\ Ends(r)
    /\ UNCHANGED <<archive, store, job, handler, recorded, audits>>

\* enqueue_ingest: a version is enqueued once by its finalization, and again by each retry
\* (retries that come within one second of each other are left out).
EnqueueIngest(key) ==
    IF key = "first" /\ \E j \in Jobs : job[j].key = key THEN job' = job
    ELSE \E j \in Jobs :
            /\ job[j].status = "none"
            /\ job' = [job EXCEPT ![j] = [status |-> "queued", key |-> key, attempts |-> 0]]

\* Mutant: the upload id is kept.
CommitUploaded_KeepsId(r) ==
    /\ request[r].phase = "accepted"
    /\ EnqueueIngest("first")
    /\ row' = [row EXCEPT !.status = "uploaded"]
    /\ Ends(r)
    /\ UNCHANGED <<archive, store, handler, recorded, audits>>

\* The commit of finalize_upload, with the job it enqueues.
CommitUploaded(r) ==
    /\ request[r].phase = "accepted"
    /\ EnqueueIngest("first")
    /\ row' = [status |-> "uploaded", uploading |-> FALSE]
    /\ Ends(r)
    /\ UNCHANGED <<archive, store, handler, recorded, audits>>

\* The commit of retry_ingest, which has nothing to do in the store.
CommitRetry(r) ==
    /\ request[r].kind = "retry"
    /\ EnqueueIngest("retry")
    /\ row' = [row EXCEPT !.status = "uploaded"]
    /\ Ends(r)
    /\ UNCHANGED <<archive, store, handler, recorded, audits>>

\* The process dies, the store answers with an error, or the commit fails.
LoseRequest(r) ==
    /\ Open(r)
    /\ Ends(r)
    /\ UNCHANGED <<row, archive, store, job, handler, recorded, audits>>

-----------------------------------------------------------------------------
(* Ingestion.                                                              *)

Doing(j, what) == handler[j].doing = what

ClaimIngest(j) ==
    /\ job[j].status = "queued"
    /\ job' = [job EXCEPT ![j].status = "running", ![j].attempts = @ + 1]
    /\ handler' = [handler EXCEPT ![j].doing = "starting"]
    /\ UNCHANGED <<row, archive, store, request, recorded, audits>>

\* Mutant: a version that is ready is ingested again.
StartIngest_NoSkip(j) ==
    /\ Doing(j, "starting")
    /\ handler' = [handler EXCEPT ![j] = [doing |-> "ingesting", todo |-> Files \ recorded]]
    /\ row' = [row EXCEPT !.status = "ingesting"]
    /\ UNCHANGED <<archive, store, request, job, recorded, audits>>

\* The first transactions of run_ingest_job: a version that is ready is left alone, else the
\* files that are not recorded yet are to be done.
StartIngest(j) ==
    /\ Doing(j, "starting")
    /\ IF row.status = "ready"
       THEN /\ handler' = [handler EXCEPT ![j].doing = "returned"]
            /\ UNCHANGED row
       ELSE /\ handler' = [handler EXCEPT ![j] = [doing |-> "ingesting", todo |-> Files \ recorded]]
            /\ row' = [row EXCEPT !.status = "ingesting"]
    /\ UNCHANGED <<archive, store, request, job, recorded, audits>>

Readable == store.object /\ archive.contents \in {"images", "no_images"}

\* One chunk: its rows are committed together; a path that is there already violates
\* UNIQUE(dataset_version_id, relative_path).
RecordChunk(j, chunk) ==
    /\ Doing(j, "ingesting") /\ Readable
    /\ chunk # {} /\ chunk \subseteq handler[j].todo /\ chunk \cap recorded = {}
    /\ recorded' = recorded \cup chunk
    /\ handler' = [handler EXCEPT ![j].todo = @ \ chunk]
    /\ UNCHANGED <<row, archive, store, request, job, audits>>

\* Mutant: finalization does not wait for the last chunk.
FinishIngest_Early(j) ==
    /\ Doing(j, "ingesting") /\ Readable
    /\ row' = [row EXCEPT !.status = IF archive.contents = "images" THEN "ready" ELSE "failed"]
    /\ audits' = IF archive.contents = "images" THEN audits + 1 ELSE audits
    /\ handler' = [handler EXCEPT ![j] = [doing |-> "returned", todo |-> {}]]
    /\ UNCHANGED <<archive, store, request, job, recorded>>

\* The last transaction: finalize_version, and create_audit if there are samples.
FinishIngest(j) ==
    /\ Doing(j, "ingesting") /\ Readable /\ handler[j].todo = {}
    /\ row' = [row EXCEPT !.status = IF archive.contents = "images" THEN "ready" ELSE "failed"]
    /\ audits' = IF archive.contents = "images" THEN audits + 1 ELSE audits
    /\ handler' = [handler EXCEPT ![j].doing = "returned"]
    /\ UNCHANGED <<archive, store, request, job, recorded>>

CompleteJob(j) ==
    /\ Doing(j, "returned")
    /\ job' = [job EXCEPT ![j].status = "completed"]
    /\ handler' = [handler EXCEPT ![j] = Idle]
    /\ UNCHANGED <<row, archive, store, request, recorded, audits>>

\* jobs.fail after an error of the handler: an archive that cannot be read is a permanent
\* error, any other is retried while attempts are left.
Fails(j) ==
    /\ handler[j].doing \in {"starting", "ingesting", "returned"}
    /\ row.status = "ready" => MayFailWhenReady

FailJob(j) ==
    /\ Fails(j)
    /\ IF (Doing(j, "ingesting") /\ ~Readable) \/ job[j].attempts = MaxAttempts
       THEN /\ job' = [job EXCEPT ![j].status = "failed"]
            /\ handler' = [handler EXCEPT ![j] = [doing |-> "failing", todo |-> {}]]
       ELSE /\ job' = [job EXCEPT ![j].status = "queued"]
            /\ handler' = [handler EXCEPT ![j] = Idle]
    /\ UNCHANGED <<row, archive, store, request, recorded, audits>>

\* _on_job_failure.
Propagate(j) ==
    /\ Doing(j, "failing")
    /\ row' = [row EXCEPT !.status = "failed"]
    /\ handler' = [handler EXCEPT ![j] = Idle]
    /\ UNCHANGED <<archive, store, request, job, recorded, audits>>

\* The worker dies, and the reaper takes the job from it if it still has it.
LoseWorker(j) ==
    /\ handler[j].doing # "nothing"
    /\ job' = [job EXCEPT ![j].status =
                  IF @ # "running" THEN @
                  ELSE IF job[j].attempts < MaxAttempts THEN "queued" ELSE "failed"]
    /\ handler' = [handler EXCEPT ![j] = Idle]
    /\ UNCHANGED <<row, archive, store, request, recorded, audits>>

RequestStep ==
    \E r \in Requests :
        \/ \E kind \in {"finalize", "abort", "cleanup", "retry"} : Begin(r, kind)
        \/ FinalizeInStore(r) \/ AbortInStore(r) \/ CleanUpInStore(r)
        \/ CommitFailed(r) \/ CommitUploaded(r) \/ CommitRetry(r) \/ LoseRequest(r)

IngestStep ==
    \E j \in Jobs :
        \/ ClaimIngest(j) \/ StartIngest(j) \/ FinishIngest(j) \/ CompleteJob(j)
        \/ \E chunk \in SUBSET Files : RecordChunk(j, chunk)
        \/ FailJob(j) \/ Propagate(j) \/ LoseWorker(j)

Next == PutObject \/ (\E p \in Parts : PutPart(p)) \/ RequestStep \/ IngestStep

Spec == Init /\ [][Next]_vars

-----------------------------------------------------------------------------
TypeOK ==
    /\ row \in [status : Statuses, uploading : BOOLEAN]
    /\ archive \in [multipart : BOOLEAN, contents : Contents]
    /\ store \in [object : BOOLEAN, open : BOOLEAN, parts : SUBSET Parts]
    /\ request \in [Requests -> [kind : {"none", "finalize", "abort", "cleanup", "retry"},
                                 phase : {"done", "loaded", "accepted", "rejected"},
                                 uploading : BOOLEAN]]
    /\ job \in [Jobs -> [status : {"none", "queued", "running", "completed", "failed"},
                         key : {"none", "first", "retry"},
                         attempts : 0..MaxAttempts]]
    /\ handler \in [Jobs -> [doing : {"nothing", "starting", "ingesting", "returned", "failing"},
                             todo : SUBSET Files]]
    /\ recorded \in SUBSET Files
    /\ audits \in Nat

\* A version that waits for its ingestion, or is being ingested, has its archive.
IngestionHasArchive == row.status \in {"uploaded", "ingesting"} => store.object

\* Once the upload is over, however it ended, no multipart upload is left open in the bucket.
NoUploadLeftOpen == row.status # "awaiting_upload" => ~store.open /\ ~row.uploading

\* A ready version has every file of its archive and has started one audit, through any
\* crashes, retries and repeated ingestions.
ReadyIsWhole ==
    row.status = "ready" => recorded = Files /\ audits = 1

\* A ready version stays ready.
ReadyIsFinal == [][row.status = "ready" => row'.status = "ready"]_vars
=============================================================================
