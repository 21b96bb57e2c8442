----------------------- MODULE TranscriptionPipeline -----------------------
(***************************************************************************)
(* The asynchronous core of the service: API requests that create          *)
(* transcription jobs, the PostgreSQL rows they share with the workers,    *)
(* the SQS queue between them, and the worker loop.                        *)
(*                                                                         *)
(* Every database statement and every queue call is one atomic step; the   *)
(* goroutines and processes that issue them interleave between any two.    *)
(* Only persistResults groups several statements in one transaction.       *)
(*                                                                         *)
(* A video row never reuses an identifier, so "absent" (not yet inserted)  *)
(* and "removed" (deleted) are told apart although both mean "no row".     *)
(* Job identifiers are numbered in the order their rows are inserted,      *)
(* which is the created_at order the repository sorts by.                  *)
(***************************************************************************)
EXTENDS Naturals

CONSTANTS
  Videos,         \* identifiers of video rows
  Requests,       \* API handler goroutines
  Workers,        \* worker processes
  MaxJobs,        \* bound: how many job rows are ever inserted
  MaxAttempts,    \* worker.go DefaultMaxAttempts
  MaxReceives,    \* maxReceiveCount of the queue's redrive policy
  MaxFaults,      \* bound: how many faults a behaviour may contain
  FaultKinds,     \* which faults the environment may inject
  MediaFails,     \* TRUE when ffmpeg or the speech provider may report errors
  CloudProvider,  \* TRUE for AWS Transcribe, FALSE for the Whisper and mock providers
  SharedQueue     \* TRUE for SQS, FALSE for one in-memory queue per process

ASSUME BoundsAssumption ==
  /\ MaxJobs \in Nat \ {0}
  /\ MaxAttempts \in Nat \ {0}
  /\ MaxReceives \in Nat \ {0}
  /\ MaxFaults \in Nat

NoVideo == "none"

ASSUME EnvironmentAssumption ==
  /\ NoVideo \notin Videos
  /\ FaultKinds \subseteq {"worker", "api", "db", "queue"}
  /\ MediaFails \in BOOLEAN
  /\ CloudProvider \in BOOLEAN
  /\ SharedQueue \in BOOLEAN

JobIds == 1 .. MaxJobs
NoJob == 0

VideoStatus == {"uploading", "uploaded", "processing", "completed", "failed"}
JobStatus == {"queued", "processing", "completed", "failed"}

VARIABLES
  video,       \* videos.status of each video row
  jobStatus,   \* transcription_jobs.status of each job row
  jobVideo,    \* transcription_jobs.video_id, also the message's VideoID
  attempts,    \* transcription_jobs.attempts
  lastJob,     \* the number of job rows inserted so far
  transcript,  \* the job whose transcript and segments a video holds, or NoJob
  msg,         \* where the SQS message of each job is
  receives,    \* its ApproximateReceiveCount, which also names its newest receipt
  cloudJobs,   \* AWS Transcribe jobs that exist, named after the job's id
  request,     \* each API request: program counter, video and job it works on
  worker,      \* each worker: program counter, job, receipt handle, receive count
  faults       \* how many faults have happened

dbVars == <<video, jobStatus, jobVideo, attempts, lastJob, transcript>>
queueVars == <<msg, receives>>
vars == <<dbVars, queueVars, cloudJobs, request, worker, faults>>

NoReceipt == 0  \* the synthetic handle "db-job-<id>", which no queue knows

RequestPc == {"idle", "completing", "create", "mark", "publish", "undoJob", "undoVideo"}
WorkerPc == {"idle", "fetched", "giveUpJob", "giveUpVideo", "increment", "claimJob",
             "claimVideo", "run", "transcribing", "failJob", "failVideo", "ack"}

RequestState == [pc : RequestPc, video : Videos \cup {NoVideo}, job : JobIds \cup {NoJob}]
WorkerState == [pc : WorkerPc, job : JobIds \cup {NoJob}, receipt : 0 .. MaxReceives, count : Nat]

IdleRequest == [pc |-> "idle", video |-> NoVideo, job |-> NoJob]
IdleWorker == [pc |-> "idle", job |-> NoJob, receipt |-> NoReceipt, count |-> 0]

VideoExists(v) == video[v] \in VideoStatus
JobExists(j) == jobStatus[j] \in JobStatus
InQueue(j) == msg[j] \in {"visible", "inflight"}

\* Worker w acts on the newest receipt of the message of job j.
HoldsLease(w, j) ==
  /\ worker[w].pc # "idle"
  /\ worker[w].job = j
  /\ worker[w].receipt = receives[j]

Init ==
  /\ video = [v \in Videos |-> "absent"]
  /\ jobStatus = [j \in JobIds |-> "absent"]
  /\ jobVideo = [j \in JobIds |-> NoVideo]
  /\ attempts = [j \in JobIds |-> 0]
  /\ lastJob = 0
  /\ transcript = [v \in Videos |-> NoJob]
  /\ msg = [j \in JobIds |-> "none"]
  /\ receives = [j \in JobIds |-> 0]
  /\ cloudJobs = {}
  /\ request = [r \in Requests |-> IdleRequest]
  /\ worker = [w \in Workers |-> IdleWorker]
  /\ faults = 0

-----------------------------------------------------------------------------
(* Repository statements: an UPDATE that matches no row changes nothing.   *)

SetVideo(v, status) ==
  video' = IF VideoExists(v) THEN [video EXCEPT ![v] = status] ELSE video

SetJob(j, status) ==
  jobStatus' = IF JobExists(j) THEN [jobStatus EXCEPT ![j] = status] ELSE jobStatus

RequestAt(r, pc) == request' = [request EXCEPT ![r].pc = pc]
RequestDone(r) == request' = [request EXCEPT ![r] = IdleRequest]
WorkerAt(w, pc) == worker' = [worker EXCEPT ![w].pc = pc]
WorkerDone(w) == worker' = [worker EXCEPT ![w] = IdleWorker]

Fault(kind) ==
  /\ kind \in FaultKinds
  /\ faults < MaxFaults
  /\ faults' = faults + 1

-----------------------------------------------------------------------------
(* Variants with a seeded bug. No action uses them: each stands for a      *)
(* plausible slip in the operation it is named after, and shows that the   *)
(* property it is paired with would notice.                                *)

\* DeleteVideo as a soft delete, with the status constant that nothing writes today.
DeleteVideoSoftly(v) ==
  /\ VideoExists(v)
  /\ video' = [video EXCEPT ![v] = "deleted"]
  /\ UNCHANGED <<jobStatus, jobVideo, attempts, lastJob, transcript, queueVars,
                 cloudJobs, request, worker, faults>>

\* The job row is born "processing" and only its message can start it.
TriggerCreateProcessing(r) ==
  /\ request[r].pc = "create"
  /\ VideoExists(request[r].video)
  /\ lastJob < MaxJobs
  /\ lastJob' = lastJob + 1
  /\ jobStatus' = [jobStatus EXCEPT ![lastJob + 1] = "processing"]
  /\ jobVideo' = [jobVideo EXCEPT ![lastJob + 1] = request[r].video]
  /\ request' = [request EXCEPT ![r].pc = "mark", ![r].job = lastJob + 1]
  /\ UNCHANGED <<video, attempts, transcript, queueVars, cloudJobs, worker, faults>>

\* A queue deployed without a redrive policy.
RedriveNever(j) == FALSE

\* processMessage without the idempotency check.
CheckJobForgetsCompleted(w) ==
  /\ worker[w].pc = "fetched"
  /\ IF ~JobExists(worker[w].job) THEN WorkerDone(w)
     ELSE WorkerAt(w, IF worker[w].count > MaxAttempts THEN "giveUpJob" ELSE "increment")
  /\ UNCHANGED <<dbVars, queueVars, cloudJobs, request, faults>>

\* A rerun starts by throwing the old transcript away.
ClaimVideoDiscards(w) ==
  /\ worker[w].pc = "claimVideo"
  /\ SetVideo(jobVideo[worker[w].job], "processing")
  /\ transcript' = [transcript EXCEPT ![jobVideo[worker[w].job]] = NoJob]
  /\ WorkerAt(w, "run")
  /\ UNCHANGED <<jobStatus, jobVideo, attempts, lastJob, queueVars, cloudJobs, request, faults>>

\* The provider's job gets a fresh name on every attempt.
StartTranscriptionUnnamed(w) ==
  /\ worker[w].pc = "run"
  /\ cloudJobs' = cloudJobs \cup {worker[w].job}
  /\ WorkerAt(w, "transcribing")
  /\ UNCHANGED <<dbVars, queueVars, request, faults>>

\* The transcript's INSERT without its foreign keys.
PersistResultsUnchecked(w) ==
  /\ worker[w].pc = "transcribing"
  /\ transcript' = [transcript EXCEPT ![jobVideo[worker[w].job]] = worker[w].job]
  /\ SetJob(worker[w].job, "completed")
  /\ SetVideo(jobVideo[worker[w].job], "completed")
  /\ WorkerAt(w, "ack")
  /\ UNCHANGED <<jobVideo, attempts, lastJob, queueVars, cloudJobs, request, faults>>

\* Handling a failure leaves the status of the job, ...
FailJobForgotten(w) ==
  /\ worker[w].pc = "failJob"
  /\ WorkerAt(w, "failVideo")
  /\ UNCHANGED <<dbVars, queueVars, cloudJobs, request, faults>>

\* ... or that of its video.
FailVideoForgotten(w) ==
  /\ worker[w].pc = "failVideo"
  /\ WorkerDone(w)
  /\ UNCHANGED <<dbVars, queueVars, cloudJobs, request, faults>>

\* Handling a failure cleans up a transcript that an earlier run left.
FailVideoDiscards(w) ==
  /\ worker[w].pc = "failVideo"
  /\ SetVideo(jobVideo[worker[w].job], "failed")
  /\ transcript' = [transcript EXCEPT ![jobVideo[worker[w].job]] = NoJob]
  /\ WorkerDone(w)
  /\ UNCHANGED <<jobStatus, jobVideo, attempts, lastJob, queueVars, cloudJobs, request, faults>>

\* The early return after a failed run is missing, and the message is deleted.
FailVideoAcknowledges(w) ==
  /\ worker[w].pc = "failVideo"
  /\ SetVideo(jobVideo[worker[w].job], "failed")
  /\ WorkerAt(w, "ack")
  /\ UNCHANGED <<jobStatus, jobVideo, attempts, lastJob, transcript, queueVars,
                 cloudJobs, request, faults>>

-----------------------------------------------------------------------------
(* API: the video row's life around the jobs                               *)

\* RequestUploadURL inserts the row before it presigns the PUT.
RequestUploadURL(v) ==
  /\ video[v] = "absent"
  /\ video' = [video EXCEPT ![v] = "uploading"]
  /\ UNCHANGED <<jobStatus, jobVideo, attempts, lastJob, transcript, queueVars,
                 cloudJobs, request, worker, faults>>

\* CompleteUpload reads the row, returns early unless it is uploading, ...
CompleteUploadCheck(r, v) ==
  /\ request[r].pc = "idle"
  /\ video[v] = "uploading"
  /\ request' = [request EXCEPT ![r] = [pc |-> "completing", video |-> v, job |-> NoJob]]
  /\ UNCHANGED <<dbVars, queueVars, cloudJobs, worker, faults>>

\* ... heads the object, and then updates the row whatever its status is by now,
\* or returns because the object is not there.
CompleteUploadWrite(r) ==
  /\ request[r].pc = "completing"
  /\ \/ SetVideo(request[r].video, "uploaded")
     \/ UNCHANGED video
  /\ RequestDone(r)
  /\ UNCHANGED <<jobStatus, jobVideo, attempts, lastJob, transcript, queueVars,
                 cloudJobs, worker, faults>>

\* DeleteVideo: the foreign keys cascade to jobs, transcript and segments. Messages,
\* and workers already running one of the jobs, are not told.
DeleteVideo(v) ==
  /\ VideoExists(v)
  /\ video' = [video EXCEPT ![v] = "removed"]
  /\ jobStatus' = [j \in JobIds |-> IF jobVideo[j] = v THEN "absent" ELSE jobStatus[j]]
  /\ transcript' = [transcript EXCEPT ![v] = NoJob]
  /\ UNCHANGED <<jobVideo, attempts, lastJob, queueVars, cloudJobs, request, worker, faults>>

-----------------------------------------------------------------------------
(* API: TriggerTranscription                                               *)

TriggerRead(r, v) ==
  /\ request[r].pc = "idle"
  /\ VideoExists(v)
  /\ video[v] \notin {"uploading", "processing"}
  /\ request' = [request EXCEPT ![r] = [pc |-> "create", video |-> v, job |-> NoJob]]
  /\ UNCHANGED <<dbVars, queueVars, cloudJobs, worker, faults>>

\* The INSERT fails on its foreign key when the video is gone.
TriggerCreate(r) ==
  /\ request[r].pc = "create"
  /\ LET v == request[r].video
         j == lastJob + 1
     IN  \/ /\ VideoExists(v)
            /\ lastJob < MaxJobs
            /\ lastJob' = j
            /\ jobStatus' = [jobStatus EXCEPT ![j] = "queued"]
            /\ jobVideo' = [jobVideo EXCEPT ![j] = v]
            /\ request' = [request EXCEPT ![r] = [pc |-> "mark", video |-> v, job |-> j]]
         \/ /\ ~VideoExists(v)
            /\ RequestDone(r)
            /\ UNCHANGED <<lastJob, jobStatus, jobVideo>>
  /\ UNCHANGED <<video, attempts, transcript, queueVars, cloudJobs, worker, faults>>

\* The video is marked processing without looking at its status again; an UPDATE
\* that finds no row is an error and ends the request.
TriggerMark(r) ==
  /\ request[r].pc = "mark"
  /\ LET v == request[r].video
     IN  \/ /\ VideoExists(v)
            /\ SetVideo(v, "processing")
            /\ RequestAt(r, "publish")
         \/ /\ ~VideoExists(v)
            /\ RequestDone(r)
            /\ UNCHANGED video
  /\ UNCHANGED <<jobStatus, jobVideo, attempts, lastJob, transcript, queueVars,
                 cloudJobs, worker, faults>>

TriggerPublish(r) ==
  /\ request[r].pc = "publish"
  /\ msg' = [msg EXCEPT ![request[r].job] = "visible"]
  /\ RequestDone(r)
  /\ UNCHANGED <<dbVars, receives, cloudJobs, worker, faults>>

\* Publish reports an error. The message may have reached the queue all the same.
TriggerPublishFails(r) ==
  /\ request[r].pc = "publish"
  /\ Fault("queue")
  /\ \/ msg' = [msg EXCEPT ![request[r].job] = "visible"]
     \/ UNCHANGED msg
  /\ RequestAt(r, "undoJob")
  /\ UNCHANGED <<dbVars, receives, cloudJobs, worker>>

TriggerUndoJob(r) ==
  /\ request[r].pc = "undoJob"
  /\ SetJob(request[r].job, "failed")
  /\ RequestAt(r, "undoVideo")
  /\ UNCHANGED <<video, jobVideo, attempts, lastJob, transcript, queueVars,
                 cloudJobs, worker, faults>>

TriggerUndoVideo(r) ==
  /\ request[r].pc = "undoVideo"
  /\ SetVideo(request[r].video, "failed")
  /\ RequestDone(r)
  /\ UNCHANGED <<jobStatus, jobVideo, attempts, lastJob, transcript, queueVars,
                 cloudJobs, worker, faults>>

\* The API process dies, or a statement of a request fails, or the answer to the statement
\* before is lost: nothing more of the request is executed, except that a failed undo of
\* the job (whose error is ignored) still goes on to the video.
RequestFails(r) ==
  /\ request[r].pc # "idle"
  /\ \/ Fault("api") /\ RequestDone(r)
     \/ /\ Fault("db")
        /\ IF request[r].pc = "undoJob" THEN RequestAt(r, "undoVideo") ELSE RequestDone(r)
  /\ UNCHANGED <<dbVars, queueVars, cloudJobs, worker>>

-----------------------------------------------------------------------------
(* The queue: SQS with a visibility timeout and a redrive policy           *)

Redrive(j) ==
  /\ SharedQueue
  /\ msg[j] = "visible"
  /\ receives[j] >= MaxReceives
  /\ msg' = [msg EXCEPT ![j] = "dlq"]
  /\ UNCHANGED <<dbVars, receives, cloudJobs, request, worker, faults>>

\* Nobody extends the visibility of the newest receipt any more.
VisibilityTimeout(j) ==
  /\ msg[j] = "inflight"
  /\ \A w \in Workers : ~HoldsLease(w, j)
  /\ msg' = [msg EXCEPT ![j] = "visible"]
  /\ UNCHANGED <<dbVars, receives, cloudJobs, request, worker, faults>>

\* The heartbeats come too late or fail (their errors are only logged), or the
\* queue hands out a second copy: delivery is at least once.
LoseLease(j) ==
  /\ msg[j] = "inflight"
  /\ \E w \in Workers : HoldsLease(w, j)
  /\ Fault("queue")
  /\ msg' = [msg EXCEPT ![j] = "visible"]
  /\ UNCHANGED <<dbVars, receives, cloudJobs, request, worker>>

-----------------------------------------------------------------------------
(* Worker: where jobs come from                                            *)

Receive(w, j) ==
  /\ SharedQueue
  /\ worker[w].pc = "idle"
  /\ msg[j] = "visible"
  /\ receives[j] < MaxReceives
  /\ msg' = [msg EXCEPT ![j] = "inflight"]
  /\ receives' = [receives EXCEPT ![j] = @ + 1]
  /\ worker' = [worker EXCEPT ![w] = [pc |-> "fetched", job |-> j,
                                      receipt |-> receives[j] + 1,
                                      count |-> receives[j] + 1]]
  /\ UNCHANGED <<dbVars, cloudJobs, request, faults>>

\* After a Receive that returned nothing (no message was visible then, or the call
\* failed) the oldest queued row is taken, without locking or changing it.
PollDatabase(w) ==
  /\ worker[w].pc = "idle"
  /\ \E j \in JobIds :
       /\ jobStatus[j] = "queued"
       /\ \A k \in JobIds : jobStatus[k] = "queued" => j <= k
       /\ worker' = [worker EXCEPT ![w] = [pc |-> "fetched", job |-> j,
                                           receipt |-> NoReceipt,
                                           count |-> attempts[j] + 1]]
  /\ UNCHANGED <<dbVars, queueVars, cloudJobs, request, faults>>

-----------------------------------------------------------------------------
(* Worker: processMessage                                                  *)

CheckJob(w) ==
  /\ worker[w].pc = "fetched"
  /\ LET j == worker[w].job
     IN  \/ ~JobExists(j) /\ WorkerDone(w)
         \/ jobStatus[j] = "completed" /\ WorkerAt(w, "ack")
         \/ /\ JobExists(j) /\ jobStatus[j] # "completed"
            /\ worker[w].count > MaxAttempts
            /\ WorkerAt(w, "giveUpJob")
         \/ /\ JobExists(j) /\ jobStatus[j] # "completed"
            /\ worker[w].count <= MaxAttempts
            /\ WorkerAt(w, "increment")
  /\ UNCHANGED <<dbVars, queueVars, cloudJobs, request, faults>>

GiveUpJob(w) ==
  /\ worker[w].pc = "giveUpJob"
  /\ SetJob(worker[w].job, "failed")
  /\ WorkerAt(w, "giveUpVideo")
  /\ UNCHANGED <<video, jobVideo, attempts, lastJob, transcript, queueVars,
                 cloudJobs, request, faults>>

GiveUpVideo(w) ==
  /\ worker[w].pc = "giveUpVideo"
  /\ SetVideo(jobVideo[worker[w].job], "failed")
  /\ WorkerAt(w, "ack")
  /\ UNCHANGED <<jobStatus, jobVideo, attempts, lastJob, transcript, queueVars,
                 cloudJobs, request, faults>>

IncrementAttempts(w) ==
  /\ worker[w].pc = "increment"
  /\ LET j == worker[w].job
     IN  attempts' = IF JobExists(j) THEN [attempts EXCEPT ![j] = @ + 1] ELSE attempts
  /\ WorkerAt(w, "claimJob")
  /\ UNCHANGED <<video, jobStatus, jobVideo, lastJob, transcript, queueVars,
                 cloudJobs, request, faults>>

ClaimJob(w) ==
  /\ worker[w].pc = "claimJob"
  /\ SetJob(worker[w].job, "processing")
  /\ WorkerAt(w, "claimVideo")
  /\ UNCHANGED <<video, jobVideo, attempts, lastJob, transcript, queueVars,
                 cloudJobs, request, faults>>

ClaimVideo(w) ==
  /\ worker[w].pc = "claimVideo"
  /\ SetVideo(jobVideo[worker[w].job], "processing")
  /\ WorkerAt(w, "run")
  /\ UNCHANGED <<jobStatus, jobVideo, attempts, lastJob, transcript, queueVars,
                 cloudJobs, request, faults>>

\* The media steps succeeded and the provider is asked to transcribe. AWS refuses a
\* second transcription under the same name, and the name is the job's id.
StartTranscription(w) ==
  /\ worker[w].pc = "run"
  /\ LET j == worker[w].job
     IN  \/ /\ CloudProvider /\ j \in cloudJobs
            /\ WorkerAt(w, "failJob")
            /\ UNCHANGED cloudJobs
         \/ /\ CloudProvider /\ j \notin cloudJobs
            /\ cloudJobs' = cloudJobs \cup {j}
            /\ WorkerAt(w, "transcribing")
         \/ /\ ~CloudProvider
            /\ WorkerAt(w, "transcribing")
            /\ UNCHANGED cloudJobs
  /\ UNCHANGED <<dbVars, queueVars, request, faults>>

\* Scratch directory, download, ffmpeg, upload or provider report an error, ...
ProcessorFails(w) ==
  /\ worker[w].pc \in {"run", "transcribing"}
  /\ MediaFails
  /\ WorkerAt(w, "failJob")
  /\ UNCHANGED <<dbVars, queueVars, cloudJobs, request, faults>>

\* ... or the transaction's INSERT does, because the video and with it the job is gone.
PersistRejected(w) ==
  /\ worker[w].pc = "transcribing"
  /\ ~(JobExists(worker[w].job) /\ VideoExists(jobVideo[worker[w].job]))
  /\ WorkerAt(w, "failJob")
  /\ UNCHANGED <<dbVars, queueVars, cloudJobs, request, faults>>

\* persistResults: one transaction for transcript, segments, job and video.
Commit(w) ==
  /\ worker[w].pc = "transcribing"
  /\ LET j == worker[w].job
         v == jobVideo[j]
     IN  /\ JobExists(j) /\ VideoExists(v)
         /\ transcript' = [transcript EXCEPT ![v] = j]
         /\ SetJob(j, "completed")
         /\ SetVideo(v, "completed")
  /\ UNCHANGED <<jobVideo, attempts, lastJob, queueVars, cloudJobs, request>>

PersistResults(w) ==
  /\ Commit(w)
  /\ WorkerAt(w, "ack")
  /\ UNCHANGED faults

FailJob(w) ==
  /\ worker[w].pc = "failJob"
  /\ SetJob(worker[w].job, "failed")
  /\ WorkerAt(w, "failVideo")
  /\ UNCHANGED <<video, jobVideo, attempts, lastJob, transcript, queueVars,
                 cloudJobs, request, faults>>

\* The message is not deleted: it becomes visible again and is retried.
FailVideo(w) ==
  /\ worker[w].pc = "failVideo"
  /\ SetVideo(jobVideo[worker[w].job], "failed")
  /\ WorkerDone(w)
  /\ UNCHANGED <<jobStatus, jobVideo, attempts, lastJob, transcript, queueVars,
                 cloudJobs, request, faults>>

\* DeleteMessage removes the message for its newest receipt, may or may not do so for
\* an older one, and knows nothing of the synthetic handle of PollDatabase.
Acknowledge(w) ==
  /\ worker[w].pc = "ack"
  /\ LET j == worker[w].job
         h == worker[w].receipt
     IN  \/ /\ InQueue(j) /\ h # NoReceipt
            /\ msg' = [msg EXCEPT ![j] = "deleted"]
         \/ /\ ~InQueue(j) \/ h = NoReceipt \/ h # receives[j]
            /\ UNCHANGED msg
  /\ WorkerDone(w)
  /\ UNCHANGED <<dbVars, receives, cloudJobs, request, faults>>

\* The error of a statement or of DeleteMessage is logged or dropped and
\* processMessage goes on; a failed GetByID ends it without touching the message.
AfterLostCall ==
  [fetched |-> "idle", giveUpJob |-> "giveUpVideo", giveUpVideo |-> "ack",
   increment |-> "claimJob", claimJob |-> "claimVideo", claimVideo |-> "run",
   transcribing |-> "failJob", failJob |-> "failVideo", failVideo |-> "idle",
   ack |-> "idle"]

\* Without effect, except for COMMIT below. For the other statements an answer that is lost
\* after the effect is the same as success, because their errors are dropped.
WorkerCallFails(w) ==
  /\ worker[w].pc \in DOMAIN AfterLostCall
  /\ Fault(IF worker[w].pc = "ack" THEN "queue" ELSE "db")
  /\ IF AfterLostCall[worker[w].pc] = "idle"
       THEN WorkerDone(w)
       ELSE WorkerAt(w, AfterLostCall[worker[w].pc])
  /\ UNCHANGED <<dbVars, queueVars, cloudJobs, request>>

\* The transaction commits, but its answer is lost: the error counts as a failed run.
PersistAnswerLost(w) ==
  /\ Commit(w)
  /\ Fault("db")
  /\ WorkerAt(w, "failJob")

\* The process dies, or is told to stop: with its context cancelled every later
\* statement of processMessage fails too.
WorkerCrash(w) ==
  /\ worker[w].pc # "idle"
  /\ Fault("worker")
  /\ WorkerDone(w)
  /\ UNCHANGED <<dbVars, queueVars, cloudJobs, request>>

-----------------------------------------------------------------------------
UserStep ==
  \E v \in Videos : \/ RequestUploadURL(v)
                    \/ DeleteVideo(v)
                    \/ \E r \in Requests : CompleteUploadCheck(r, v) \/ TriggerRead(r, v)

\* A handler that has started, taking its next step without a fault.
RequestStep(r) ==
  \/ CompleteUploadWrite(r)
  \/ TriggerCreate(r) \/ TriggerMark(r) \/ TriggerPublish(r)
  \/ TriggerUndoJob(r) \/ TriggerUndoVideo(r)

QueueStep(j) == Redrive(j) \/ VisibilityTimeout(j)

\* A worker that has a message, taking its next step without a fault.
WorkerStep(w) ==
  \/ CheckJob(w) \/ GiveUpJob(w) \/ GiveUpVideo(w)
  \/ IncrementAttempts(w) \/ ClaimJob(w) \/ ClaimVideo(w)
  \/ StartTranscription(w) \/ ProcessorFails(w) \/ PersistRejected(w) \/ PersistResults(w)
  \/ FailJob(w) \/ FailVideo(w) \/ Acknowledge(w)

FaultStep ==
  \/ \E r \in Requests : TriggerPublishFails(r) \/ RequestFails(r)
  \/ \E j \in JobIds : LoseLease(j)
  \/ \E w \in Workers : WorkerCallFails(w) \/ PersistAnswerLost(w) \/ WorkerCrash(w)

Next ==
  \/ UserStep
  \/ \E r \in Requests : RequestStep(r)
  \/ \E j \in JobIds : QueueStep(j)
  \/ \E w \in Workers : PollDatabase(w) \/ WorkerStep(w) \/ \E j \in JobIds : Receive(w, j)
  \/ FaultStep

Spec == Init /\ [][Next]_vars

\* Handlers and processMessage run to their end; a visible message is received or
\* redriven and an abandoned one becomes visible; the loop asks the queue first on
\* every iteration, so an idle worker cannot overlook a message for ever.
Fairness ==
  /\ \A r \in Requests : WF_vars(RequestStep(r))
  /\ \A j \in JobIds : WF_vars(QueueStep(j))
  /\ \A w \in Workers : /\ WF_vars(WorkerStep(w))
                        /\ WF_vars(PollDatabase(w))
                        /\ \A j \in JobIds : SF_vars(Receive(w, j))

FairSpec == Spec /\ Fairness
-----------------------------------------------------------------------------
(* Properties for any number of workers, requests and faults               *)

\* Every variable keeps the shape of the rows, messages and local variables it stands for.
TypeOK ==
  /\ video \in [Videos -> VideoStatus \cup {"absent", "removed"}]
  /\ jobStatus \in [JobIds -> JobStatus \cup {"absent"}]
  /\ jobVideo \in [JobIds -> Videos \cup {NoVideo}]
  /\ attempts \in [JobIds -> Nat]
  /\ lastJob \in 0 .. MaxJobs
  /\ transcript \in [Videos -> JobIds \cup {NoJob}]
  /\ msg \in [JobIds -> {"none", "visible", "inflight", "deleted", "dlq"}]
  /\ receives \in [JobIds -> 0 .. MaxReceives]
  /\ cloudJobs \subseteq JobIds
  /\ request \in [Requests -> RequestState]
  /\ worker \in [Workers -> WorkerState]
  /\ faults \in 0 .. MaxFaults

\* Nothing outlives the row it belongs to: a job row has its video, and a transcript has
\* its video and the job of that same video that produced it, although workers finish
\* jobs and requests insert them while the video is being deleted.
NoOrphanRows ==
  /\ \A j \in JobIds : JobExists(j) => /\ jobVideo[j] \in Videos
                                       /\ VideoExists(jobVideo[j])
  /\ \A v \in Videos : transcript[v] # NoJob =>
       /\ VideoExists(v)
       /\ JobExists(transcript[v])
       /\ jobVideo[transcript[v]] = v

\* A status of "completed", of the job or of the video, is a promise that the
\* transcript can be read, whatever stale writes and reruns happened in between.
CompletedHasTranscript ==
  /\ \A v \in Videos : video[v] = "completed" => transcript[v] # NoJob
  /\ \A j \in JobIds : jobStatus[j] = "completed" => transcript[jobVideo[j]] # NoJob

\* There is nothing left to retry: the job's row is gone, its video has a transcript, or
\* more deliveries were made than the retry limit permits.
Settled(j) ==
  \/ ~JobExists(j)
  \/ transcript[jobVideo[j]] # NoJob
  \/ receives[j] > MaxAttempts

\* The message of a job is deleted only when the job is settled, even when it is another
\* delivery's worker that deletes it.
AcknowledgedIsSettled == \A j \in JobIds : msg[j] = "deleted" => Settled(j)

\* Redelivery and the database poll may give one job to several workers, but because
\* AWS Transcribe refuses a second transcription of the same name at most one of them
\* ever waits for, and persists, its result.
OneTranscriptionPerJob ==
  CloudProvider =>
    \A w1, w2 \in Workers :
      /\ w1 # w2
      /\ worker[w1].pc = "transcribing"
      /\ worker[w2].pc = "transcribing"
      => worker[w1].job # worker[w2].job

-----------------------------------------------------------------------------
(* The inductive strengthening of the properties above                     *)

\* Inserted jobs are 1 .. lastJob, and only they have a video, a row or a message.
KnownJobs ==
  \A j \in JobIds : IF j <= lastJob THEN jobVideo[j] \in Videos
                    ELSE jobVideo[j] = NoVideo /\ jobStatus[j] = "absent" /\ msg[j] = "none"

\* A busy worker has an inserted job, and a receipt no newer than its message's.
WorkersHaveJobs ==
  \A w \in Workers : worker[w].pc # "idle" =>
    /\ worker[w].job \in 1 .. lastJob
    /\ worker[w].receipt <= receives[worker[w].job]
    /\ worker[w].receipt # NoReceipt => worker[w].count = worker[w].receipt

\* A busy request has a video, and past TriggerCreate an inserted job of that video.
RequestsHaveVideos ==
  \A r \in Requests : request[r].pc # "idle" =>
    /\ request[r].video \in Videos
    /\ request[r].pc \in {"mark", "publish", "undoJob", "undoVideo"} =>
         request[r].job \in 1 .. lastJob /\ jobVideo[request[r].job] = request[r].video

\* A worker with a receipt that is giving up has used a delivery beyond the limit, and
\* one that is about to delete the message has a settled job.
WorkersSettle ==
  \A w \in Workers : worker[w].receipt # NoReceipt =>
    /\ worker[w].pc \in {"giveUpJob", "giveUpVideo"} => receives[worker[w].job] > MaxAttempts
    /\ worker[w].pc = "ack" => Settled(worker[w].job)

\* While a worker waits for AWS Transcribe the cloud job of that name exists.
CloudJobsKnown ==
  CloudProvider =>
    \A w \in Workers : worker[w].pc = "transcribing" => worker[w].job \in cloudJobs

IndInv ==
  /\ TypeOK /\ KnownJobs /\ WorkersHaveJobs /\ RequestsHaveVideos
  /\ NoOrphanRows /\ CompletedHasTranscript
  /\ WorkersSettle /\ AcknowledgedIsSettled
  /\ CloudJobsKnown /\ OneTranscriptionPerJob

-----------------------------------------------------------------------------
(* Properties of a deployment with a single worker process                 *)

\* Thanks to the check at the start of processMessage the only worker never starts,
\* restarts or gives up a job that is completed. It is about to fail one only when the
\* answer to the COMMIT was lost, and then the job's transcript is stored all the same.
CompletedIsNotReclaimed ==
  \A w \in Workers, j \in JobIds :
    worker[w].job = j /\ jobStatus[j] = "completed" =>
      /\ worker[w].pc \notin {"giveUpJob", "increment", "claimJob", "claimVideo", "run",
                             "transcribing"}
      /\ worker[w].pc = "failJob" =>
           faults # 0 /\ "db" \in FaultKinds /\ transcript[jobVideo[j]] = j

Live(j) == jobStatus[j] \in {"queued", "processing"}

\* Something will still act on job j: the poll, a delivery, a worker or its request.
HasDriver(j) ==
  \/ jobStatus[j] = "queued"
  \/ InQueue(j)
  \/ \E w \in Workers : worker[w].pc # "idle" /\ worker[w].job = j
  \/ \E r \in Requests : request[r].pc \in {"mark", "publish", "undoJob"} /\ request[r].job = j

\* The message of job j was delivered as often as the queue permits, which is not once more
\* than the worker tries: no delivery is left on which the worker would give the job up.
Spent(j) == receives[j] = MaxReceives /\ MaxReceives <= MaxAttempts

\* One crash, failed statement or lost queue call at any point leaves no unfinished job
\* behind with nobody to finish it, but for one case: the last delivery was spent, and the
\* message lies in the dead letter queue.
NoStrandedJob ==
  \A j \in JobIds : Live(j) => HasDriver(j) \/ (faults # 0 /\ Spent(j) /\ msg[j] = "dlq")

-----------------------------------------------------------------------------
(* The inductive strengthening of NoStrandedJob, for one worker and at     *)
(* most one fault                                                          *)

UnpublishedPc == {"mark", "publish"}
RunPc == {"increment", "claimJob", "claimVideo", "run", "transcribing", "failJob"}
ClaimedPc == {"claimVideo", "run", "transcribing", "failJob"}
UnclaimedPc == {"fetched", "giveUpJob", "increment", "claimJob"}

WorkerOn(j, pcs) == \E w \in Workers : worker[w].pc \in pcs /\ worker[w].job = j
RequestOn(j, pcs) == \E r \in Requests : request[r].pc \in pcs /\ request[r].job = j

\* The message of job j is not sent yet, or it waits for its first delivery.
Fresh(j) == receives[j] = 0 /\ (RequestOn(j, UnpublishedPc) \/ msg[j] = "visible")

\* The message of job j will be sent or delivered, or its request fails the job.
Deliverable(j) ==
  \/ RequestOn(j, UnpublishedPc \cup {"undoJob"})
  \/ InQueue(j) /\ receives[j] < MaxReceives

\* No message is published twice: until a request publishes the job that it created there
\* is no message and no other request that will.
PublishedOnce ==
  /\ \A j \in JobIds : msg[j] = "none" => receives[j] = 0
  /\ \A r \in Requests : request[r].pc \in UnpublishedPc => msg[request[r].job] = "none"
  /\ \A q, r \in Requests : /\ q # r
                            /\ request[q].pc \in UnpublishedPc
                            /\ request[r].pc \in UnpublishedPc
                            => request[q].job # request[r].job

\* A run was started within the retry limit, and a message is only deleted when nothing of
\* the job is running.
RunsWithinLimit == \A w \in Workers : worker[w].pc \in RunPc => worker[w].count <= MaxAttempts

DeletesWhenIdle ==
  \A w \in Workers : worker[w].pc \in {"giveUpVideo", "ack"} =>
    jobStatus[worker[w].job] # "processing"

\* Before the fault: a job is "processing" only while it is run, a job is "queued" until its
\* first delivery is taken up, a job from the poll still has that delivery to come, and the
\* worker's receipt is the newest one of a message that is still in flight.
FaultFree ==
  /\ \A j \in JobIds : jobStatus[j] = "processing" => WorkerOn(j, ClaimedPc)
  /\ \A j \in JobIds : jobStatus[j] = "queued" =>
       \/ Fresh(j)
       \/ \E w \in Workers : /\ worker[w].pc \in UnclaimedPc
                             /\ worker[w].job = j
                             /\ worker[w].receipt # NoReceipt
  /\ \A w \in Workers : worker[w].pc # "idle" =>
       IF worker[w].receipt # NoReceipt
         THEN msg[worker[w].job] = "inflight" /\ worker[w].receipt = receives[worker[w].job]
         ELSE worker[w].pc \in UnclaimedPc \cup ClaimedPc /\ JobExists(worker[w].job)
                => Fresh(worker[w].job)

\* Job j has used its last delivery, and its message is on its way to the dead letter queue.
Expiring(j) == Spent(j) /\ (InQueue(j) \/ msg[j] = "dlq")

\* After it: what was "processing" is at work again, will be, can be delivered again, or had
\* its last delivery spent.
AfterFault ==
  \A j \in JobIds : jobStatus[j] = "processing" =>
    \/ WorkerOn(j, UnclaimedPc \cup ClaimedPc)
    \/ Deliverable(j)
    \/ Expiring(j)

OneFaultInv ==
  /\ PublishedOnce /\ RunsWithinLimit /\ DeletesWhenIdle
  /\ faults = 0 => FaultFree
  /\ faults # 0 => AfterFault

-----------------------------------------------------------------------------
(* Liveness                                                                *)

\* A fault spent the last delivery of job j, and its message is in the dead letter queue.
Abandoned(j) == faults # 0 /\ Spent(j) /\ msg[j] = "dlq"

\* A fault ended the request that created job j before it sent the message, and the one run
\* that the poll of the database gave the job has failed.
NeverSent(j) ==
  /\ faults # 0
  /\ jobStatus[j] = "failed" /\ msg[j] = "none"
  /\ \A r \in Requests : request[r].job # j

\* Every job ends: completed, failed, or deleted with its video, unless it is abandoned.
JobsSettle == \A j \in JobIds : Live(j) ~> (~Live(j) \/ Abandoned(j))

\* A video does not stay "processing" for ever unless it has its transcript, or one of its
\* jobs is abandoned, or was never sent and had failed before its request marked the video.
ProcessingResolves ==
  \A v \in Videos :
    video[v] = "processing" ~>
      \/ video[v] # "processing"
      \/ transcript[v] # NoJob
      \/ \E j \in JobIds : jobVideo[j] = v /\ (Abandoned(j) \/ NeverSent(j))

\* No message circulates for ever, not even one whose job was deleted and which
\* processMessage therefore never deletes.
QueueDrains == \A j \in JobIds : InQueue(j) ~> ~InQueue(j)

\* When neither ffmpeg nor the provider fails, every job is completed in the end.
JobsComplete == \A j \in JobIds : Live(j) ~> jobStatus[j] \in {"completed", "absent"}

-----------------------------------------------------------------------------
(* What the documentation says and the code does not do                    *)

\* "Workers verify job states atomically before processing": no job is taken out of
\* "completed" again.
CompletedIsFinal ==
  [][\A j \in JobIds : jobStatus[j] = "completed" => jobStatus'[j] \in {"completed", "absent"}]_vars

\* "Jobs exceeding 3 retries are safely failed": a job whose deliveries are used up, so that
\* its message is in the dead letter queue, does not stay unfinished.
ExhaustedJobsFail == \A j \in JobIds : msg[j] = "dlq" ~> ~Live(j)
=============================================================================
