-------------------------- MODULE PipelineEffects --------------------------
(***************************************************************************)
(* Type correctness of TranscriptionPipeline, action by action, and, for   *)
(* each part of the state, what a step can do to it. PipelineProofs argues *)
(* from these effects.                                                     *)
(***************************************************************************)
EXTENDS PipelineLedger, TLAPS

(***************************************************************************)
(* What the helpers of the actions preserve                                *)
(***************************************************************************)

\* SetVideo writes a status to a row that exists, or nothing.
LEMMA VideoType ==
  ASSUME video \in [Videos -> VideoStatus \cup {"absent", "removed"}],
         NEW v, NEW s \in VideoStatus, SetVideo(v, s)
  PROVE  video' \in [Videos -> VideoStatus \cup {"absent", "removed"}]
BY DEF SetVideo

\* So does SetJob.
LEMMA JobType ==
  ASSUME jobStatus \in [JobIds -> JobStatus \cup {"absent"}],
         NEW j, NEW s \in JobStatus, SetJob(j, s)
  PROVE  jobStatus' \in [JobIds -> JobStatus \cup {"absent"}]
BY DEF SetJob

\* The two ways in which processMessage leaves its local state.
LEMMA WorkerType ==
  ASSUME worker \in [Workers -> WorkerState], NEW w \in Workers,
         \/ WorkerDone(w)
         \/ \E pc \in WorkerPc : WorkerAt(w, pc)
  PROVE  worker' \in [Workers -> WorkerState]
<1>1. IdleWorker \in WorkerState
  BY BoundsAssumption DEF IdleWorker, WorkerState, WorkerPc, NoJob, NoReceipt
<1>2. ASSUME NEW pc \in WorkerPc PROVE [worker[w] EXCEPT !.pc = pc] \in WorkerState
  BY DEF WorkerState
<1>3. QED
  BY <1>1, <1>2 DEF WorkerDone, WorkerAt

\* The two ways in which a request leaves its local state.
LEMMA RequestType ==
  ASSUME request \in [Requests -> RequestState], NEW r \in Requests,
         \/ RequestDone(r)
         \/ \E pc \in RequestPc : RequestAt(r, pc)
  PROVE  request' \in [Requests -> RequestState]
<1>1. IdleRequest \in RequestState
  BY DEF IdleRequest, RequestState, RequestPc, NoJob
<1>2. ASSUME NEW pc \in RequestPc PROVE [request[r] EXCEPT !.pc = pc] \in RequestState
  BY DEF RequestState
<1>3. QED
  BY <1>1, <1>2 DEF RequestDone, RequestAt

(***************************************************************************)
(* Type correctness, one step per action                                   *)
(***************************************************************************)

\* The database and the queue start empty and every process idle.
LEMMA TypeInit == Init => TypeOK
<1>1. IdleWorker \in WorkerState
  BY BoundsAssumption DEF IdleWorker, WorkerState, WorkerPc, NoJob, NoReceipt
<1>2. IdleRequest \in RequestState
  BY DEF IdleRequest, RequestState, RequestPc, NoJob
<1>3. QED
  BY <1>1, <1>2, BoundsAssumption, EnvironmentAssumption
  DEF Init, TypeOK, JobIds, NoJob, VideoStatus, JobStatus

\* Every action keeps the shape of the state. It takes WorkersHaveJobs, too: the jobs that
\* AWS Transcribe and the attempts counter are indexed by are those of busy workers.
LEMMA TypeStep ==
  ASSUME TypeOK, WorkersHaveJobs, [Next]_vars
  PROVE  TypeOK'
<1> USE DEF TypeOK, dbVars, queueVars
<1>0. /\ VideoStatus = {"uploading", "uploaded", "processing", "completed", "failed"}
      /\ JobStatus = {"queued", "processing", "completed", "failed"}
      /\ \A w \in Workers : worker[w].pc # "idle" => worker[w].job \in JobIds
  BY BoundsAssumption DEF TypeOK, VideoStatus, JobStatus, WorkersHaveJobs, JobIds
<1>1. ASSUME NEW v \in Videos, RequestUploadURL(v) PROVE TypeOK'
  BY <1>0, <1>1 DEF RequestUploadURL
<1>2. ASSUME NEW v \in Videos, DeleteVideo(v) PROVE TypeOK'
  <2>1. jobStatus' \in [JobIds -> JobStatus \cup {"absent"}]
    BY <1>2 DEF DeleteVideo
  <2>2. /\ video' \in [Videos -> VideoStatus \cup {"absent", "removed"}]
        /\ transcript' \in [Videos -> JobIds \cup {NoJob}]
    BY <1>2 DEF DeleteVideo
  <2>3. QED
    BY <1>2, <2>1, <2>2 DEF DeleteVideo
<1>3. ASSUME NEW v \in Videos, NEW r \in Requests, CompleteUploadCheck(r, v) PROVE TypeOK'
  BY <1>3 DEF CompleteUploadCheck, RequestState, RequestPc
<1>4. ASSUME NEW v \in Videos, NEW r \in Requests, TriggerRead(r, v) PROVE TypeOK'
  BY <1>4 DEF TriggerRead, RequestState, RequestPc
<1>5. ASSUME NEW r \in Requests, CompleteUploadWrite(r) PROVE TypeOK'
  BY <1>0, <1>5, VideoType, RequestType DEF CompleteUploadWrite
<1>6. ASSUME NEW r \in Requests, TriggerCreate(r) PROVE TypeOK'
  <2>1. CASE RequestDone(r) /\ UNCHANGED <<lastJob, jobStatus, jobVideo>>
    BY <1>6, <2>1, RequestType DEF TriggerCreate
  <2>2. CASE /\ lastJob < MaxJobs
             /\ lastJob' = lastJob + 1
             /\ jobStatus' = [jobStatus EXCEPT ![lastJob + 1] = "queued"]
             /\ jobVideo' = [jobVideo EXCEPT ![lastJob + 1] = request[r].video]
             /\ request' = [request EXCEPT ![r] = [pc |-> "mark", video |-> request[r].video,
                                                   job |-> lastJob + 1]]
    <3>1. lastJob + 1 \in JobIds /\ lastJob' \in 0 .. MaxJobs
      BY <2>2, BoundsAssumption DEF JobIds
    <3>2. request' \in [Requests -> RequestState]
      BY <2>2, <3>1 DEF RequestState, RequestPc
    <3>3. request[r].video \in Videos \cup {NoVideo}
      BY DEF RequestState
    <3>4. QED
      BY <1>0, <1>6, <2>2, <3>1, <3>2, <3>3 DEF TriggerCreate
  <2>3. QED
    BY <1>6, <2>1, <2>2 DEF TriggerCreate
<1>7. ASSUME NEW r \in Requests, TriggerMark(r) PROVE TypeOK'
  BY <1>0, <1>7, VideoType, RequestType DEF TriggerMark, RequestPc
<1>8. ASSUME NEW r \in Requests, TriggerPublish(r) PROVE TypeOK'
  BY <1>8, RequestType DEF TriggerPublish
<1>9. ASSUME NEW r \in Requests, TriggerUndoJob(r) PROVE TypeOK'
  BY <1>0, <1>9, JobType, RequestType DEF TriggerUndoJob, RequestPc
<1>10. ASSUME NEW r \in Requests, TriggerUndoVideo(r) PROVE TypeOK'
  BY <1>0, <1>10, VideoType, RequestType DEF TriggerUndoVideo
<1>11. ASSUME NEW j \in JobIds, Redrive(j) PROVE TypeOK'
  BY <1>11 DEF Redrive
<1>12. ASSUME NEW j \in JobIds, VisibilityTimeout(j) PROVE TypeOK'
  BY <1>12 DEF VisibilityTimeout
<1>13. ASSUME NEW w \in Workers, PollDatabase(w) PROVE TypeOK'
  BY <1>13, BoundsAssumption DEF PollDatabase, WorkerState, WorkerPc, NoReceipt
<1>14. ASSUME NEW w \in Workers, NEW j \in JobIds, Receive(w, j) PROVE TypeOK'
  <2>1. receives[j] + 1 \in 0 .. MaxReceives /\ receives[j] + 1 \in Nat
    BY <1>14, BoundsAssumption DEF Receive
  <2>2. worker' \in [Workers -> WorkerState]
    BY <1>14, <2>1 DEF Receive, WorkerState, WorkerPc
  <2>3. QED
    BY <1>14, <2>1, <2>2 DEF Receive
<1>15. ASSUME NEW w \in Workers, CheckJob(w) PROVE TypeOK'
  BY <1>15, WorkerType DEF CheckJob, WorkerPc
<1>16. ASSUME NEW w \in Workers, GiveUpJob(w) \/ ClaimJob(w) \/ FailJob(w) PROVE TypeOK'
  BY <1>0, <1>16, JobType, WorkerType DEF GiveUpJob, ClaimJob, FailJob, WorkerPc
<1>17. ASSUME NEW w \in Workers, GiveUpVideo(w) \/ ClaimVideo(w) \/ FailVideo(w) PROVE TypeOK'
  BY <1>0, <1>17, VideoType, WorkerType DEF GiveUpVideo, ClaimVideo, FailVideo, WorkerPc
<1>18. ASSUME NEW w \in Workers, IncrementAttempts(w) PROVE TypeOK'
  BY <1>0, <1>18, WorkerType DEF IncrementAttempts, WorkerPc
<1>19. ASSUME NEW w \in Workers, StartTranscription(w) PROVE TypeOK'
  <2>1. worker' \in [Workers -> WorkerState]
    BY <1>19, WorkerType DEF StartTranscription, WorkerPc
  <2>2. QED
    BY <1>0, <1>19, <2>1 DEF StartTranscription
<1>20. ASSUME NEW w \in Workers, ProcessorFails(w) \/ PersistRejected(w) PROVE TypeOK'
  BY <1>20, WorkerType DEF ProcessorFails, PersistRejected, WorkerPc
<1>21. ASSUME NEW w \in Workers, PersistResults(w) \/ PersistAnswerLost(w) PROVE TypeOK'
  BY <1>0, <1>21, VideoType, JobType, WorkerType, BoundsAssumption
  DEF PersistResults, PersistAnswerLost, Commit, Fault, WorkerPc
<1>22. ASSUME NEW w \in Workers, Acknowledge(w) PROVE TypeOK'
  BY <1>22, WorkerType DEF Acknowledge
<1>23. ASSUME NEW r \in Requests, TriggerPublishFails(r) PROVE TypeOK'
  BY <1>23, RequestType, BoundsAssumption DEF TriggerPublishFails, Fault, RequestPc
<1>24. ASSUME NEW r \in Requests, RequestFails(r) PROVE TypeOK'
  BY <1>24, RequestType, BoundsAssumption DEF RequestFails, Fault, RequestPc
<1>25. ASSUME NEW j \in JobIds, LoseLease(j) PROVE TypeOK'
  BY <1>25, BoundsAssumption DEF LoseLease, Fault
<1>26. ASSUME NEW w \in Workers, WorkerCallFails(w) PROVE TypeOK'
  <2>1. WorkerDone(w) \/ \E pc \in WorkerPc : WorkerAt(w, pc)
    BY <1>26 DEF WorkerCallFails, AfterLostCall, WorkerPc
  <2>2. QED
    BY <1>26, <2>1, WorkerType, BoundsAssumption DEF WorkerCallFails, Fault
<1>27. ASSUME NEW w \in Workers, WorkerCrash(w) PROVE TypeOK'
  BY <1>27, WorkerType, BoundsAssumption DEF WorkerCrash, Fault
<1>28. CASE UNCHANGED vars
  BY <1>28 DEF vars
<1>29. QED
  BY <1>1, <1>2, <1>3, <1>4, <1>5, <1>6, <1>7, <1>8, <1>9, <1>10, <1>11, <1>12, <1>13,
     <1>14, <1>15, <1>16, <1>17, <1>18, <1>19, <1>20, <1>21, <1>22, <1>23, <1>24, <1>25,
     <1>26, <1>27, <1>28
  DEF Next, UserStep, RequestStep, QueueStep, WorkerStep, FaultStep

(***************************************************************************)
(* What a step can do to each part of the state                            *)
(***************************************************************************)

\* Where a worker is that has passed the check of processMessage, until its run ends.
ReclaimPc == {"giveUpJob", "increment", "claimJob", "claimVideo", "run", "transcribing"}

\* Worker w goes on with its job. Only some actions lead to the steps that matter.
WorkerGoesOn(w, pc) ==
  /\ worker[w].pc # "idle"
  /\ WorkerAt(w, pc)
  /\ pc \in ReclaimPc => worker[w].pc \in ReclaimPc \/ CheckJob(w)
  /\ pc = "failJob" => worker[w].pc \in {"run", "transcribing"}
  /\ pc = "giveUpJob" => CheckJob(w)
  /\ pc = "giveUpVideo" => worker[w].pc = "giveUpJob"
  /\ pc = "transcribing" => StartTranscription(w)
  /\ pc = "ack" => CheckJob(w) \/ worker[w].pc = "giveUpVideo" \/ PersistResults(w)

WorkersEffect ==
  \/ UNCHANGED worker
  \/ \E w \in Workers : WorkerDone(w)
  \/ \E w \in Workers, pc \in WorkerPc : WorkerGoesOn(w, pc)
  \/ \E w \in Workers : PollDatabase(w) \/ \E j \in JobIds : Receive(w, j)

LatePc == {"mark", "publish", "undoJob", "undoVideo"}

RequestsEffect ==
  \/ UNCHANGED request
  \/ \E r \in Requests : RequestDone(r)
  \/ \E r \in Requests, pc \in LatePc : request[r].pc \in LatePc /\ RequestAt(r, pc)
  \/ \E r \in Requests : TriggerCreate(r)
  \/ \E r \in Requests, v \in Videos, pc \in {"completing", "create"} :
       request' = [request EXCEPT ![r] = [pc |-> pc, video |-> v, job |-> NoJob]]

\* Statuses other than "completed" are written to rows that exist; nothing else changes.
StatusesOnly ==
  /\ UNCHANGED <<jobVideo, lastJob, transcript>>
  /\ UNCHANGED video \/ \E v, s : s \in VideoStatus \ {"completed"} /\ SetVideo(v, s)
  /\ UNCHANGED jobStatus \/ \E j, s : s \in JobStatus \ {"completed"} /\ SetJob(j, s)

RowsEffect ==
  \/ StatusesOnly
  \/ \E v \in Videos : RequestUploadURL(v) \/ DeleteVideo(v)
  \/ \E r \in Requests : TriggerCreate(r)
  \/ \E w \in Workers : Commit(w) /\ (PersistResults(w) \/ PersistAnswerLost(w))

QueueEffect ==
  \/ UNCHANGED <<msg, receives>>
  \/ \E r \in Requests : TriggerPublish(r) \/ TriggerPublishFails(r)
  \/ \E j \in JobIds : /\ InQueue(j) /\ UNCHANGED receives
                      /\ \E s \in {"visible", "dlq"} : msg' = [msg EXCEPT ![j] = s]
  \/ \E w \in Workers : Acknowledge(w) \/ \E j \in JobIds : Receive(w, j)

CloudEffect == UNCHANGED cloudJobs \/ \E w \in Workers : StartTranscription(w)

\* Every step has an effect of each kind, and stutters on what it does not touch.
LEMMA EffectStep ==
  ASSUME [Next]_vars
  PROVE  WorkersEffect /\ RequestsEffect /\ RowsEffect /\ QueueEffect /\ CloudEffect
<1> USE DEF dbVars, queueVars, WorkersEffect, WorkerGoesOn, WorkerPc, ReclaimPc,
            RequestsEffect, LatePc, RowsEffect, StatusesOnly, VideoStatus, JobStatus,
            QueueEffect, InQueue, CloudEffect
<1>1. CASE \E v \in Videos : RequestUploadURL(v) \/ DeleteVideo(v)
  BY <1>1 DEF RequestUploadURL, DeleteVideo
<1>2. CASE \E v \in Videos, r \in Requests : CompleteUploadCheck(r, v) \/ TriggerRead(r, v)
  BY <1>2 DEF CompleteUploadCheck, TriggerRead
<1>3. CASE \E r \in Requests : CompleteUploadWrite(r) \/ TriggerUndoVideo(r) \/
          TriggerUndoJob(r)
  BY <1>3 DEF CompleteUploadWrite, TriggerUndoVideo, TriggerUndoJob
<1>4. CASE \E r \in Requests : TriggerCreate(r) \/ TriggerMark(r)
  BY <1>4 DEF TriggerCreate, TriggerMark
<1>5. CASE \E r \in Requests : TriggerPublish(r) \/ TriggerPublishFails(r) \/ RequestFails(r)
  BY <1>5 DEF TriggerPublish, TriggerPublishFails, RequestFails, Fault
<1>6. CASE \E j \in JobIds : Redrive(j) \/ VisibilityTimeout(j) \/ LoseLease(j)
  BY <1>6 DEF Redrive, VisibilityTimeout, LoseLease
<1>7. CASE \E w \in Workers : PollDatabase(w) \/ \E j \in JobIds : Receive(w, j)
  BY <1>7 DEF PollDatabase, Receive
<1>8. CASE \E w \in Workers : CheckJob(w) \/ Acknowledge(w)
  BY <1>8 DEF CheckJob, Acknowledge
<1>9. CASE \E w \in Workers : GiveUpJob(w) \/ ClaimJob(w) \/ FailJob(w)
  BY <1>9 DEF GiveUpJob, ClaimJob, FailJob
<1>10. CASE \E w \in Workers : GiveUpVideo(w) \/ ClaimVideo(w) \/ FailVideo(w)
  BY <1>10 DEF GiveUpVideo, ClaimVideo, FailVideo
<1>11. CASE \E w \in Workers : IncrementAttempts(w) \/ StartTranscription(w) \/
          ProcessorFails(w) \/ PersistRejected(w)
  BY <1>11 DEF IncrementAttempts, StartTranscription, ProcessorFails, PersistRejected
<1>12. CASE \E w \in Workers : PersistResults(w) \/ PersistAnswerLost(w)
  BY <1>12 DEF PersistResults, PersistAnswerLost, Commit
<1>13. CASE \E w \in Workers : WorkerCallFails(w) \/ WorkerCrash(w)
  BY <1>13 DEF WorkerCallFails, AfterLostCall, WorkerCrash
<1>14. CASE UNCHANGED vars
  BY <1>14 DEF vars
<1>15. QED
  BY <1>1, <1>2, <1>3, <1>4, <1>5, <1>6, <1>7, <1>8, <1>9, <1>10, <1>11, <1>12, <1>13, <1>14
  DEF Next, UserStep, RequestStep, QueueStep, WorkerStep, FaultStep
=============================================================================
