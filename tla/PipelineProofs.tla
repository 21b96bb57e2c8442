--------------------------- MODULE PipelineProofs ---------------------------
(***************************************************************************)
(* Theorems about TranscriptionPipeline that hold for every number of      *)
(* videos, requests, workers, jobs, deliveries and faults.                 *)
(***************************************************************************)
EXTENDS PipelineEffects

(***************************************************************************)
(* Jobs, and the requests and workers that hold them                       *)
(***************************************************************************)

\* Inserted jobs keep their video for ever, and receive counts only grow.
Grows ==
  /\ lastJob \in Nat /\ lastJob' \in Nat /\ lastJob <= lastJob'
  /\ \A j \in 1 .. lastJob : jobVideo'[j] = jobVideo[j] /\ receives[j] <= receives'[j]

\* Rows are numbered in order, keep their video, and deliveries are counted upwards.
LEMMA GrowsStep ==
  ASSUME TypeOK, [Next]_vars
  PROVE  Grows
<1>0. lastJob \in Nat /\ lastJob <= MaxJobs /\ 1 .. lastJob \subseteq JobIds
  BY BoundsAssumption DEF TypeOK, JobIds
<1>1. /\ lastJob' \in Nat /\ lastJob <= lastJob'
      /\ \A j \in 1 .. lastJob : jobVideo'[j] = jobVideo[j]
  <2>1. CASE \E r \in Requests : TriggerCreate(r)
    BY <1>0, <2>1 DEF TriggerCreate, TypeOK
  <2>2. CASE UNCHANGED <<jobVideo, lastJob>>
    BY <1>0, <2>2
  <2>3. QED
    BY <2>1, <2>2, EffectStep
    DEF RowsEffect, StatusesOnly, RequestUploadURL, DeleteVideo, Commit
<1>2. \A j \in JobIds : receives[j] <= receives'[j]
  <2>1. \A j \in JobIds : receives[j] \in Nat
    BY BoundsAssumption DEF TypeOK
  <2>2. ASSUME NEW w \in Workers, NEW j \in JobIds, Receive(w, j)
        PROVE  \A k \in JobIds : receives[k] <= receives'[k]
    BY <2>1, <2>2 DEF Receive, TypeOK
  <2>3. CASE UNCHANGED receives
    BY <2>1, <2>3
  <2>4. QED
    BY <2>2, <2>3, EffectStep
    DEF QueueEffect, TriggerPublish, TriggerPublishFails, Acknowledge
<1>3. QED
  BY <1>0, <1>1, <1>2 DEF Grows

\* A request keeps the video it read and the job it created.
LEMMA RequestsStep ==
  ASSUME TypeOK, RequestsHaveVideos, Grows, [Next]_vars
  PROVE  RequestsHaveVideos'
<1>0. request \in [Requests -> RequestState]
  BY DEF TypeOK
<1>1. CASE UNCHANGED request
  BY <1>1 DEF RequestsHaveVideos, Grows
<1>2. ASSUME NEW r \in Requests, RequestDone(r) PROVE RequestsHaveVideos'
  BY <1>0, <1>2 DEF RequestsHaveVideos, Grows, RequestDone, IdleRequest
<1>3. ASSUME NEW r \in Requests, NEW pc \in LatePc, request[r].pc \in LatePc, RequestAt(r, pc)
      PROVE  RequestsHaveVideos'
  <2>1. /\ request'[r].video = request[r].video
        /\ request'[r].job = request[r].job
    BY <1>0, <1>3 DEF RequestAt, RequestState
  <2>2. \A q \in Requests \ {r} : request'[q] = request[q]
    BY <1>0, <1>3 DEF RequestAt
  <2>3. QED
    BY <1>3, <2>1, <2>2 DEF RequestsHaveVideos, Grows, LatePc
<1>4. ASSUME NEW r \in Requests, TriggerCreate(r) PROVE RequestsHaveVideos'
  <2>1. CASE RequestDone(r)
    BY <1>2, <2>1
  <2>2. CASE /\ lastJob' = lastJob + 1
             /\ lastJob < MaxJobs
             /\ jobVideo' = [jobVideo EXCEPT ![lastJob + 1] = request[r].video]
             /\ request' = [request EXCEPT ![r] = [pc |-> "mark", video |-> request[r].video,
                                                   job |-> lastJob + 1]]
    <3>1. lastJob + 1 \in JobIds /\ lastJob + 1 \in 1 .. lastJob'
      BY <2>2, BoundsAssumption DEF JobIds, Grows
    <3>2. jobVideo'[lastJob + 1] = request[r].video
      BY <2>2, <3>1 DEF TypeOK
    <3>3. /\ request'[r] = [pc |-> "mark", video |-> request[r].video, job |-> lastJob + 1]
          /\ \A q \in Requests \ {r} : request'[q] = request[q]
      BY <1>0, <2>2
    <3>4. request[r].video \in Videos
      BY <1>4 DEF RequestsHaveVideos, TriggerCreate
    <3>5. QED
      BY <3>1, <3>2, <3>3, <3>4 DEF RequestsHaveVideos, Grows
  <2>3. QED
    BY <1>4, <2>1, <2>2 DEF TriggerCreate
<1>5. ASSUME NEW r \in Requests, NEW v \in Videos, NEW pc \in {"completing", "create"},
             request' = [request EXCEPT ![r] = [pc |-> pc, video |-> v, job |-> NoJob]]
      PROVE  RequestsHaveVideos'
  BY <1>0, <1>5 DEF RequestsHaveVideos, Grows
<1>6. QED
  BY <1>1, <1>2, <1>3, <1>4, <1>5, EffectStep DEF RequestsEffect

\* A job that is not inserted has no video, row or message, even after this step.
LEMMA KnownStep ==
  ASSUME TypeOK, KnownJobs, RequestsHaveVideos, Grows, [Next]_vars
  PROVE  KnownJobs'
<1>1. ASSUME NEW j \in JobIds
      PROVE  IF j <= lastJob' THEN jobVideo'[j] \in Videos
             ELSE jobVideo'[j] = NoVideo /\ jobStatus'[j] = "absent"
  <2> DEFINE Known == IF j <= lastJob THEN jobVideo[j] \in Videos
                      ELSE jobVideo[j] = NoVideo /\ jobStatus[j] = "absent"
  <2>0. Known
    BY DEF KnownJobs
  <2>1. CASE StatusesOnly
    BY <2>0, <2>1 DEF StatusesOnly, SetJob, JobExists, JobStatus, TypeOK
  <2>2. ASSUME NEW v \in Videos, RequestUploadURL(v) \/ DeleteVideo(v)
        PROVE  Known'
    BY <2>0, <2>2 DEF RequestUploadURL, DeleteVideo
  <2>3. ASSUME NEW r \in Requests, TriggerCreate(r)
        PROVE  Known'
    <3>1. request[r].video \in Videos /\ j \in Nat
      BY <2>3, BoundsAssumption DEF RequestsHaveVideos, TriggerCreate, JobIds
    <3>2. QED
      BY <2>0, <2>3, <3>1 DEF TriggerCreate, TypeOK, Grows
  <2>4. ASSUME NEW w \in Workers, Commit(w)
        PROVE  Known'
    BY <2>0, <2>4 DEF Commit, SetJob, JobExists, JobStatus, TypeOK
  <2>5. QED
    BY <2>1, <2>2, <2>3, <2>4, EffectStep DEF RowsEffect
<1>2. ASSUME NEW j \in JobIds, ~(j <= lastJob')
      PROVE  msg'[j] = "none"
  <2>0. ~(j <= lastJob) /\ msg[j] = "none" /\ j \notin 1 .. lastJob
    BY <1>2, BoundsAssumption DEF KnownJobs, Grows, JobIds
  <2>1. ASSUME NEW r \in Requests, TriggerPublish(r) \/ TriggerPublishFails(r)
        PROVE  msg'[j] = "none"
    BY <2>0, <2>1 DEF TriggerPublish, TriggerPublishFails, RequestsHaveVideos, TypeOK
  <2>2. ASSUME NEW k \in JobIds, InQueue(k), NEW s, msg' = [msg EXCEPT ![k] = s]
        PROVE  msg'[j] = "none"
    BY <2>0, <2>2 DEF InQueue, TypeOK
  <2>3. ASSUME NEW w \in Workers, NEW k \in JobIds, Receive(w, k)
        PROVE  msg'[j] = "none"
    BY <2>0, <2>3 DEF Receive, TypeOK
  <2>4. ASSUME NEW w \in Workers, Acknowledge(w)
        PROVE  msg'[j] = "none"
    BY <2>0, <2>4 DEF Acknowledge, InQueue, TypeOK
  <2>5. QED
    BY <2>0, <2>1, <2>2, <2>3, <2>4, EffectStep DEF QueueEffect
<1>3. QED
  BY <1>1, <1>2 DEF KnownJobs, JobIds

\* A worker only ever holds a job that is inserted and a receipt that was handed out.
LEMMA WorkersStep ==
  ASSUME TypeOK, WorkersHaveJobs, KnownJobs, Grows, [Next]_vars
  PROVE  WorkersHaveJobs'
<1>0. /\ worker \in [Workers -> WorkerState]
      /\ lastJob \in 0 .. MaxJobs
      /\ receives \in [JobIds -> 0 .. MaxReceives]
  BY DEF TypeOK
<1>a. TypeOK'
  BY TypeStep
<1>b. receives' \in [JobIds -> 0 .. MaxReceives] /\ lastJob' \in 0 .. MaxJobs
  BY <1>a DEF TypeOK
<1>1. ASSUME NEW u \in Workers, worker[u].pc # "idle",
             /\ worker'[u].job = worker[u].job
             /\ worker'[u].receipt = worker[u].receipt
             /\ worker'[u].count = worker[u].count
      PROVE  /\ worker'[u].job \in 1 .. lastJob'
             /\ worker'[u].receipt <= receives'[worker'[u].job]
             /\ worker'[u].receipt # NoReceipt => worker'[u].count = worker'[u].receipt
  <2>1. DEFINE k == worker[u].job
        h == worker[u].receipt
  <2>2. k \in 1 .. lastJob /\ h <= receives[k] /\ (h # NoReceipt => worker[u].count = h)
    BY <1>1 DEF WorkersHaveJobs
  <2>3. h \in Nat /\ receives[k] \in Nat /\ k \in 1 .. lastJob' /\ receives[k] <= receives'[k]
        /\ receives'[k] \in Nat
    BY <1>0, <1>b, <2>2, BoundsAssumption DEF Grows, WorkerState, JobIds
  <2>4. h <= receives'[k]
    BY <2>2, <2>3
  <2>5. QED
    BY <1>1, <2>2, <2>3, <2>4
<1>2. CASE UNCHANGED worker
  BY <1>1, <1>2 DEF WorkersHaveJobs
<1>3. ASSUME NEW w \in Workers, WorkerDone(w) PROVE WorkersHaveJobs'
  BY <1>0, <1>1, <1>3 DEF WorkersHaveJobs, WorkerDone, IdleWorker
<1>4. ASSUME NEW w \in Workers, NEW pc \in WorkerPc, WorkerGoesOn(w, pc) PROVE WorkersHaveJobs'
  <2>1. /\ worker'[w].job = worker[w].job
        /\ worker'[w].receipt = worker[w].receipt
        /\ worker'[w].count = worker[w].count
        /\ worker[w].pc # "idle"
    BY <1>0, <1>4 DEF WorkerGoesOn, WorkerAt, WorkerState
  <2>2. \A u \in Workers \ {w} : worker'[u] = worker[u]
    BY <1>0, <1>4 DEF WorkerGoesOn, WorkerAt
  <2>3. QED
    BY <1>1, <2>1, <2>2 DEF WorkersHaveJobs
<1>5. ASSUME NEW w \in Workers, PollDatabase(w) PROVE WorkersHaveJobs'
  <2>1. PICK j \in JobIds : /\ jobStatus[j] = "queued"
                            /\ worker' = [worker EXCEPT ![w] =
                                 [pc |-> "fetched", job |-> j, receipt |-> NoReceipt,
                                  count |-> attempts[j] + 1]]
    BY <1>5 DEF PollDatabase
  <2>a. j <= lastJob
    BY <2>1 DEF KnownJobs
  <2>2. j \in 1 .. lastJob' /\ receives'[j] \in Nat
    BY <1>b, <2>a, BoundsAssumption DEF Grows, JobIds
  <2>3. /\ worker'[w] = [pc |-> "fetched", job |-> j, receipt |-> NoReceipt,
                         count |-> attempts[j] + 1]
        /\ \A u \in Workers \ {w} : worker'[u] = worker[u]
    BY <1>0, <2>1
  <2>4. NoReceipt <= receives'[j]
    BY <2>2 DEF NoReceipt
  <2>5. QED
    BY <1>1, <2>2, <2>3, <2>4 DEF WorkersHaveJobs
<1>6. ASSUME NEW w \in Workers, NEW j \in JobIds, Receive(w, j) PROVE WorkersHaveJobs'
  <2>1. /\ worker'[w] = [pc |-> "fetched", job |-> j, receipt |-> receives[j] + 1,
                         count |-> receives[j] + 1]
        /\ \A u \in Workers \ {w} : worker'[u] = worker[u]
    BY <1>0, <1>6 DEF Receive
  <2>2. receives'[j] = receives[j] + 1 /\ receives[j] + 1 \in Nat
    BY <1>6, BoundsAssumption DEF Receive, TypeOK
  <2>3. j \in 1 .. lastJob'
    BY <1>6, BoundsAssumption DEF Receive, KnownJobs, Grows, JobIds
  <2>4. receives[j] + 1 <= receives'[j]
    BY <2>2
  <2>5. QED
    BY <1>1, <2>1, <2>3, <2>4 DEF WorkersHaveJobs
<1>7. QED
  BY <1>2, <1>3, <1>4, <1>5, <1>6, EffectStep DEF WorkersEffect


(***************************************************************************)
(* Rows: no orphans, and no completed row without a transcript             *)
(***************************************************************************)

\* Writing a status neither makes nor removes a row, and completes none.
LEMMA StatusesKeepRows ==
  ASSUME TypeOK, StatusesOnly
  PROVE  /\ \A v \in Videos : /\ VideoExists(v)' <=> VideoExists(v)
                              /\ video'[v] = "completed" => video[v] = "completed"
         /\ \A j \in JobIds : /\ JobExists(j)' <=> JobExists(j)
                              /\ jobStatus'[j] = "completed" => jobStatus[j] = "completed"
<1>1. ASSUME NEW u, NEW s \in VideoStatus \ {"completed"}, SetVideo(u, s)
      PROVE  \A v \in Videos : /\ VideoExists(v)' <=> VideoExists(v)
                               /\ video'[v] = "completed" => video[v] = "completed"
  BY <1>1 DEF SetVideo, VideoExists, TypeOK
<1>2. ASSUME NEW k, NEW s \in JobStatus \ {"completed"}, SetJob(k, s)
      PROVE  \A j \in JobIds : /\ JobExists(j)' <=> JobExists(j)
                               /\ jobStatus'[j] = "completed" => jobStatus[j] = "completed"
  BY <1>2 DEF SetJob, JobExists, TypeOK
<1>3. QED
  BY <1>1, <1>2 DEF StatusesOnly, VideoExists, JobExists

\* The argument of both properties: only persistResults completes, and in one transaction.
LEMMA RowsStep ==
  ASSUME TypeOK, KnownJobs, RequestsHaveVideos, WorkersHaveJobs, NoOrphanRows,
         CompletedHasTranscript, [Next]_vars
  PROVE  NoOrphanRows' /\ CompletedHasTranscript'
<1>0. /\ \A j \in JobIds : JobExists(j) => j <= lastJob /\ jobVideo[j] \in Videos
      /\ NoJob \notin JobIds
      /\ "completed" \in VideoStatus /\ "completed" \in JobStatus
      /\ "absent" \notin JobStatus
  BY DEF KnownJobs, JobExists, JobStatus, VideoStatus, NoJob, JobIds, NoOrphanRows
<1>1. CASE StatusesOnly
  <2>1. UNCHANGED <<jobVideo, transcript>>
    BY <1>1 DEF StatusesOnly
  <2>2. \A v \in Videos : transcript[v] # NoJob => transcript[v] \in JobIds
    BY DEF TypeOK
  <2>3. NoOrphanRows'
    BY <1>1, <2>1, <2>2, StatusesKeepRows DEF NoOrphanRows
  <2>4. CompletedHasTranscript'
    BY <1>1, <2>1, StatusesKeepRows DEF CompletedHasTranscript
  <2>5. QED
    BY <2>3, <2>4
<1>2. ASSUME NEW v \in Videos, RequestUploadURL(v)
      PROVE  NoOrphanRows' /\ CompletedHasTranscript'
  <2>1. UNCHANGED <<jobStatus, jobVideo, transcript>>
    BY <1>2 DEF RequestUploadURL
  <2>2. \A u \in Videos : /\ VideoExists(u) => VideoExists(u)'
                          /\ video'[u] = "completed" => video[u] = "completed"
    BY <1>2 DEF RequestUploadURL, VideoExists, VideoStatus, TypeOK
  <2>3. NoOrphanRows'
    BY <2>1, <2>2 DEF NoOrphanRows, JobExists
  <2>4. QED
    BY <2>1, <2>2, <2>3 DEF CompletedHasTranscript
<1>3. ASSUME NEW v \in Videos, DeleteVideo(v)
      PROVE  NoOrphanRows' /\ CompletedHasTranscript'
  <2>1. /\ video' = [video EXCEPT ![v] = "removed"]
        /\ jobStatus' = [j \in JobIds |-> IF jobVideo[j] = v THEN "absent" ELSE jobStatus[j]]
        /\ transcript' = [transcript EXCEPT ![v] = NoJob]
        /\ jobVideo' = jobVideo
    BY <1>3 DEF DeleteVideo
  <2>2. /\ \A u \in Videos \ {v} : video'[u] = video[u] /\ transcript'[u] = transcript[u]
        /\ video'[v] = "removed" /\ transcript'[v] = NoJob
        /\ \A j \in JobIds : jobStatus'[j] = IF jobVideo[j] = v THEN "absent" ELSE jobStatus[j]
    BY <2>1 DEF TypeOK
  <2>3. \A j \in JobIds : JobExists(j)' => JobExists(j) /\ jobVideo[j] # v
    BY <1>0, <2>2 DEF JobExists
  <2>4. NoOrphanRows'
    BY <1>0, <2>1, <2>2, <2>3 DEF NoOrphanRows, VideoExists, JobExists, TypeOK
  <2>5. \A j \in JobIds : jobStatus'[j] = "completed" =>
          jobStatus[j] = "completed" /\ jobVideo[j] \in Videos \ {v}
    BY <1>0, <2>2 DEF JobExists
  <2>6. CompletedHasTranscript'
    BY <2>1, <2>2, <2>5 DEF CompletedHasTranscript
  <2>7. QED
    BY <2>4, <2>6
<1>4. ASSUME NEW r \in Requests, TriggerCreate(r)
      PROVE  NoOrphanRows' /\ CompletedHasTranscript'
  <2>1. UNCHANGED <<video, transcript>>
    BY <1>4 DEF TriggerCreate
  <2>2. CASE UNCHANGED <<jobStatus, jobVideo>>
    BY <2>1, <2>2 DEF NoOrphanRows, CompletedHasTranscript, VideoExists, JobExists
  <2>3. CASE /\ VideoExists(request[r].video)
             /\ lastJob < MaxJobs
             /\ jobStatus' = [jobStatus EXCEPT ![lastJob + 1] = "queued"]
             /\ jobVideo' = [jobVideo EXCEPT ![lastJob + 1] = request[r].video]
    <3>1. request[r].video \in Videos /\ lastJob + 1 \in JobIds /\ ~(lastJob + 1 <= lastJob)
      BY <1>4, <2>3, BoundsAssumption DEF RequestsHaveVideos, TriggerCreate, TypeOK, JobIds
    <3>2. /\ \A j \in JobIds \ {lastJob + 1} :
               jobStatus'[j] = jobStatus[j] /\ jobVideo'[j] = jobVideo[j]
          /\ jobStatus'[lastJob + 1] = "queued" /\ jobVideo'[lastJob + 1] = request[r].video
      BY <2>3, <3>1 DEF TypeOK
    <3>3. ~JobExists(lastJob + 1)
      BY <1>0, <3>1
    <3>4. NoOrphanRows'
      BY <1>0, <2>1, <2>3, <3>1, <3>2, <3>3 DEF NoOrphanRows, VideoExists, JobExists, TypeOK
    <3>5. CompletedHasTranscript'
      BY <2>1, <3>2 DEF CompletedHasTranscript
    <3>6. QED
      BY <3>4, <3>5
  <2>4. QED
    BY <1>4, <2>2, <2>3 DEF TriggerCreate
<1>5. ASSUME NEW w \in Workers, Commit(w)
      PROVE  NoOrphanRows' /\ CompletedHasTranscript'
  <2>1. DEFINE j == worker[w].job
        v == jobVideo[j]
  <2>2. j \in JobIds /\ v \in Videos /\ JobExists(j) /\ VideoExists(v)
    BY <1>0, <1>5, BoundsAssumption
    DEF Commit, WorkersHaveJobs, KnownJobs, TypeOK, JobIds
  <2>3. /\ jobVideo' = jobVideo
        /\ transcript' = [transcript EXCEPT ![v] = j]
        /\ jobStatus' = [jobStatus EXCEPT ![j] = "completed"]
        /\ video' = [video EXCEPT ![v] = "completed"]
    BY <1>5, <2>2 DEF Commit, SetJob, SetVideo
  <2>4. /\ \A u \in Videos \ {v} : video'[u] = video[u] /\ transcript'[u] = transcript[u]
        /\ video'[v] = "completed" /\ transcript'[v] = j
        /\ \A k \in JobIds \ {j} : jobStatus'[k] = jobStatus[k]
        /\ jobStatus'[j] = "completed"
    BY <2>2, <2>3 DEF TypeOK
  <2>5. /\ \A u \in Videos : VideoExists(u) => VideoExists(u)'
        /\ \A k \in JobIds : JobExists(k)' <=> JobExists(k)
    BY <1>0, <2>2, <2>4 DEF VideoExists, JobExists
  <2> HIDE DEF j, v
  <2>6. NoOrphanRows'
    BY <2>2, <2>3, <2>4, <2>5 DEF NoOrphanRows, TypeOK, v
  <2>7. \A k \in JobIds : jobStatus'[k] = "completed" => transcript'[jobVideo[k]] # NoJob
    BY <1>0, <2>2, <2>4 DEF CompletedHasTranscript, JobExists, j, v
  <2>8. CompletedHasTranscript'
    BY <1>0, <2>2, <2>3, <2>4, <2>7 DEF CompletedHasTranscript
  <2>9. QED
    BY <2>6, <2>8
<1>6. QED
  BY <1>1, <1>2, <1>3, <1>4, <1>5, EffectStep DEF RowsEffect

(***************************************************************************)
(* Deliveries: a message is deleted only when its job is settled           *)
(***************************************************************************)

\* Settled is stable: rows do not come back, transcripts go only with their video's
\* jobs, and receive counts only grow.
LEMMA SettledStays ==
  ASSUME TypeOK, KnownJobs, WorkersHaveJobs, Grows, [Next]_vars,
         NEW j \in JobIds, j <= lastJob, Settled(j)
  PROVE  Settled(j)'
<1>0. /\ j \in 1 .. lastJob /\ jobVideo[j] \in Videos /\ jobVideo'[j] = jobVideo[j]
      /\ receives[j] <= receives'[j]
  BY BoundsAssumption DEF KnownJobs, Grows, JobIds
<1>a. TypeOK'
  BY TypeStep
<1>1. CASE receives[j] > MaxAttempts
  BY <1>0, <1>1, <1>a, BoundsAssumption DEF Settled, TypeOK
<1>2. CASE ~JobExists(j)
  <2>1. CASE StatusesOnly
    BY <1>2, <2>1, StatusesKeepRows DEF Settled
  <2>2. ASSUME NEW v \in Videos, RequestUploadURL(v) \/ DeleteVideo(v) PROVE Settled(j)'
    BY <1>2, <2>2 DEF Settled, RequestUploadURL, DeleteVideo, JobExists, JobStatus
  <2>3. ASSUME NEW r \in Requests, TriggerCreate(r) PROVE Settled(j)'
    BY <1>0, <1>2, <2>3 DEF Settled, TriggerCreate, JobExists, TypeOK, Grows
  <2>4. ASSUME NEW w \in Workers, Commit(w) PROVE Settled(j)'
    BY <1>2, <2>4 DEF Settled, Commit, SetJob, JobExists, TypeOK
  <2>5. QED
    BY <2>1, <2>2, <2>3, <2>4, EffectStep DEF RowsEffect
<1>3. CASE transcript[jobVideo[j]] # NoJob
  <2>1. CASE UNCHANGED transcript
    BY <1>0, <1>3, <2>1 DEF Settled
  <2>2. ASSUME NEW v \in Videos, DeleteVideo(v) PROVE Settled(j)'
    <3>1. CASE jobVideo[j] = v
      BY <2>2, <3>1 DEF Settled, DeleteVideo, JobExists, JobStatus
    <3>2. CASE jobVideo[j] # v
      BY <1>0, <1>3, <2>2, <3>2 DEF Settled, DeleteVideo, TypeOK
    <3>3. QED
      BY <3>1, <3>2
  <2>3. ASSUME NEW w \in Workers, Commit(w) PROVE Settled(j)'
    <3>1. worker[w].job \in JobIds /\ worker[w].job # NoJob
      BY <2>3, BoundsAssumption DEF Commit, WorkersHaveJobs, TypeOK, JobIds, NoJob
    <3>2. transcript' = [transcript EXCEPT ![jobVideo[worker[w].job]] = worker[w].job]
      BY <2>3 DEF Commit
    <3>3. transcript'[jobVideo[j]] # NoJob
      BY <1>0, <1>3, <3>1, <3>2 DEF TypeOK
    <3>4. QED
      BY <1>0, <3>3 DEF Settled
  <2>4. QED
    BY <2>1, <2>2, <2>3, EffectStep
    DEF RowsEffect, StatusesOnly, RequestUploadURL, TriggerCreate
<1>4. QED
  BY <1>1, <1>2, <1>3 DEF Settled

\* Where WorkerDone and WorkerAt put a worker.
LEMMA WorkerPcAfter ==
  ASSUME TypeOK, NEW w \in Workers
  PROVE  /\ WorkerDone(w) => worker'[w].pc = "idle"
         /\ \A pc : WorkerAt(w, pc) => worker'[w].pc = pc
BY DEF TypeOK, WorkerState, WorkerDone, WorkerAt, IdleWorker

\* A worker whose job and receipt do not change keeps its reason to give up or to delete.
LEMMA WorkersSettleStep ==
  ASSUME TypeOK, KnownJobs, WorkersHaveJobs, NoOrphanRows, CompletedHasTranscript,
         WorkersSettle, Grows, [Next]_vars
  PROVE  WorkersSettle'
<1> DEFINE GivesUp(u) == worker[u].pc \in {"giveUpJob", "giveUpVideo"}
                            => receives[worker[u].job] > MaxAttempts
           Deletes(u) == worker[u].pc = "ack" => Settled(worker[u].job)
<1>0. /\ worker \in [Workers -> WorkerState]
      /\ receives \in [JobIds -> 0 .. MaxReceives]
      /\ MaxAttempts \in Nat
  BY BoundsAssumption DEF TypeOK
<1>a. TypeOK'
  BY TypeStep
<1>b. receives' \in [JobIds -> 0 .. MaxReceives]
  BY <1>a DEF TypeOK
<1>c. \A j \in JobIds : j <= lastJob /\ Settled(j) => Settled(j)'
  BY SettledStays
<1>d. \A j \in JobIds : j <= lastJob /\ receives[j] > MaxAttempts => receives'[j] > MaxAttempts
  BY <1>0, <1>b, BoundsAssumption DEF Grows, JobIds
<1>e. \A u \in Workers : worker[u].pc # "idle" =>
        worker[u].job \in JobIds /\ worker[u].job <= lastJob
  BY BoundsAssumption DEF TypeOK, WorkersHaveJobs, JobIds
<1>f. ASSUME NEW u \in Workers, worker'[u] = worker[u] \/ worker'[u].receipt = NoReceipt,
             worker'[u].receipt # NoReceipt
      PROVE  GivesUp(u)' /\ Deletes(u)'
  BY <1>c, <1>d, <1>e, <1>f DEF WorkersSettle, Settled, JobExists
<1>1. CASE UNCHANGED worker
  BY <1>1, <1>f DEF WorkersSettle
<1>2. ASSUME NEW w \in Workers, WorkerDone(w) PROVE WorkersSettle'
  BY <1>0, <1>2, <1>f DEF WorkersSettle, WorkerDone, IdleWorker
<1>3. ASSUME NEW w \in Workers, NEW pc \in WorkerPc, WorkerGoesOn(w, pc) PROVE WorkersSettle'
  <2>1. PICK j \in JobIds : j = worker[w].job /\ j <= lastJob
    BY <1>3, <1>e DEF WorkerGoesOn
  <2>2. /\ worker'[w].job = j /\ worker'[w].receipt = worker[w].receipt
        /\ worker'[w].pc = pc
        /\ \A u \in Workers \ {w} : worker'[u] = worker[u]
        /\ worker[w].pc # "idle"
    BY <1>0, <1>3, <2>1 DEF WorkerGoesOn, WorkerAt, WorkerState
  <2>3. CheckJob(w) =>
          \/ pc = "idle"
          \/ pc = "ack" /\ jobStatus[j] = "completed"
          \/ pc = "giveUpJob" /\ worker[w].count > MaxAttempts
          \/ pc = "increment"
    BY <2>1, <2>2, WorkerPcAfter DEF CheckJob
  <2>4. ASSUME worker[w].receipt # NoReceipt, pc \in {"giveUpJob", "giveUpVideo"}
        PROVE  receives'[j] > MaxAttempts
    <3>1. CASE worker[w].pc = "giveUpJob"
      BY <1>d, <2>1, <2>4, <3>1 DEF WorkersSettle
    <3>2. CASE CheckJob(w) /\ pc = "giveUpJob"
      <4>1. worker[w].count > MaxAttempts
        BY <2>3, <3>2
      <4>2. worker[w].count = worker[w].receipt /\ worker[w].receipt <= receives[j]
        BY <2>1, <2>2, <2>4 DEF WorkersHaveJobs
      <4>3. worker[w].count \in Nat /\ receives[j] \in Nat
        BY <1>0, <2>1, BoundsAssumption DEF WorkerState
      <4>4. QED
        BY <1>0, <1>d, <2>1, <4>1, <4>2, <4>3
    <3>3. QED
      BY <1>3, <2>4, <3>1, <3>2 DEF WorkerGoesOn
  <2>5. ASSUME worker[w].receipt # NoReceipt, pc = "ack"
        PROVE  Settled(j)'
    <3>1. CASE worker[w].pc = "giveUpVideo"
      BY <1>c, <2>1, <2>5, <3>1 DEF WorkersSettle, Settled
    <3>2. CASE CheckJob(w)
      BY <1>c, <2>1, <2>3, <2>5, <3>2 DEF CompletedHasTranscript, Settled
    <3>3. CASE PersistResults(w)
      <4>1. jobVideo[j] \in Videos /\ jobVideo' = jobVideo
        BY <2>1, <3>3 DEF PersistResults, Commit, KnownJobs
      <4>2. transcript' = [transcript EXCEPT ![jobVideo[j]] = j]
        BY <2>1, <3>3 DEF PersistResults, Commit
      <4>3. j # NoJob
        BY <2>1 DEF JobIds, NoJob
      <4>4. QED
        BY <4>1, <4>2, <4>3 DEF Settled, TypeOK
    <3>4. QED
      BY <1>3, <2>5, <3>1, <3>2, <3>3 DEF WorkerGoesOn
  <2>6. ASSUME worker'[w].receipt # NoReceipt PROVE GivesUp(w)' /\ Deletes(w)'
    BY <2>2, <2>4, <2>5, <2>6 DEF Settled, JobExists
  <2>7. QED
    BY <1>f, <2>2, <2>6 DEF WorkersSettle
<1>4. ASSUME NEW w \in Workers, PollDatabase(w) PROVE WorkersSettle'
  BY <1>0, <1>4, <1>f DEF WorkersSettle, PollDatabase
<1>5. ASSUME NEW w \in Workers, NEW j \in JobIds, Receive(w, j) PROVE WorkersSettle'
  <2>1. /\ worker'[w].pc = "fetched"
        /\ \A u \in Workers \ {w} : worker'[u] = worker[u]
    BY <1>0, <1>5 DEF Receive
  <2>2. QED
    BY <1>f, <2>1 DEF WorkersSettle
<1>6. QED
  BY <1>1, <1>2, <1>3, <1>4, <1>5, EffectStep DEF WorkersEffect

\* Only a worker with a settled job deletes a message.
LEMMA AcknowledgedStep ==
  ASSUME TypeOK, KnownJobs, WorkersHaveJobs, WorkersSettle, AcknowledgedIsSettled, Grows,
         [Next]_vars
  PROVE  AcknowledgedIsSettled'
<1>1. \A j \in JobIds : j <= lastJob /\ Settled(j) => Settled(j)'
  BY SettledStays
<1>2. ASSUME NEW j \in JobIds, msg'[j] = "deleted" PROVE msg[j] # "none" /\ Settled(j)
  <2>1. CASE msg[j] = "deleted"
    BY <2>1 DEF AcknowledgedIsSettled
  <2>2. ASSUME msg[j] # "deleted", NEW w \in Workers, Acknowledge(w)
        PROVE  msg[j] # "none" /\ Settled(j)
    <3>1. /\ j = worker[w].job /\ worker[w].receipt # NoReceipt /\ worker[w].pc = "ack"
          /\ InQueue(j)
      BY <1>2, <2>2 DEF Acknowledge, TypeOK
    <3>2. QED
      BY <3>1 DEF WorkersSettle, InQueue
  <2>3. QED
    BY <1>2, <2>1, <2>2, EffectStep
    DEF QueueEffect, TriggerPublish, TriggerPublishFails, Receive, TypeOK
<1>3. \A j \in JobIds : msg[j] # "none" => j <= lastJob
  BY DEF KnownJobs
<1>4. QED
  BY <1>1, <1>2, <1>3 DEF AcknowledgedIsSettled

(***************************************************************************)
(* The transcription provider                                              *)
(***************************************************************************)

\* A second StartTranscription of a job is refused while the first is remembered.
LEMMA CloudStep ==
  ASSUME TypeOK, CloudJobsKnown, OneTranscriptionPerJob, [Next]_vars
  PROVE  CloudJobsKnown' /\ OneTranscriptionPerJob'
<1> SUFFICES ASSUME CloudProvider
             PROVE  CloudJobsKnown' /\ OneTranscriptionPerJob'
  BY DEF CloudJobsKnown, OneTranscriptionPerJob
<1>0. /\ worker \in [Workers -> WorkerState]
      /\ \A u \in Workers : worker[u].pc = "transcribing" => worker[u].job \in cloudJobs
      /\ \A u1, u2 \in Workers : /\ u1 # u2
                                 /\ worker[u1].pc = "transcribing"
                                 /\ worker[u2].pc = "transcribing"
                                 => worker[u1].job # worker[u2].job
  BY DEF TypeOK, CloudJobsKnown, OneTranscriptionPerJob
<1>1. ASSUME cloudJobs \subseteq cloudJobs',
             \A u \in Workers : worker'[u].pc = "transcribing" => worker'[u] = worker[u]
      PROVE  CloudJobsKnown' /\ OneTranscriptionPerJob'
  BY <1>0, <1>1 DEF CloudJobsKnown, OneTranscriptionPerJob
<1>2. ASSUME NEW w \in Workers, StartTranscription(w), worker'[w].pc = "transcribing"
      PROVE  CloudJobsKnown' /\ OneTranscriptionPerJob'
  <2>1. /\ worker' = [worker EXCEPT ![w].pc = "transcribing"]
        /\ worker[w].job \notin cloudJobs
        /\ cloudJobs' = cloudJobs \cup {worker[w].job}
    BY <1>2, WorkerPcAfter DEF StartTranscription, WorkerAt
  <2>2. /\ worker'[w].job = worker[w].job
        /\ \A u \in Workers \ {w} : worker'[u] = worker[u]
    BY <1>0, <2>1 DEF WorkerState
  <2>3. \A u \in Workers \ {w} : worker[u].pc = "transcribing" => worker[u].job # worker[w].job
    BY <1>0, <2>1
  <2>4. QED
    BY <1>0, <2>1, <2>2, <2>3 DEF CloudJobsKnown, OneTranscriptionPerJob
<1>3. cloudJobs \subseteq cloudJobs'
  BY EffectStep DEF CloudEffect, StartTranscription
<1>4. CASE UNCHANGED worker
  BY <1>1, <1>3, <1>4
<1>5. ASSUME NEW w \in Workers, WorkerDone(w)
      PROVE  CloudJobsKnown' /\ OneTranscriptionPerJob'
  BY <1>0, <1>1, <1>3, <1>5 DEF WorkerDone, IdleWorker
<1>6. ASSUME NEW w \in Workers, NEW pc \in WorkerPc, WorkerGoesOn(w, pc)
      PROVE  CloudJobsKnown' /\ OneTranscriptionPerJob'
  <2>1. worker'[w].pc = pc /\ \A u \in Workers \ {w} : worker'[u] = worker[u]
    BY <1>0, <1>6 DEF WorkerGoesOn, WorkerAt, WorkerState
  <2>2. CASE pc = "transcribing"
    BY <1>2, <1>6, <2>1, <2>2 DEF WorkerGoesOn
  <2>3. CASE pc # "transcribing"
    BY <1>1, <1>3, <2>1, <2>3
  <2>4. QED
    BY <2>2, <2>3
<1>7. ASSUME NEW w \in Workers, PollDatabase(w) \/ \E j \in JobIds : Receive(w, j)
      PROVE  CloudJobsKnown' /\ OneTranscriptionPerJob'
  <2>1. worker'[w].pc = "fetched" /\ \A u \in Workers \ {w} : worker'[u] = worker[u]
    BY <1>0, <1>7 DEF PollDatabase, Receive
  <2>2. QED
    BY <1>1, <1>3, <2>1
<1>8. QED
  BY <1>4, <1>5, <1>6, <1>7, EffectStep DEF WorkersEffect

(***************************************************************************)
(* The invariant and the safety theorems                                   *)
(***************************************************************************)

\* The invariant holds before the first request.
LEMMA IndInvInit == Init => IndInv
<1> SUFFICES ASSUME Init PROVE IndInv
  OBVIOUS
<1>1. TypeOK
  BY TypeInit
<1>2. KnownJobs /\ AcknowledgedIsSettled
  BY DEF Init, KnownJobs, AcknowledgedIsSettled, JobIds
<1>3. RequestsHaveVideos
  BY DEF Init, RequestsHaveVideos, IdleRequest
<1>4. WorkersHaveJobs /\ WorkersSettle /\ CloudJobsKnown /\ OneTranscriptionPerJob
  BY DEF Init, WorkersHaveJobs, WorkersSettle, CloudJobsKnown, OneTranscriptionPerJob,
         IdleWorker
<1>5. NoOrphanRows /\ CompletedHasTranscript
  BY DEF Init, NoOrphanRows, CompletedHasTranscript, VideoExists, JobExists, JobStatus
<1>6. QED
  BY <1>1, <1>2, <1>3, <1>4, <1>5 DEF IndInv

\* Each part of the invariant is preserved, given the others.
LEMMA IndInvStep == IndInv /\ [Next]_vars => IndInv'
<1> SUFFICES ASSUME IndInv, [Next]_vars PROVE IndInv'
  OBVIOUS
<1> USE DEF IndInv
<1>1. TypeOK'
  BY TypeStep
<1>2. Grows
  BY GrowsStep
<1>3. KnownJobs' /\ RequestsHaveVideos'
  BY <1>2, KnownStep, RequestsStep
<1>4. WorkersHaveJobs'
  BY <1>2, WorkersStep
<1>5. NoOrphanRows' /\ CompletedHasTranscript'
  BY RowsStep
<1>6. WorkersSettle' /\ AcknowledgedIsSettled'
  BY <1>2, WorkersSettleStep, AcknowledgedStep
<1>7. CloudJobsKnown' /\ OneTranscriptionPerJob'
  BY CloudStep
<1>8. QED
  BY <1>1, <1>3, <1>4, <1>5, <1>6, <1>7

\* The conjunction of all parts holds in every reachable state.
THEOREM Invariance == Spec => []IndInv
BY IndInvInit, IndInvStep, PTL DEF Spec

\* Rows, messages and local variables keep their shape.
THEOREM TypeCorrect == Spec => []TypeOK
<1>1. IndInv => TypeOK
  BY DEF IndInv
<1>2. QED
  BY <1>1, Invariance, PTL

\* The foreign keys and the transaction of persistResults leave no orphan, although
\* DeleteVideo interleaves with TriggerTranscription and with processMessage.
THEOREM OrphanFreedom == Spec => []NoOrphanRows
<1>1. IndInv => NoOrphanRows
  BY DEF IndInv
<1>2. QED
  BY <1>1, Invariance, PTL

\* "completed" is written only together with the transcript.
THEOREM CompletionTruth == Spec => []CompletedHasTranscript
<1>1. IndInv => CompletedHasTranscript
  BY DEF IndInv
<1>2. QED
  BY <1>1, Invariance, PTL

\* processMessage deletes no message whose job still has to be retried.
THEOREM SettledDeletion == Spec => []AcknowledgedIsSettled
<1>1. IndInv => AcknowledgedIsSettled
  BY DEF IndInv
<1>2. QED
  BY <1>1, Invariance, PTL

\* The name of the AWS Transcribe job works as a lock on the job.
THEOREM TranscriptionExclusion == Spec => []OneTranscriptionPerJob
<1>1. IndInv => OneTranscriptionPerJob
  BY DEF IndInv
<1>2. QED
  BY <1>1, Invariance, PTL

(***************************************************************************)
(* The deployment with one worker process                                  *)
(***************************************************************************)

SingleWorker == \A w1, w2 \in Workers : w1 = w2

\* No step but the COMMIT completes a job.
LEMMA OnlyCommitCompletes ==
  ASSUME TypeOK, [Next]_vars, NEW j \in JobIds, jobStatus'[j] = "completed",
         \A u \in Workers : ~PersistResults(u) /\ ~PersistAnswerLost(u)
  PROVE  jobStatus[j] = "completed"
BY EffectStep, StatusesKeepRows
DEF RowsEffect, RequestUploadURL, DeleteVideo, TriggerCreate, TypeOK

\* While a job stays completed its video keeps the transcript, unless another is committed.
LEMMA TranscriptStays ==
  ASSUME IndInv, [Next]_vars, NEW j \in JobIds, jobStatus[j] = "completed",
         jobStatus'[j] = "completed",
         \A u \in Workers : ~PersistResults(u) /\ ~PersistAnswerLost(u)
  PROVE  jobVideo'[j] = jobVideo[j] /\ transcript'[jobVideo[j]] = transcript[jobVideo[j]]
<1>1. /\ TypeOK /\ jobVideo[j] \in Videos /\ j <= lastJob
      /\ lastJob < MaxJobs => ~(lastJob + 1 <= lastJob)
  BY BoundsAssumption DEF IndInv, KnownJobs, NoOrphanRows, JobExists, JobStatus, TypeOK
<1>2. CASE StatusesOnly
  BY <1>2 DEF StatusesOnly
<1>3. CASE \E v \in Videos : RequestUploadURL(v) \/ DeleteVideo(v)
  BY <1>1, <1>3 DEF RequestUploadURL, DeleteVideo, TypeOK
<1>4. CASE \E r \in Requests : TriggerCreate(r)
  BY <1>1, <1>4 DEF TriggerCreate, TypeOK
<1>5. QED
  BY <1>2, <1>3, <1>4, EffectStep DEF RowsEffect

\* A fault of the worker leaves the queue and the requests alone, a fault of a request or of
\* the queue leaves the worker alone, and only a lost COMMIT changes a job's status.
LEMMA FaultEffect ==
  ASSUME TypeOK, FaultStep
  PROVE  /\ faults < MaxFaults /\ faults' = faults + 1 /\ UNCHANGED receives
         /\ \/ UNCHANGED <<worker, jobStatus>>
            \/ /\ UNCHANGED <<msg, request, jobStatus>>
               /\ \E w \in Workers : WorkerCallFails(w) \/ WorkerCrash(w)
            \/ /\ UNCHANGED <<msg, request>>
               /\ \E w \in Workers : PersistAnswerLost(w)
<1>1. CASE \E r \in Requests : TriggerPublishFails(r) \/ RequestFails(r)
  BY <1>1 DEF TriggerPublishFails, RequestFails, Fault, dbVars, queueVars
<1>2. CASE \E j \in JobIds : LoseLease(j)
  BY <1>2 DEF LoseLease, Fault, dbVars
<1>3. CASE \E w \in Workers : WorkerCallFails(w) \/ WorkerCrash(w)
  BY <1>3 DEF WorkerCallFails, WorkerCrash, Fault, dbVars, queueVars
<1>4. CASE \E w \in Workers : PersistAnswerLost(w)
  BY <1>4 DEF PersistAnswerLost, Commit, Fault, queueVars
<1>5. QED
  BY <1>1, <1>2, <1>3, <1>4 DEF FaultStep

\* Faults are only counted.
LEMMA FaultsGrow ==
  ASSUME TypeOK, [Next]_vars
  PROVE  faults \in Nat /\ (faults' = faults \/ faults' = faults + 1)
<1>1. faults \in Nat
  BY BoundsAssumption DEF TypeOK
<1>2. CASE FaultStep
  BY <1>1, <1>2, FaultEffect
<1>3. CASE UserStep \/ (\E r \in Requests : RequestStep(r)) \/ (\E j \in JobIds : QueueStep(j))
             \/ UNCHANGED vars
  BY <1>1, <1>3
  DEF vars, dbVars, queueVars, UserStep, RequestUploadURL, DeleteVideo, CompleteUploadCheck,
      TriggerRead, RequestStep, CompleteUploadWrite, TriggerCreate, TriggerMark, TriggerPublish, TriggerUndoJob,
      TriggerUndoVideo, QueueStep, Redrive, VisibilityTimeout
<1>4. CASE \E w \in Workers : PollDatabase(w) \/ WorkerStep(w) \/ \E j \in JobIds : Receive(w, j)
  BY <1>1, <1>4
  DEF dbVars, queueVars, PollDatabase, Receive, WorkerStep, CheckJob, GiveUpJob, GiveUpVideo,
      IncrementAttempts, ClaimJob, ClaimVideo, StartTranscription, ProcessorFails, PersistRejected,
      PersistResults, FailJob, FailVideo, Acknowledge
<1>5. QED
  BY <1>1, <1>2, <1>3, <1>4 DEF Next

\* A run that fails after its COMMIT has lost the answer, and its transcript is stored.
LEMMA CommitLost ==
  ASSUME IndInv, NEW w \in Workers, PersistAnswerLost(w)
  PROVE  /\ worker'[w].pc = "failJob" /\ worker'[w].job = worker[w].job
         /\ faults' # 0 /\ "db" \in FaultKinds
         /\ transcript'[jobVideo'[worker[w].job]] = worker[w].job
<1>1. TypeOK /\ worker[w].job \in 1 .. lastJob
  BY DEF IndInv, WorkersHaveJobs, PersistAnswerLost, Commit
<1>2. worker'[w].pc = "failJob" /\ worker'[w].job = worker[w].job
  BY <1>1 DEF PersistAnswerLost, WorkerAt, TypeOK, WorkerState
<1>3. faults' # 0 /\ "db" \in FaultKinds
  BY <1>1, BoundsAssumption DEF PersistAnswerLost, Fault, TypeOK
<1>4. worker[w].job \in JobIds /\ worker[w].job <= lastJob
  BY <1>1, BoundsAssumption DEF TypeOK, JobIds
<1>5. jobVideo[worker[w].job] \in Videos
  BY <1>4 DEF IndInv, KnownJobs
<1>6. transcript'[jobVideo'[worker[w].job]] = worker[w].job
  BY <1>1, <1>5 DEF PersistAnswerLost, Commit, TypeOK
<1>7. QED
  BY <1>2, <1>3, <1>6

\* The only worker that could complete a job is not the one that has just checked it, and
\* not the one that is about to fail it, unless it has lost the answer to the COMMIT.
LEMMA NotReclaimedStep ==
  ASSUME SingleWorker, IndInv, CompletedIsNotReclaimed, [Next]_vars
  PROVE  CompletedIsNotReclaimed'
<1>0. TypeOK /\ TypeOK' /\ worker \in [Workers -> WorkerState]
  BY TypeStep DEF IndInv, TypeOK
<1> SUFFICES ASSUME NEW w \in Workers, NEW j \in JobIds,
                    worker'[w].job = j, jobStatus'[j] = "completed",
                    worker'[w].pc \in ReclaimPc \cup {"failJob"}
             PROVE  /\ worker'[w].pc = "failJob" /\ faults' # 0 /\ "db" \in FaultKinds
                    /\ transcript'[jobVideo'[j]] = j
  BY DEF CompletedIsNotReclaimed, ReclaimPc
<1>1. \A u \in Workers : u = w
  BY DEF SingleWorker
<1>2. CASE \E u \in Workers : PersistAnswerLost(u)
  BY <1>1, <1>2, CommitLost
<1>3. CASE \E u \in Workers : PersistResults(u)
  BY <1>0, <1>1, <1>3, WorkerPcAfter DEF PersistResults, ReclaimPc
<1>4. CASE \A u \in Workers : ~PersistResults(u) /\ ~PersistAnswerLost(u)
  <2>1. jobStatus[j] = "completed"
    BY <1>0, <1>4, OnlyCommitCompletes
  <2>2. CASE UNCHANGED worker
    <3>1. /\ worker[w].pc = "failJob" /\ faults # 0 /\ "db" \in FaultKinds
          /\ transcript[jobVideo[j]] = j
      BY <2>1, <2>2 DEF CompletedIsNotReclaimed, ReclaimPc
    <3>2. faults' # 0
      BY <1>0, <3>1, FaultsGrow
    <3>3. QED
      BY <1>4, <2>1, <2>2, <3>1, <3>2, TranscriptStays
  <2>3. ASSUME NEW u \in Workers, WorkerDone(u) PROVE FALSE
    BY <1>0, <1>1, <2>3, WorkerPcAfter DEF ReclaimPc
  <2>4. ASSUME NEW u \in Workers, NEW pc \in WorkerPc, WorkerGoesOn(u, pc) PROVE FALSE
    <3>1. u = w
      BY <1>1
    <3>2. /\ worker'[w].pc = pc /\ worker'[w].job = worker[w].job
          /\ worker[w].pc # "idle"
      BY <1>0, <2>4, <3>1 DEF WorkerGoesOn, WorkerAt, WorkerState
    <3>3. CASE worker[w].pc \in ReclaimPc
      BY <2>1, <3>2, <3>3 DEF CompletedIsNotReclaimed, ReclaimPc
    <3>4. CASE CheckJob(w)
      BY <1>0, <2>1, <3>2, <3>4, WorkerPcAfter DEF CheckJob, ReclaimPc
    <3>5. QED
      BY <2>4, <3>1, <3>2, <3>3, <3>4 DEF WorkerGoesOn, ReclaimPc
  <2>5. ASSUME NEW u \in Workers, PollDatabase(u) \/ \E k \in JobIds : Receive(u, k)
        PROVE  FALSE
    <3>1. worker'[w].pc = "fetched"
      BY <1>0, <1>1, <2>5 DEF PollDatabase, Receive
    <3>2. QED
      BY <3>1 DEF ReclaimPc
  <2>6. QED
    BY <2>2, <2>3, <2>4, <2>5, EffectStep DEF WorkersEffect
<1>5. QED
  BY <1>2, <1>3, <1>4

\* With one worker the unguarded read of processMessage is enough: a completed job is
\* never taken up again. With two it is not (DocAtomicCheck.cfg).
THEOREM SingleWorkerNeverReclaims ==
  ASSUME SingleWorker
  PROVE  Spec => []CompletedIsNotReclaimed
<1>1. Init => CompletedIsNotReclaimed
  BY DEF Init, CompletedIsNotReclaimed, IdleWorker
<1>2. IndInv /\ CompletedIsNotReclaimed /\ [Next]_vars => CompletedIsNotReclaimed'
  BY NotReclaimedStep
<1>3. QED
  BY <1>1, <1>2, Invariance, PTL DEF Spec

(***************************************************************************)
(* One worker and one fault: no job is stranded                            *)
(***************************************************************************)

\* A request in the LatePc has an inserted job.
LEMMA LateJobs ==
  ASSUME IndInv
  PROVE  /\ \A r \in Requests : request[r].pc \in LatePc =>
              request[r].job \in JobIds /\ request[r].job <= lastJob
         /\ \A w \in Workers : worker[w].pc # "idle" =>
              worker[w].job \in JobIds /\ worker[w].job <= lastJob
<1>1. lastJob \in 0 .. MaxJobs /\ MaxJobs \in Nat
  BY BoundsAssumption DEF IndInv, TypeOK
<1>2. \A j : j \in 1 .. lastJob => j \in JobIds /\ j <= lastJob
  BY <1>1 DEF JobIds
<1>3. /\ \A r \in Requests : request[r].pc \in LatePc => request[r].job \in 1 .. lastJob
      /\ \A w \in Workers : worker[w].pc # "idle" => worker[w].job \in 1 .. lastJob
  BY DEF IndInv, RequestsHaveVideos, WorkersHaveJobs, LatePc
<1>4. QED
  BY <1>2, <1>3

\* A request that has not published either was there before or has just created its job.
LEMMA UnpublishedStep ==
  ASSUME TypeOK, [Next]_vars, NEW r \in Requests, request'[r].pc \in UnpublishedPc
  PROVE  \/ request[r].pc \in UnpublishedPc /\ request'[r].job = request[r].job
         \/ /\ request'[r].job = lastJob + 1 /\ lastJob < MaxJobs
            /\ \A q \in Requests \ {r} : request'[q] = request[q]
<1>0. request \in [Requests -> RequestState]
  BY DEF TypeOK
<1>1. ASSUME NEW q \in Requests, RequestDone(q)
      PROVE  request'[r] = request[r]
  BY <1>0, <1>1 DEF RequestDone, IdleRequest, UnpublishedPc
<1>2. ASSUME NEW q \in Requests, NEW pc, RequestAt(q, pc),
             pc \in UnpublishedPc => request[q].pc \in UnpublishedPc
      PROVE  request[r].pc \in UnpublishedPc /\ request'[r].job = request[r].job
  BY <1>0, <1>2 DEF RequestAt, RequestState
<1>3. CASE UNCHANGED request
  BY <1>3
<1>4. CASE \E v \in Videos, q \in Requests : CompleteUploadCheck(q, v) \/ TriggerRead(q, v)
  BY <1>0, <1>4 DEF CompleteUploadCheck, TriggerRead, UnpublishedPc
<1>5. CASE \E q \in Requests : CompleteUploadWrite(q) \/ TriggerUndoVideo(q) \/ TriggerPublish(q)
  BY <1>1, <1>5 DEF CompleteUploadWrite, TriggerUndoVideo, TriggerPublish
<1>6. CASE \E q \in Requests : TriggerCreate(q)
  BY <1>0, <1>1, <1>6 DEF TriggerCreate
<1>7. CASE \E q \in Requests : TriggerMark(q) \/ TriggerUndoJob(q) \/ TriggerPublishFails(q)
  BY <1>1, <1>2, <1>7 DEF TriggerMark, TriggerUndoJob, TriggerPublishFails, UnpublishedPc
<1>8. CASE \E q \in Requests : RequestFails(q)
  BY <1>1, <1>2, <1>8 DEF RequestFails, UnpublishedPc
<1>9. QED
  BY <1>3, <1>4, <1>5, <1>6, <1>7, <1>8
  DEF Next, vars, UserStep, RequestStep, QueueStep, WorkerStep, FaultStep, RequestUploadURL,
      DeleteVideo, Redrive, VisibilityTimeout, LoseLease, PollDatabase, Receive, CheckJob,
      GiveUpJob, GiveUpVideo, IncrementAttempts, ClaimJob, ClaimVideo, StartTranscription,
      ProcessorFails, PersistRejected, PersistResults, FailJob, FailVideo, Acknowledge,
      WorkerCallFails, PersistAnswerLost, Commit, WorkerCrash

\* A message that does not exist yet is only made by the request that publishes it.
LEMMA UnsentStep ==
  ASSUME TypeOK, [Next]_vars, NEW j \in JobIds, msg[j] = "none"
  PROVE  /\ receives'[j] = receives[j]
         /\ \/ msg'[j] = "none"
            \/ \E r \in Requests : /\ request[r].pc = "publish" /\ request[r].job = j
                                   /\ request'[r].pc \notin UnpublishedPc
<1>0. /\ msg \in [JobIds -> {"none", "visible", "inflight", "deleted", "dlq"}]
      /\ receives \in [JobIds -> 0 .. MaxReceives]
      /\ request \in [Requests -> RequestState]
  BY DEF TypeOK
<1>1. CASE \E r \in Requests : TriggerPublish(r) \/ TriggerPublishFails(r)
  BY <1>0, <1>1 DEF TriggerPublish, TriggerPublishFails, RequestDone, RequestAt, IdleRequest,
                    UnpublishedPc, RequestState
<1>2. CASE UNCHANGED <<msg, receives>>
  BY <1>2
<1>3. CASE \E k \in JobIds : /\ InQueue(k) /\ UNCHANGED receives
                             /\ \E s \in {"visible", "dlq"} : msg' = [msg EXCEPT ![k] = s]
  BY <1>0, <1>3 DEF InQueue
<1>4. CASE \E w \in Workers : Acknowledge(w) \/ \E k \in JobIds : Receive(w, k)
  BY <1>0, <1>4 DEF Acknowledge, Receive, InQueue
<1>5. QED
  BY <1>1, <1>2, <1>3, <1>4, EffectStep DEF QueueEffect

\* A new job's number is new, and only the request that creates a job publishes it.
LEMMA PublishedOnceStep ==
  ASSUME IndInv, PublishedOnce, [Next]_vars
  PROVE  PublishedOnce'
<1>0. /\ TypeOK /\ MaxJobs \in Nat /\ lastJob \in Nat
      /\ \A r \in Requests : request[r].pc \in UnpublishedPc =>
           request[r].job \in JobIds /\ request[r].job <= lastJob
  BY LateJobs, BoundsAssumption DEF IndInv, TypeOK, UnpublishedPc, LatePc
<1>1. /\ \A j \in JobIds : msg[j] = "none" => receives[j] = 0
      /\ \A r \in Requests : request[r].pc \in UnpublishedPc => msg[request[r].job] = "none"
  BY DEF PublishedOnce
<1>2. \A q, r \in Requests : /\ q # r
                             /\ request[q].pc \in UnpublishedPc
                             /\ request[r].pc \in UnpublishedPc
                             => request[q].job # request[r].job
  BY DEF PublishedOnce
<1>3. lastJob < MaxJobs => lastJob + 1 \in JobIds /\ msg[lastJob + 1] = "none"
                           /\ ~(lastJob + 1 <= lastJob)
  BY <1>0 DEF JobIds, IndInv, KnownJobs
<1>4. ASSUME NEW r \in Requests, request'[r].pc \in UnpublishedPc
      PROVE  \/ /\ request[r].pc \in UnpublishedPc /\ request'[r].job = request[r].job
                /\ request[r].job \in JobIds /\ request[r].job <= lastJob
             \/ /\ request'[r].job = lastJob + 1 /\ lastJob < MaxJobs
                /\ \A q \in Requests \ {r} : request'[q] = request[q]
  BY <1>0, <1>4, UnpublishedStep
<1>5. ASSUME NEW j \in JobIds, msg'[j] = "none" PROVE receives'[j] = 0
  <2>1. CASE msg[j] = "none"
    BY <1>0, <1>1, <2>1, UnsentStep
  <2>2. CASE msg[j] # "none"
    BY <1>0, <1>5, <2>2, EffectStep
    DEF QueueEffect, TriggerPublish, TriggerPublishFails, Acknowledge, Receive, TypeOK
  <2>3. QED
    BY <2>1, <2>2
<1>6. ASSUME NEW r \in Requests, request'[r].pc \in UnpublishedPc
      PROVE  msg'[request'[r].job] = "none"
  <2>1. PICK j \in JobIds : j = request'[r].job /\ msg[j] = "none"
    BY <1>1, <1>3, <1>4, <1>6
  <2>2. ASSUME NEW q \in Requests, request[q].pc = "publish", request[q].job = j,
               request'[q].pc \notin UnpublishedPc
        PROVE  FALSE
    <3>1. q # r /\ request[q].pc \in UnpublishedPc /\ j <= lastJob
      BY <1>0, <1>6, <2>2 DEF UnpublishedPc
    <3>2. request[r].pc \in UnpublishedPc /\ request[r].job = j
      BY <1>3, <1>4, <1>6, <2>1, <3>1
    <3>3. QED
      BY <1>2, <2>2, <3>1, <3>2
  <2>3. QED
    BY <1>0, <2>1, <2>2, UnsentStep
<1>7. ASSUME NEW q \in Requests, NEW r \in Requests, q # r,
             request'[q].pc \in UnpublishedPc, request'[r].pc \in UnpublishedPc
      PROVE  request'[q].job # request'[r].job
  <2>1. CASE /\ request[q].pc \in UnpublishedPc /\ request'[q].job = request[q].job
             /\ request[r].pc \in UnpublishedPc /\ request'[r].job = request[r].job
    BY <1>2, <1>7, <2>1
  <2>2. ASSUME NEW p \in Requests, NEW u \in Requests, p # u,
               request'[u].pc \in UnpublishedPc,
               request'[p].job = lastJob + 1, lastJob < MaxJobs,
               \A x \in Requests \ {p} : request'[x] = request[x]
        PROVE  request'[u].job # request'[p].job
    BY <1>0, <1>3, <2>2
  <2>3. QED
    BY <1>4, <1>7, <2>1, <2>2
<1>8. QED
  BY <1>5, <1>6, <1>7 DEF PublishedOnce

\* What a step of processMessage does, if it does not fail: it changes its own job and the
\* message it holds, starts a run within the limit, makes a job "processing" by claiming it,
\* and leaves it only when that is over.
WorkerMove(w, j) ==
  /\ j \in JobIds /\ worker[w].job = j /\ worker[w].pc # "idle"
  /\ UNCHANGED <<receives, request, faults>>
  /\ \A u \in Workers \ {w} : worker'[u] = worker[u]
  /\ \/ worker'[w].pc = "idle"
     \/ worker'[w].job = j /\ worker'[w].receipt = worker[w].receipt
                           /\ worker'[w].count = worker[w].count
  /\ worker'[w].pc \in RunPc => worker[w].pc \in RunPc \/ worker[w].count <= MaxAttempts
  /\ worker'[w].pc \in UnclaimedPc \cup ClaimedPc => worker[w].pc \in UnclaimedPc \cup ClaimedPc
  /\ worker'[w].pc \in {"giveUpVideo", "ack"} => jobStatus'[j] # "processing"
  /\ \A k \in JobIds \ {j} : jobStatus'[k] = jobStatus[k] /\ msg'[k] = msg[k]
  /\ jobStatus'[j] = "queued" =>
       /\ jobStatus[j] = "queued"
       /\ worker[w].pc \in UnclaimedPc => worker'[w].pc \in UnclaimedPc
  /\ jobStatus'[j] = "processing" =>
       \/ worker'[w].pc \in ClaimedPc
       \/ /\ jobStatus[j] = "processing" /\ worker[w].pc \notin ClaimedPc
          /\ worker[w].pc \in UnclaimedPc => worker'[w].pc \in UnclaimedPc
  /\ JobExists(j)' => JobExists(j)
  /\ \/ msg'[j] = msg[j]
     \/ /\ worker[w].pc = "ack" /\ worker[w].receipt # NoReceipt
        /\ worker'[w].pc = "idle"

LEMMA WorkerMoves ==
  ASSUME IndInv, DeletesWhenIdle, NEW w \in Workers, WorkerStep(w)
  PROVE  \E j \in JobIds : WorkerMove(w, j)
<1>0. /\ worker \in [Workers -> WorkerState]
      /\ jobStatus \in [JobIds -> JobStatus \cup {"absent"}]
      /\ msg \in [JobIds -> {"none", "visible", "inflight", "deleted", "dlq"}]
      /\ JobStatus = {"queued", "processing", "completed", "failed"}
  BY DEF IndInv, TypeOK, JobStatus
<1>1. worker[w].pc # "idle"
  BY DEF WorkerStep, CheckJob, GiveUpJob, GiveUpVideo, IncrementAttempts, ClaimJob, ClaimVideo,
     StartTranscription, ProcessorFails, PersistRejected, PersistResults, Commit, FailJob,
     FailVideo, Acknowledge
<1>2. PICK j \in JobIds : j = worker[w].job
  BY <1>1, LateJobs
<1>3. ASSUME NEW pc, WorkerAt(w, pc)
      PROVE  /\ worker'[w].pc = pc /\ worker'[w].job = j
             /\ worker'[w].receipt = worker[w].receipt /\ worker'[w].count = worker[w].count
             /\ \A u \in Workers \ {w} : worker'[u] = worker[u]
  BY <1>0, <1>2, <1>3 DEF WorkerAt, WorkerState
<1>4. ASSUME WorkerDone(w)
      PROVE  worker'[w].pc = "idle" /\ \A u \in Workers \ {w} : worker'[u] = worker[u]
  BY <1>0, <1>4 DEF WorkerDone, IdleWorker
<1>5. ASSUME NEW s \in JobStatus, SetJob(j, s)
      PROVE  /\ \A k \in JobIds \ {j} : jobStatus'[k] = jobStatus[k]
             /\ JobExists(j)' => JobExists(j) /\ jobStatus'[j] = s
             /\ jobStatus'[j] \in {s, "absent"}
  BY <1>0, <1>2, <1>5 DEF SetJob, JobExists
<1> USE <1>1, <1>2 DEF WorkerMove, UnclaimedPc, ClaimedPc, RunPc, queueVars, dbVars
<1>6. CASE CheckJob(w)
  BY <1>0, <1>3, <1>4, <1>6 DEF CheckJob, JobExists
<1>7. CASE GiveUpJob(w) \/ FailJob(w)
  BY <1>0, <1>3, <1>5, <1>7 DEF GiveUpJob, FailJob
<1>8. CASE ClaimJob(w)
  BY <1>0, <1>3, <1>5, <1>8 DEF ClaimJob
<1>9. CASE GiveUpVideo(w)
  <2>1. jobStatus[j] # "processing"
    BY <1>9 DEF DeletesWhenIdle, GiveUpVideo
  <2>2. QED
    BY <1>3, <1>9, <2>1 DEF GiveUpVideo, JobExists
<1>10. CASE ClaimVideo(w) \/ IncrementAttempts(w)
  BY <1>3, <1>10 DEF ClaimVideo, IncrementAttempts, JobExists
<1>11. CASE StartTranscription(w) \/ ProcessorFails(w) \/ PersistRejected(w)
  BY <1>3, <1>11 DEF StartTranscription, ProcessorFails, PersistRejected, JobExists
<1>12. CASE PersistResults(w)
  BY <1>0, <1>3, <1>5, <1>12 DEF PersistResults, Commit
<1>13. CASE FailVideo(w)
  BY <1>4, <1>13 DEF FailVideo, JobExists
<1>14. CASE Acknowledge(w)
  BY <1>0, <1>4, <1>14 DEF Acknowledge, JobExists
<1>15. QED
  BY <1>6, <1>7, <1>8, <1>9, <1>10, <1>11, <1>12, <1>13, <1>14 DEF WorkerStep

\* What users, requests and the queue do, if it does not fail: no worker is disturbed in its
\* lease, a job only gets "queued", and a first delivery that was due stays due.
OutsideMove ==
  /\ UNCHANGED <<worker, receives, faults>>
  /\ \A j \in JobIds :
       /\ jobStatus'[j] = "processing" => jobStatus[j] = "processing"
       /\ jobStatus'[j] = "queued" => jobStatus[j] = "queued" \/ Fresh(j)'
       /\ JobExists(j)' /\ j <= lastJob => JobExists(j)
       /\ JobExists(j)' /\ Fresh(j) => Fresh(j)'
       /\ jobStatus'[j] = "processing" /\ Deliverable(j) => Deliverable(j)'
       /\ Expiring(j) => Expiring(j)'
       /\ msg[j] = "inflight" /\ (\E w \in Workers : HoldsLease(w, j)) => msg'[j] = "inflight"

\* A request that is not changed still counts, and so does one that goes on.
LEMMA RequestsOn ==
  ASSUME TypeOK, NEW r \in Requests, NEW j, NEW pcs,
         \A q \in Requests \ {r} : request'[q] = request[q],
         request[r].job = j /\ request[r].pc \in pcs =>
           request'[r].job = j /\ request'[r].pc \in pcs,
         RequestOn(j, pcs)
  PROVE  RequestOn(j, pcs)'
BY DEF RequestOn

LEMMA OutsideMoves ==
  ASSUME IndInv, PublishedOnce,
         UserStep \/ (\E r \in Requests : RequestStep(r)) \/ (\E j \in JobIds : QueueStep(j))
           \/ UNCHANGED vars
  PROVE  OutsideMove
<1>0. /\ request \in [Requests -> RequestState] /\ TypeOK
      /\ jobStatus \in [JobIds -> JobStatus \cup {"absent"}]
      /\ jobVideo \in [JobIds -> Videos \cup {NoVideo}]
      /\ msg \in [JobIds -> {"none", "visible", "inflight", "deleted", "dlq"}]
      /\ JobStatus = {"queued", "processing", "completed", "failed"}
      /\ MaxReceives \in Nat \ {0} /\ receives \in [JobIds -> 0 .. MaxReceives]
  BY BoundsAssumption DEF IndInv, TypeOK, JobStatus
<1>1. ASSUME UNCHANGED <<worker, receives, faults, msg, jobStatus>>,
             \A j \in JobIds : JobExists(j) => /\ RequestOn(j, UnpublishedPc)
                                                  => RequestOn(j, UnpublishedPc)'
                                               /\ RequestOn(j, UnpublishedPc \cup {"undoJob"})
                                                  => RequestOn(j, UnpublishedPc \cup {"undoJob"})'
      PROVE  OutsideMove
  BY <1>0, <1>1 DEF OutsideMove, Fresh, Deliverable, Expiring, Spent, InQueue, JobExists
<1>2. ASSUME UNCHANGED <<worker, receives, faults, request>>,
             \A j \in JobIds : \/ jobStatus'[j] = jobStatus[j]
                               \/ jobStatus'[j] \in {"absent", "failed"} /\ JobExists(j),
             \A j \in JobIds : \/ msg'[j] = msg[j]
                               \/ /\ msg[j] = "visible" /\ msg'[j] = "dlq"
                                  /\ receives[j] >= MaxReceives
                               \/ /\ msg[j] = "inflight" /\ msg'[j] = "visible"
                                  /\ \A w \in Workers : ~HoldsLease(w, j)
      PROVE  OutsideMove
  BY <1>0, <1>2 DEF OutsideMove, Fresh, Deliverable, Expiring, Spent, InQueue, JobExists, RequestOn
<1>3. ASSUME NEW r \in Requests, UNCHANGED <<worker, receives, faults, msg, jobStatus>>,
             \A q \in Requests \ {r} : request'[q] = request[q],
             \/ request[r].pc \notin UnpublishedPc \cup {"undoJob"}
             \/ ~JobExists(request[r].job)
             \/ /\ request[r].pc \in UnpublishedPc /\ request'[r].pc \in UnpublishedPc
                /\ request'[r].job = request[r].job
      PROVE  OutsideMove
  <2>1. ASSUME NEW j \in JobIds, JobExists(j), NEW pcs,
               pcs = UnpublishedPc \/ pcs = UnpublishedPc \cup {"undoJob"},
               RequestOn(j, pcs)
        PROVE  RequestOn(j, pcs)'
    BY <1>0, <1>3, <2>1, RequestsOn
  <2>2. QED
    BY <1>1, <1>3, <2>1
<1>4. CASE \E v \in Videos : RequestUploadURL(v) \/ DeleteVideo(v)
  BY <1>0, <1>2, <1>4 DEF RequestUploadURL, DeleteVideo, queueVars, JobExists
<1>5. CASE \E v \in Videos, r \in Requests : CompleteUploadCheck(r, v) \/ TriggerRead(r, v)
  BY <1>0, <1>3, <1>5 DEF CompleteUploadCheck, TriggerRead, queueVars, dbVars, UnpublishedPc
<1>6. CASE \E r \in Requests : CompleteUploadWrite(r) \/ TriggerUndoVideo(r)
  BY <1>0, <1>3, <1>6
  DEF CompleteUploadWrite, TriggerUndoVideo, RequestDone, queueVars, dbVars, UnpublishedPc
<1>7. ASSUME NEW r \in Requests, TriggerCreate(r) PROVE OutsideMove
  <2>1. CASE RequestDone(r) /\ UNCHANGED jobStatus
    BY <1>0, <1>3, <1>7, <2>1 DEF TriggerCreate, RequestDone, queueVars, dbVars, UnpublishedPc
  <2>2. CASE /\ lastJob < MaxJobs
             /\ jobStatus' = [jobStatus EXCEPT ![lastJob + 1] = "queued"]
             /\ request' = [request EXCEPT ![r] = [pc |-> "mark", video |-> request[r].video,
                                                   job |-> lastJob + 1]]
    <3>1. PICK n \in JobIds : n = lastJob + 1 /\ ~(n <= lastJob)
      BY <2>2, BoundsAssumption DEF IndInv, TypeOK, JobIds
    <3>2. msg[n] = "none" /\ receives[n] = 0 /\ UNCHANGED <<worker, receives, faults, msg>>
      BY <1>7, <3>1 DEF IndInv, KnownJobs, PublishedOnce, TriggerCreate, queueVars
    <3>3. /\ request'[r].job = n /\ request'[r].pc = "mark" /\ request[r].pc = "create"
          /\ \A q \in Requests \ {r} : request'[q] = request[q]
          /\ jobStatus'[n] = "queued" /\ \A j \in JobIds \ {n} : jobStatus'[j] = jobStatus[j]
      BY <1>0, <1>7, <2>2, <3>1 DEF TriggerCreate
    <3>4. Fresh(n)'
      BY <3>2, <3>3 DEF Fresh, RequestOn, UnpublishedPc
    <3>5. ASSUME NEW j \in JobIds, NEW pcs,
                 pcs = UnpublishedPc \/ pcs = UnpublishedPc \cup {"undoJob"},
                 RequestOn(j, pcs)
          PROVE  RequestOn(j, pcs)'
      BY <1>0, <3>3, <3>5, RequestsOn DEF UnpublishedPc
    <3>6. \A j \in JobIds : Fresh(j) => Fresh(j)'
      BY <3>2, <3>5 DEF Fresh
    <3>7. \A j \in JobIds : Deliverable(j) => Deliverable(j)'
      BY <3>2, <3>5 DEF Deliverable, InQueue
    <3>8. QED
      BY <3>1, <3>2, <3>3, <3>4, <3>6, <3>7 DEF OutsideMove, JobExists, Expiring, Spent, InQueue
  <2>3. QED
    BY <1>7, <2>1, <2>2 DEF TriggerCreate
<1>8. ASSUME NEW r \in Requests, TriggerMark(r) PROVE OutsideMove
  <2>1. /\ request[r].job \in JobIds /\ jobVideo[request[r].job] = request[r].video
        /\ request[r].pc = "mark"
        /\ UNCHANGED <<worker, receives, faults, msg, jobStatus>>
    BY <1>8, LateJobs DEF TriggerMark, LatePc, IndInv, RequestsHaveVideos, queueVars
  <2>2. CASE RequestAt(r, "publish")
    <3>1. /\ request'[r].pc = "publish" /\ request'[r].job = request[r].job
          /\ \A q \in Requests \ {r} : request'[q] = request[q]
      BY <1>0, <2>2 DEF RequestAt, RequestState
    <3>2. QED
      BY <1>3, <2>1, <3>1 DEF UnpublishedPc
  <2>3. CASE RequestDone(r) /\ ~VideoExists(request[r].video)
    <3>1. ~JobExists(request[r].job)
      BY <2>1, <2>3 DEF IndInv, NoOrphanRows
    <3>2. \A q \in Requests \ {r} : request'[q] = request[q]
      BY <1>0, <2>3 DEF RequestDone
    <3>3. QED
      BY <1>3, <2>1, <3>1, <3>2
  <2>4. QED
    BY <1>8, <2>2, <2>3 DEF TriggerMark
<1>9. ASSUME NEW r \in Requests, TriggerPublish(r) PROVE OutsideMove
  <2>1. PICK n \in JobIds : n = request[r].job /\ msg[n] = "none" /\ receives[n] = 0
    BY <1>9, LateJobs DEF TriggerPublish, LatePc, UnpublishedPc, PublishedOnce
  <2>2. /\ UNCHANGED <<worker, receives, faults, jobStatus>>
        /\ msg'[n] = "visible" /\ \A j \in JobIds \ {n} : msg'[j] = msg[j]
        /\ \A q \in Requests \ {r} : request'[q] = request[q]
    BY <1>0, <1>9, <2>1 DEF TriggerPublish, RequestDone, dbVars
  <2>3. ASSUME NEW j \in JobIds, j # n, NEW pcs, RequestOn(j, pcs)
        PROVE  RequestOn(j, pcs)'
    BY <1>0, <2>1, <2>2, <2>3, RequestsOn
  <2>4. Fresh(n)' /\ Deliverable(n)'
    BY <1>0, <2>1, <2>2 DEF Fresh, Deliverable, InQueue
  <2>5. \A j \in JobIds : (Fresh(j) => Fresh(j)') /\ (Deliverable(j) => Deliverable(j)')
    BY <2>2, <2>3, <2>4 DEF Fresh, Deliverable, InQueue
  <2>6. QED
    BY <2>1, <2>2, <2>5 DEF OutsideMove, JobExists, Expiring, Spent, InQueue
<1>10. ASSUME NEW r \in Requests, TriggerUndoJob(r) PROVE OutsideMove
  <2>1. PICK n \in JobIds : n = request[r].job
    BY <1>10, LateJobs DEF TriggerUndoJob, LatePc
  <2>2. /\ UNCHANGED <<worker, receives, faults, msg>> /\ request[r].pc = "undoJob"
        /\ \A q \in Requests \ {r} : request'[q] = request[q]
        /\ \A j \in JobIds \ {n} : jobStatus'[j] = jobStatus[j]
        /\ jobStatus'[n] \in {"absent", "failed"}
        /\ JobExists(n)' => JobExists(n)
    BY <1>0, <1>10, <2>1 DEF TriggerUndoJob, RequestAt, SetJob, JobExists, queueVars
  <2>3. ASSUME NEW j \in JobIds, j # n, NEW pcs, RequestOn(j, pcs)
        PROVE  RequestOn(j, pcs)'
    BY <1>0, <2>1, <2>2, <2>3, RequestsOn
  <2>4. ASSUME NEW j \in JobIds, RequestOn(j, UnpublishedPc)
        PROVE  RequestOn(j, UnpublishedPc)'
    BY <1>0, <2>2, <2>4, RequestsOn DEF UnpublishedPc
  <2>5. \A j \in JobIds : Fresh(j) => Fresh(j)'
    BY <2>2, <2>4 DEF Fresh
  <2>6. \A j \in JobIds \ {n} : Deliverable(j) => Deliverable(j)'
    BY <2>2, <2>3 DEF Deliverable, InQueue
  <2>7. QED
    BY <2>2, <2>5, <2>6 DEF OutsideMove, JobExists, Expiring, Spent, InQueue
<1>11. CASE \E j \in JobIds : Redrive(j) \/ VisibilityTimeout(j)
  BY <1>0, <1>2, <1>11 DEF Redrive, VisibilityTimeout, dbVars
<1>12. CASE UNCHANGED vars
  BY <1>0, <1>2, <1>12 DEF vars, dbVars, queueVars
<1>13. QED
  BY <1>4, <1>5, <1>6, <1>7, <1>8, <1>9, <1>10, <1>11, <1>12
  DEF UserStep, RequestStep, QueueStep

\* The worker takes a message or the oldest queued job. Nothing was "processing".
LEMMA FetchStep ==
  ASSUME SingleWorker, IndInv, NEW w \in Workers,
         PollDatabase(w) \/ \E j \in JobIds : Receive(w, j)
  PROVE  /\ RunsWithinLimit' /\ DeletesWhenIdle'
         /\ FaultFree => FaultFree'
         /\ AfterFault => AfterFault'
<1>0. /\ worker \in [Workers -> WorkerState]
      /\ msg \in [JobIds -> {"none", "visible", "inflight", "deleted", "dlq"}]
      /\ receives \in [JobIds -> 0 .. MaxReceives] /\ MaxReceives \in Nat
  BY BoundsAssumption DEF IndInv, TypeOK
<1>1. /\ \A u \in Workers : u = w
      /\ worker[w].pc = "idle" /\ worker'[w].pc = "fetched"
      /\ UNCHANGED <<jobStatus, request>>
  BY <1>0 DEF SingleWorker, PollDatabase, Receive, dbVars
<1>2. RunsWithinLimit' /\ DeletesWhenIdle'
  BY <1>1 DEF RunsWithinLimit, DeletesWhenIdle, RunPc
<1>3. \A j \in JobIds : ~WorkerOn(j, UnclaimedPc \cup ClaimedPc) /\ ~WorkerOn(j, ClaimedPc)
  BY <1>1 DEF WorkerOn, UnclaimedPc, ClaimedPc
<1>4. ASSUME PollDatabase(w)
      PROVE  (FaultFree => FaultFree') /\ (AfterFault => AfterFault')
  <2>1. PICK k \in JobIds : /\ jobStatus[k] = "queued"
                            /\ worker'[w].job = k /\ worker'[w].receipt = NoReceipt
    BY <1>0, <1>4 DEF PollDatabase
  <2>2. UNCHANGED <<msg, receives>>
    BY <1>4 DEF PollDatabase, queueVars
  <2>3. \A j \in JobIds : /\ Fresh(j)' <=> Fresh(j)
                          /\ Deliverable(j)' <=> Deliverable(j)
                          /\ Expiring(j)' <=> Expiring(j)
    BY <1>1, <2>2 DEF Fresh, Deliverable, RequestOn, InQueue, Expiring, Spent
  <2>4. AfterFault => AfterFault'
    BY <1>1, <1>3, <2>3 DEF AfterFault
  <2>5. ASSUME FaultFree PROVE FaultFree'
    <3>1. \A j \in JobIds : jobStatus[j] # "processing" /\ (jobStatus[j] = "queued" => Fresh(j))
      BY <1>1, <1>3, <2>5 DEF FaultFree, UnclaimedPc
    <3>2. QED
      BY <1>1, <2>1, <2>3, <3>1 DEF FaultFree
  <2>6. QED
    BY <2>4, <2>5
<1>5. ASSUME NEW k \in JobIds, Receive(w, k)
      PROVE  (FaultFree => FaultFree') /\ (AfterFault => AfterFault')
  <2>1. /\ worker'[w].job = k /\ worker'[w].receipt = receives[k] + 1
        /\ msg'[k] = "inflight" /\ receives'[k] = receives[k] + 1
        /\ receives[k] + 1 # NoReceipt
        /\ \A j \in JobIds \ {k} : msg'[j] = msg[j] /\ receives'[j] = receives[j]
    BY <1>0, <1>5 DEF Receive, NoReceipt
  <2>2. \A j \in JobIds \ {k} : /\ Fresh(j)' <=> Fresh(j)
                                /\ Deliverable(j)' <=> Deliverable(j)
                                /\ Expiring(j)' <=> Expiring(j)
    BY <1>1, <2>1 DEF Fresh, Deliverable, RequestOn, InQueue, Expiring, Spent
  <2>3. ASSUME AfterFault PROVE AfterFault'
    <3>1. WorkerOn(k, UnclaimedPc \cup ClaimedPc)'
      BY <1>1, <2>1 DEF WorkerOn, UnclaimedPc
    <3>2. QED
      BY <1>1, <1>3, <2>2, <2>3, <3>1 DEF AfterFault
  <2>4. ASSUME FaultFree PROVE FaultFree'
    <3>1. \A j \in JobIds : jobStatus[j] # "processing" /\ (jobStatus[j] = "queued" => Fresh(j))
      BY <1>1, <1>3, <2>4 DEF FaultFree, UnclaimedPc
    <3>2. worker'[w].pc \in UnclaimedPc
      BY <1>1 DEF UnclaimedPc
    <3>3. QED
      BY <1>1, <2>1, <2>2, <3>1, <3>2 DEF FaultFree
  <2>5. QED
    BY <2>3, <2>4
<1>6. QED
  BY <1>2, <1>4, <1>5

\* The worker goes on with its job.
LEMMA WorkerMoveStep ==
  ASSUME SingleWorker, IndInv, RunsWithinLimit, DeletesWhenIdle,
         NEW w \in Workers, NEW j \in JobIds, WorkerMove(w, j)
  PROVE  /\ RunsWithinLimit' /\ DeletesWhenIdle'
         /\ FaultFree => FaultFree'
         /\ AfterFault => AfterFault'
<1>0. /\ \A u \in Workers : u = w
      /\ worker[w].job = j /\ worker[w].pc # "idle"
      /\ UNCHANGED <<receives, request>>
      /\ worker'[w].pc # "idle" => /\ worker'[w].job = j
                                   /\ worker'[w].receipt = worker[w].receipt
                                   /\ worker'[w].count = worker[w].count
      /\ \A k \in JobIds \ {j} : jobStatus'[k] = jobStatus[k] /\ msg'[k] = msg[k]
  BY DEF SingleWorker, WorkerMove
<1>1. /\ jobStatus'[j] = "queued" =>
           /\ jobStatus[j] = "queued"
           /\ worker[w].pc \in UnclaimedPc => worker'[w].pc \in UnclaimedPc
      /\ jobStatus'[j] = "processing" =>
           \/ worker'[w].pc \in ClaimedPc
           \/ /\ jobStatus[j] = "processing" /\ worker[w].pc \notin ClaimedPc
              /\ worker[w].pc \in UnclaimedPc => worker'[w].pc \in UnclaimedPc
      /\ JobExists(j)' => JobExists(j)
  BY DEF WorkerMove
<1>2. \/ msg'[j] = msg[j]
      \/ /\ worker[w].pc = "ack" /\ worker[w].receipt # NoReceipt
         /\ worker'[w].pc = "idle"
  BY DEF WorkerMove
<1>3. /\ "idle" \notin UnclaimedPc /\ "idle" \notin ClaimedPc /\ "idle" \notin RunPc
      /\ "idle" \notin {"giveUpVideo", "ack"}
  BY DEF UnclaimedPc, ClaimedPc, RunPc
<1>4. RunsWithinLimit'
  <2>1. worker'[w].pc \in RunPc => worker[w].pc \in RunPc \/ worker[w].count <= MaxAttempts
    BY DEF WorkerMove
  <2>2. QED
    BY <1>0, <1>3, <2>1 DEF RunsWithinLimit
<1>5. DeletesWhenIdle'
  <2>1. worker'[w].pc \in {"giveUpVideo", "ack"} => jobStatus'[j] # "processing"
    BY DEF WorkerMove
  <2>2. QED
    BY <1>0, <1>3, <2>1 DEF DeletesWhenIdle
<1>6. \A k \in JobIds : \A pcs : WorkerOn(k, pcs) => k = j /\ worker[w].pc \in pcs
  BY <1>0 DEF WorkerOn
<1>7. ASSUME AfterFault PROVE AfterFault'
  <2>1. ASSUME NEW k \in JobIds \ {j}, jobStatus'[k] = "processing"
        PROVE  Deliverable(k)' \/ Expiring(k)'
    <3>1. Deliverable(k) \/ Expiring(k)
      BY <1>0, <1>6, <1>7, <2>1 DEF AfterFault
    <3>2. QED
      BY <1>0, <3>1 DEF Deliverable, RequestOn, InQueue, Expiring, Spent
  <2>2. ASSUME jobStatus'[j] = "processing", worker'[w].pc \notin UnclaimedPc \cup ClaimedPc
        PROVE  Deliverable(j)' \/ Expiring(j)'
    <3>1. jobStatus[j] = "processing" /\ worker[w].pc \notin UnclaimedPc \cup ClaimedPc
      BY <1>1, <2>2
    <3>2. Deliverable(j) \/ Expiring(j)
      BY <1>6, <1>7, <3>1 DEF AfterFault
    <3>3. msg'[j] = msg[j]
      BY <1>0, <1>2, <3>1 DEF DeletesWhenIdle
    <3>4. QED
      BY <1>0, <3>2, <3>3 DEF Deliverable, RequestOn, InQueue, Expiring, Spent
  <2>3. worker'[w].pc \in UnclaimedPc \cup ClaimedPc => WorkerOn(j, UnclaimedPc \cup ClaimedPc)'
    BY <1>0, <1>3 DEF WorkerOn
  <2>4. QED
    BY <2>1, <2>2, <2>3 DEF AfterFault
<1>8. ASSUME FaultFree PROVE FaultFree'
  <2>1. /\ \A k \in JobIds : jobStatus[k] = "processing" => k = j /\ worker[w].pc \in ClaimedPc
        /\ \A k \in JobIds : jobStatus[k] = "queued" =>
             Fresh(k) \/ (/\ k = j /\ worker[w].pc \in UnclaimedPc
                          /\ worker[w].receipt # NoReceipt)
    BY <1>0, <1>6, <1>8 DEF FaultFree
  <2>2. /\ worker[w].receipt # NoReceipt =>
             msg[j] = "inflight" /\ worker[w].receipt = receives[j]
        /\ worker[w].receipt = NoReceipt =>
             (worker[w].pc \in UnclaimedPc \cup ClaimedPc /\ JobExists(j) => Fresh(j))
    BY <1>0, <1>8 DEF FaultFree
  <2>3. \A k \in JobIds : Fresh(k) => Fresh(k)'
    BY <1>0, <1>2, <2>2 DEF Fresh, RequestOn
  <2>4. ASSUME NEW k \in JobIds, jobStatus'[k] = "processing" PROVE WorkerOn(k, ClaimedPc)'
    <3>1. k = j /\ worker'[w].pc \in ClaimedPc
      BY <1>0, <1>1, <2>1, <2>4
    <3>2. QED
      BY <1>0, <1>3, <3>1 DEF WorkerOn
  <2>5. ASSUME NEW k \in JobIds, jobStatus'[k] = "queued"
        PROVE  \/ Fresh(k)'
               \/ /\ worker'[w].pc \in UnclaimedPc /\ worker'[w].job = k
                  /\ worker'[w].receipt # NoReceipt
    BY <1>0, <1>1, <1>3, <2>1, <2>3, <2>5
  <2>6. ASSUME worker'[w].pc # "idle", worker'[w].receipt # NoReceipt
        PROVE  msg'[j] = "inflight" /\ worker'[w].receipt = receives'[j]
    BY <1>0, <1>2, <2>2, <2>6
  <2>7. ASSUME worker'[w].pc # "idle", worker'[w].receipt = NoReceipt,
               worker'[w].pc \in UnclaimedPc \cup ClaimedPc, JobExists(j)'
        PROVE  Fresh(j)'
    <3>1. worker[w].pc \in UnclaimedPc \cup ClaimedPc
      BY <2>7 DEF WorkerMove
    <3>2. QED
      BY <1>0, <1>1, <2>2, <2>3, <2>7, <3>1
  <2>8. QED
    BY <1>0, <2>4, <2>5, <2>6, <2>7 DEF FaultFree
<1>9. QED
  BY <1>4, <1>5, <1>7, <1>8

\* Users, requests and the queue go on.
LEMMA OutsideMoveStep ==
  ASSUME IndInv, RunsWithinLimit, DeletesWhenIdle, OutsideMove
  PROVE  /\ RunsWithinLimit' /\ DeletesWhenIdle'
         /\ FaultFree => FaultFree'
         /\ AfterFault => AfterFault'
<1>0. /\ UNCHANGED <<worker, receives>>
      /\ \A w \in Workers : worker[w].pc # "idle" =>
           worker[w].job \in JobIds /\ worker[w].job <= lastJob
  BY LateJobs DEF OutsideMove
<1>1. \A j \in JobIds :
        /\ jobStatus'[j] = "processing" => jobStatus[j] = "processing"
        /\ jobStatus'[j] = "queued" => jobStatus[j] = "queued" \/ Fresh(j)'
        /\ JobExists(j)' /\ j <= lastJob => JobExists(j)
        /\ JobExists(j)' /\ Fresh(j) => Fresh(j)'
        /\ jobStatus'[j] = "processing" /\ Deliverable(j) => Deliverable(j)'
        /\ Expiring(j) => Expiring(j)'
        /\ msg[j] = "inflight" /\ (\E w \in Workers : HoldsLease(w, j)) => msg'[j] = "inflight"
  BY DEF OutsideMove
<1>2. RunsWithinLimit' /\ DeletesWhenIdle'
  BY <1>0, <1>1 DEF RunsWithinLimit, DeletesWhenIdle
<1>3. \A j \in JobIds : \A pcs : WorkerOn(j, pcs)' <=> WorkerOn(j, pcs)
  BY <1>0 DEF WorkerOn
<1>4. AfterFault => AfterFault'
  BY <1>1, <1>3 DEF AfterFault
<1>5. ASSUME FaultFree PROVE FaultFree'
  <2>1. \A j \in JobIds : jobStatus'[j] = "processing" => WorkerOn(j, ClaimedPc)'
    BY <1>1, <1>3, <1>5 DEF FaultFree
  <2>2. ASSUME NEW j \in JobIds, jobStatus'[j] = "queued"
        PROVE  \/ Fresh(j)'
               \/ \E w \in Workers : /\ worker'[w].pc \in UnclaimedPc
                                     /\ worker'[w].job = j
                                     /\ worker'[w].receipt # NoReceipt
    <3>1. JobExists(j)'
      BY <2>2 DEF JobExists, JobStatus
    <3>2. QED
      BY <1>0, <1>1, <1>5, <2>2, <3>1 DEF FaultFree
  <2>3. ASSUME NEW w \in Workers, worker[w].pc # "idle", worker[w].receipt # NoReceipt
        PROVE  msg'[worker[w].job] = "inflight" /\ worker[w].receipt = receives[worker[w].job]
    BY <1>0, <1>1, <1>5, <2>3 DEF FaultFree, HoldsLease
  <2>4. ASSUME NEW w \in Workers, worker[w].pc # "idle", worker[w].receipt = NoReceipt,
               worker[w].pc \in UnclaimedPc \cup ClaimedPc, JobExists(worker[w].job)'
        PROVE  Fresh(worker[w].job)'
    BY <1>0, <1>1, <1>5, <2>4 DEF FaultFree
  <2>5. QED
    BY <1>0, <2>1, <2>2, <2>3, <2>4 DEF FaultFree
<1>6. QED
  BY <1>2, <1>4, <1>5

\* Before the fault a job that is "processing" is at work. Its message has a delivery to
\* come, or the worker has just received the last one that the queue makes.
LEMMA RedeliveryDue ==
  ASSUME IndInv, RunsWithinLimit, FaultFree, NEW j \in JobIds, jobStatus[j] = "processing"
  PROVE  /\ WorkerOn(j, ClaimedPc)
         /\ Deliverable(j) \/ (Spent(j) /\ InQueue(j))
<1>1. WorkerOn(j, ClaimedPc)
  BY DEF FaultFree
<1>2. PICK w \in Workers : worker[w].pc \in ClaimedPc /\ worker[w].job = j
  BY <1>1 DEF WorkerOn
<1>3. /\ worker[w].pc # "idle" /\ worker[w].count <= MaxAttempts
      /\ MaxAttempts \in Nat /\ MaxReceives \in Nat \ {0} /\ worker[w].count \in Nat
      /\ receives[j] \in 0 .. MaxReceives
  BY <1>2, BoundsAssumption DEF ClaimedPc, RunPc, RunsWithinLimit, IndInv, TypeOK, WorkerState
<1>4. CASE worker[w].receipt # NoReceipt
  <2>1. msg[j] = "inflight" /\ worker[w].receipt = receives[j]
    BY <1>2, <1>3, <1>4 DEF FaultFree
  <2>2. worker[w].count = worker[w].receipt
    BY <1>3, <1>4 DEF IndInv, WorkersHaveJobs
  <2>3. receives[j] < MaxReceives \/ (receives[j] = MaxReceives /\ MaxReceives <= MaxAttempts)
    BY <1>3, <2>1, <2>2
  <2>4. QED
    BY <1>1, <2>1, <2>3 DEF Deliverable, InQueue, Spent
<1>5. CASE worker[w].receipt = NoReceipt
  <2>1. JobExists(j)
    BY DEF JobExists, JobStatus
  <2>2. Fresh(j)
    BY <1>2, <1>3, <1>5, <2>1 DEF FaultFree
  <2>3. RequestOn(j, UnpublishedPc) => RequestOn(j, UnpublishedPc \cup {"undoJob"})
    BY DEF RequestOn
  <2>4. QED
    BY <1>1, <1>3, <2>2, <2>3 DEF Fresh, Deliverable, InQueue
<1>6. QED
  BY <1>4, <1>5

\* The worker that has lost the answer to its COMMIT leaves no job "processing".
LEMMA CommitLostMove ==
  ASSUME SingleWorker, IndInv, RunsWithinLimit, FaultFree, NEW w \in Workers,
         PersistAnswerLost(w)
  PROVE  RunsWithinLimit' /\ DeletesWhenIdle' /\ AfterFault'
<1>0. /\ TypeOK /\ \A u \in Workers : u = w
      /\ worker[w].pc = "transcribing" /\ worker[w].job \in JobIds
      /\ worker \in [Workers -> WorkerState]
  BY LateJobs DEF IndInv, TypeOK, SingleWorker, PersistAnswerLost, Commit
<1>1. /\ worker'[w].pc = "failJob" /\ worker'[w].count = worker[w].count
      /\ jobStatus' = [jobStatus EXCEPT ![worker[w].job] = "completed"]
  BY <1>0 DEF PersistAnswerLost, Commit, WorkerAt, WorkerState, SetJob
<1>2. RunsWithinLimit' /\ DeletesWhenIdle'
  BY <1>0, <1>1 DEF RunsWithinLimit, DeletesWhenIdle, RunPc
<1>3. ASSUME NEW j \in JobIds, jobStatus'[j] = "processing" PROVE FALSE
  <2>1. jobStatus[j] = "processing" /\ j # worker[w].job
    BY <1>0, <1>1, <1>3 DEF TypeOK
  <2>2. QED
    BY <1>0, <2>1 DEF FaultFree, WorkerOn
<1>4. QED
  BY <1>2, <1>3 DEF AfterFault

\* After a lost call processMessage goes on to the next statement, or ends: it does not begin
\* a run that it had not begun, and reaches a deletion only from giving up.
LEMMA WorkerFaultMove ==
  ASSUME TypeOK, NEW w \in Workers, WorkerCallFails(w) \/ WorkerCrash(w)
  PROVE  /\ \A u \in Workers \ {w} : worker'[u] = worker[u]
         /\ \/ worker'[w].pc = "idle"
            \/ /\ worker'[w].job = worker[w].job /\ worker'[w].count = worker[w].count
               /\ worker[w].pc # "idle"
               /\ worker'[w].pc \in RunPc => worker[w].pc \in RunPc
               /\ worker'[w].pc \in {"giveUpVideo", "ack"} =>
                    worker[w].pc \in {"giveUpJob", "giveUpVideo"}
<1>0. worker \in [Workers -> WorkerState]
  BY DEF TypeOK
<1>1. CASE WorkerDone(w)
  BY <1>0, <1>1 DEF WorkerDone, IdleWorker
<1>2. CASE /\ worker[w].pc \in DOMAIN AfterLostCall
           /\ WorkerAt(w, AfterLostCall[worker[w].pc])
  <2>1. /\ worker'[w].pc = AfterLostCall[worker[w].pc]
        /\ worker'[w].job = worker[w].job /\ worker'[w].count = worker[w].count
        /\ \A u \in Workers \ {w} : worker'[u] = worker[u]
    BY <1>0, <1>2 DEF WorkerAt, WorkerState
  <2>2. QED
    BY <1>2, <2>1 DEF AfterLostCall, RunPc
<1>3. QED
  BY <1>1, <1>2 DEF WorkerCallFails, WorkerCrash

\* The only fault: what was "processing" either stays at work or can be delivered again,
\* unless it was at work on its last delivery.
LEMMA FaultMoveStep ==
  ASSUME SingleWorker, IndInv, OneFaultInv, FaultStep, MaxFaults \in {0, 1}
  PROVE  RunsWithinLimit' /\ DeletesWhenIdle' /\ faults' # 0 /\ AfterFault'
<1>0. /\ TypeOK /\ faults < MaxFaults /\ faults' = faults + 1 /\ UNCHANGED receives
      /\ \/ UNCHANGED <<worker, jobStatus>>
         \/ /\ UNCHANGED <<msg, request, jobStatus>>
            /\ \E w \in Workers : WorkerCallFails(w) \/ WorkerCrash(w)
         \/ \E w \in Workers : PersistAnswerLost(w)
  BY FaultEffect DEF IndInv
<1>1. faults = 0 /\ faults' # 0
  BY <1>0 DEF TypeOK
<1>2. RunsWithinLimit /\ DeletesWhenIdle /\ FaultFree
  BY <1>1 DEF OneFaultInv
<1>3. CASE UNCHANGED <<worker, jobStatus>>
  <2>1. RunsWithinLimit' /\ DeletesWhenIdle'
    BY <1>2, <1>3 DEF RunsWithinLimit, DeletesWhenIdle
  <2>2. \A j \in JobIds : jobStatus[j] = "processing" => WorkerOn(j, ClaimedPc)
    BY <1>2 DEF FaultFree
  <2>3. ASSUME NEW j \in JobIds, WorkerOn(j, ClaimedPc)
        PROVE  WorkerOn(j, UnclaimedPc \cup ClaimedPc)'
    BY <1>3, <2>3 DEF WorkerOn
  <2>4. QED
    BY <1>1, <1>3, <2>1, <2>2, <2>3 DEF AfterFault
<1>4. ASSUME NEW w \in Workers, WorkerCallFails(w) \/ WorkerCrash(w),
             UNCHANGED <<msg, request, jobStatus>>
      PROVE  RunsWithinLimit' /\ DeletesWhenIdle' /\ AfterFault'
  <2>1. /\ \A u \in Workers : u = w
        /\ \/ worker'[w].pc = "idle"
           \/ /\ worker'[w].job = worker[w].job /\ worker'[w].count = worker[w].count
              /\ worker[w].pc # "idle"
              /\ worker'[w].pc \in RunPc => worker[w].pc \in RunPc
              /\ worker'[w].pc \in {"giveUpVideo", "ack"} =>
                   worker[w].pc \in {"giveUpJob", "giveUpVideo"}
    BY <1>0, <1>4, WorkerFaultMove DEF SingleWorker
  <2>2. RunsWithinLimit'
    BY <1>2, <2>1 DEF RunsWithinLimit, RunPc
  <2>3. DeletesWhenIdle'
    <3>1. ASSUME worker[w].pc \in {"giveUpJob", "giveUpVideo"}
          PROVE  jobStatus[worker[w].job] # "processing"
      <4>1. worker[w].job \in JobIds
        BY <3>1, LateJobs
      <4>2. ~WorkerOn(worker[w].job, ClaimedPc)
        BY <2>1, <3>1 DEF WorkerOn, ClaimedPc
      <4>3. QED
        BY <1>2, <4>1, <4>2 DEF FaultFree
    <3>2. QED
      BY <1>4, <2>1, <3>1 DEF DeletesWhenIdle
  <2>4. ASSUME NEW j \in JobIds, jobStatus'[j] = "processing"
        PROVE  Deliverable(j)' \/ Expiring(j)'
    <3>1. Deliverable(j) \/ (Spent(j) /\ InQueue(j))
      BY <1>2, <1>4, <2>4, RedeliveryDue
    <3>2. QED
      BY <1>0, <1>4, <3>1 DEF Deliverable, RequestOn, InQueue, Expiring, Spent
  <2>5. QED
    BY <2>2, <2>3, <2>4 DEF AfterFault
<1>5. ASSUME NEW w \in Workers, PersistAnswerLost(w)
      PROVE  RunsWithinLimit' /\ DeletesWhenIdle' /\ AfterFault'
  BY <1>2, <1>5, CommitLostMove
<1>6. QED
  BY <1>0, <1>1, <1>3, <1>4, <1>5

\* Nothing is "processing" or running at the start.
LEMMA OneFaultInit ==
  ASSUME Init
  PROVE  OneFaultInv
BY DEF Init, OneFaultInv, PublishedOnce, RunsWithinLimit, DeletesWhenIdle, FaultFree,
       UnpublishedPc, RunPc, IdleRequest, IdleWorker

\* Every step keeps the invariant: the fault-free ones on their side of the fault, the fault
\* by leading from one side to the other.
LEMMA OneFaultStep ==
  ASSUME SingleWorker, IndInv, OneFaultInv, [Next]_vars,
         MaxFaults \in {0, 1}
  PROVE  OneFaultInv'
<1>0. PublishedOnce' /\ PublishedOnce /\ RunsWithinLimit /\ DeletesWhenIdle
  BY PublishedOnceStep DEF OneFaultInv
<1>1. ASSUME UNCHANGED faults, RunsWithinLimit', DeletesWhenIdle',
             FaultFree => FaultFree', AfterFault => AfterFault'
      PROVE  OneFaultInv'
  BY <1>0, <1>1 DEF OneFaultInv
<1>2. CASE UserStep \/ (\E r \in Requests : RequestStep(r)) \/ (\E j \in JobIds : QueueStep(j))
             \/ UNCHANGED vars
  <2>1. OutsideMove
    BY <1>0, <1>2, OutsideMoves
  <2>2. UNCHANGED faults
    BY <2>1 DEF OutsideMove
  <2>3. QED
    BY <1>0, <1>1, <2>1, <2>2, OutsideMoveStep
<1>3. ASSUME NEW w \in Workers, WorkerStep(w) PROVE OneFaultInv'
  <2>1. PICK j \in JobIds : WorkerMove(w, j)
    BY <1>0, <1>3, WorkerMoves
  <2>2. UNCHANGED faults
    BY <2>1 DEF WorkerMove
  <2>3. QED
    BY <1>0, <1>1, <2>1, <2>2, WorkerMoveStep
<1>4. ASSUME NEW w \in Workers, PollDatabase(w) \/ \E j \in JobIds : Receive(w, j)
      PROVE  OneFaultInv'
  <2>1. UNCHANGED faults
    BY <1>4 DEF PollDatabase, Receive
  <2>2. QED
    BY <1>1, <1>4, <2>1, FetchStep
<1>5. CASE FaultStep
  BY <1>0, <1>5, FaultMoveStep DEF OneFaultInv
<1>6. QED
  BY <1>2, <1>3, <1>4, <1>5 DEF Next

\* With one worker and at most one fault, whatever the two limits are: a "processing" job is
\* at work, waiting for the worker, or to be delivered, or its last delivery was spent.
THEOREM OneFaultInvariance ==
  ASSUME SingleWorker, MaxFaults \in {0, 1}
  PROVE  Spec => []OneFaultInv
<1>1. Init => OneFaultInv
  BY OneFaultInit
<1>2. IndInv /\ OneFaultInv /\ [Next]_vars => OneFaultInv'
  BY OneFaultStep
<1>3. QED
  BY <1>1, <1>2, Invariance, PTL DEF Spec

\* Every job that is not finished has somebody to finish it, the poll, its message, the
\* worker or its request, unless a fault spent the last delivery of its message.
THEOREM NoJobStranded ==
  ASSUME SingleWorker, MaxFaults \in {0, 1}
  PROVE  Spec => []NoStrandedJob
<1>1. ASSUME OneFaultInv PROVE NoStrandedJob
  <2>1. ASSUME NEW j \in JobIds, jobStatus[j] = "processing"
        PROVE  \/ WorkerOn(j, UnclaimedPc \cup ClaimedPc) \/ Deliverable(j)
               \/ faults # 0 /\ Expiring(j)
    BY <1>1, <2>1 DEF OneFaultInv, FaultFree, AfterFault, WorkerOn
  <2>2. ASSUME NEW j \in JobIds, WorkerOn(j, UnclaimedPc \cup ClaimedPc) PROVE HasDriver(j)
    BY <2>2 DEF WorkerOn, HasDriver, UnclaimedPc, ClaimedPc
  <2>3. ASSUME NEW j \in JobIds, Deliverable(j) PROVE HasDriver(j)
    BY <2>3 DEF Deliverable, RequestOn, HasDriver, UnpublishedPc
  <2>4. \A j \in JobIds : jobStatus[j] = "queued" \/ InQueue(j) => HasDriver(j)
    BY DEF HasDriver
  <2>5. QED
    BY <2>1, <2>2, <2>3, <2>4 DEF NoStrandedJob, Live, Expiring
<1>2. QED
  BY <1>1, OneFaultInvariance, PTL

(***************************************************************************)
(* The pipeline implements the transcript ledger                           *)
(***************************************************************************)

\* No video is stored and no transcript exists in the beginning.
LEMMA LedgerInit == Init => Ledger!Init
BY EnvironmentAssumption
DEF Init, Ledger!Init, storedVideos, VideoStatus

\* Status changes stutter; four operations are the ledger's four actions.
LEMMA LedgerStep ==
  ASSUME IndInv, [Next]_vars
  PROVE  [Ledger!Next]_(Ledger!ledgerVars)
<1> USE DEF Ledger!Next, Ledger!ledgerVars
<1>0. TypeOK /\ "completed" \in VideoStatus /\ "uploading" \in VideoStatus
      /\ "absent" \notin VideoStatus /\ "removed" \notin VideoStatus
  BY DEF IndInv, VideoStatus
<1>1. CASE StatusesOnly
  <2>1. storedVideos' = storedVideos
    BY <1>0, <1>1 DEF StatusesOnly, SetVideo, VideoExists, storedVideos, TypeOK
  <2>2. QED
    BY <1>1, <2>1 DEF StatusesOnly
<1>2. ASSUME NEW v \in Videos, RequestUploadURL(v) PROVE Ledger!Next
  <2>1. Ledger!Store(v)
    BY <1>0, <1>2 DEF RequestUploadURL, Ledger!Store, storedVideos, TypeOK
  <2>2. QED
    BY <2>1
<1>3. ASSUME NEW v \in Videos, DeleteVideo(v) PROVE Ledger!Next
  <2>1. Ledger!Remove(v)
    BY <1>0, <1>3 DEF DeleteVideo, VideoExists, Ledger!Remove, storedVideos, TypeOK
  <2>2. QED
    BY <2>1
<1>4. ASSUME NEW r \in Requests, TriggerCreate(r)
      PROVE  Ledger!Next \/ UNCHANGED Ledger!ledgerVars
  <2>1. UNCHANGED <<storedVideos, transcript>>
    BY <1>4 DEF TriggerCreate, storedVideos
  <2>2. CASE UNCHANGED jobVideo
    BY <2>1, <2>2
  <2>3. CASE /\ VideoExists(request[r].video)
             /\ lastJob < MaxJobs
             /\ jobVideo' = [jobVideo EXCEPT ![lastJob + 1] = request[r].video]
    <3>1. request[r].video \in Videos
      BY <1>4 DEF IndInv, RequestsHaveVideos, TriggerCreate
    <3>2. lastJob + 1 \in JobIds /\ ~(lastJob + 1 <= lastJob)
      BY <1>0, <2>3, BoundsAssumption DEF TypeOK, JobIds
    <3>3. jobVideo[lastJob + 1] = NoVideo
      BY <3>2 DEF IndInv, KnownJobs
    <3>4. Ledger!Ask(lastJob + 1, request[r].video)
      BY <2>1, <2>3, <3>1, <3>3 DEF Ledger!Ask, storedVideos, VideoExists
    <3>5. QED
      BY <3>1, <3>2, <3>4
  <2>4. QED
    BY <1>4, <2>2, <2>3 DEF TriggerCreate
<1>5. ASSUME NEW w \in Workers, Commit(w) PROVE Ledger!Next
  <2>1. /\ worker[w].job \in JobIds /\ VideoExists(jobVideo[worker[w].job])
        /\ JobExists(worker[w].job)
    BY <1>0, <1>5, BoundsAssumption
    DEF Commit, IndInv, WorkersHaveJobs, TypeOK, JobIds
  <2>2. jobVideo[worker[w].job] \in Videos
    BY <2>1 DEF IndInv, NoOrphanRows
  <2>3. UNCHANGED <<storedVideos, jobVideo>>
    BY <1>0, <1>5, <2>1, <2>2
    DEF Commit, SetVideo, VideoExists, storedVideos, TypeOK
  <2>4. Ledger!Answer(worker[w].job, jobVideo[worker[w].job])
    BY <1>5, <2>1, <2>2, <2>3
    DEF Commit, Ledger!Answer, storedVideos, VideoExists
  <2>5. QED
    BY <2>1, <2>2, <2>4
<1>6. QED
  BY <1>1, <1>2, <1>3, <1>4, <1>5, EffectStep DEF RowsEffect

\* Every step of requests, queue and workers is a step of the ledger or stutters.
THEOREM LedgerRefinement == Spec => LedgerSpec
<1>1. Init => Ledger!Init
  BY LedgerInit
<1>2. IndInv /\ [Next]_vars => [Ledger!Next]_(Ledger!ledgerVars)
  BY LedgerStep
<1>3. QED
  BY <1>1, <1>2, Invariance, PTL DEF Spec, LedgerSpec, Ledger!Spec
=============================================================================
