---------------------------- MODULE MediaProofs ----------------------------
(***************************************************************************)
(* Theorems about MediaProcessing, and that it implements VideoLibrary,    *)
(* for every number of videos, requests, jobs, workers and faults.         *)
(***************************************************************************)
EXTENDS MediaLibrary, FiniteSetTheorems, TLAPS

(***************************************************************************)
(* What an action touches                                                  *)
(***************************************************************************)

\* The steps of ProcessJob that reach neither rows nor the catalogue's files.
DiskStep(w) ==
  \/ DownloadVideo(w) \/ CopyEnds(w) \/ ExtractAudio(w) \/ ConversionEnds(w) \/ UploadAudio(w)
  \/ CallWhisper(w) \/ StartCloudJob(w) \/ StartAnswerLost(w) \/ PollResult(w) \/ PollFails(w)
  \/ FetchOutput(w) \/ StepFails(w) \/ WorkerCrash(w)

\* Steps that change nothing in the catalogue, nor create a job.
CatalogueRests ==
  \/ \E w \in Workers : DiskStep(w)
  \/ \E j \in Jobs : CloudJobEnds(j)
  \/ UNCHANGED vars

LEMMA DiskOnly ==
  ASSUME CatalogueRests
  PROVE  UNCHANGED <<catalogueVars, jobVars>>
<1>1. ASSUME NEW w \in Workers, DiskStep(w)
      PROVE  UNCHANGED <<catalogueVars, jobVars>>
  BY <1>1 DEF DiskStep, DownloadVideo, CopyEnds, ExtractAudio, ConversionEnds, UploadAudio, CallWhisper,
     StartCloudJob, StartAnswerLost, PollResult, PollFails, FetchOutput, StepFails, WorkerCrash
<1>2. ASSUME NEW j \in Jobs, CloudJobEnds(j)
      PROVE  UNCHANGED <<catalogueVars, jobVars>>
  BY <1>2 DEF CloudJobEnds
<1>3. CASE UNCHANGED vars
  BY <1>3 DEF vars, processingVars, jobVars
<1>4. QED
  BY <1>1, <1>2, <1>3 DEF CatalogueRests

\* The other steps, one by one; the catalogue's own leave the processing alone.
RowStep ==
  \/ \E r \in Requests : CreateJob(r) \/ \E v \in Videos : TriggerTranscription(r, v)
  \/ \E w \in Workers : \/ \E j \in Jobs : TakeUpJob(w, j) \/ GiveUpJob(w, j)
                        \/ PersistResults(w) \/ FailVideo(w)

LEMMA Steps ==
  ASSUME [Next]_vars
  PROVE  \/ CatalogueRests
         \/ CatalogueNext /\ UNCHANGED processingVars
         \/ RowStep
BY DEF Next, WorkerStep, CatalogueRests, DiskStep, RowStep

\* A request that is being served has its video.
LEMMA Serving ==
  ASSUME CatalogueTypeOK, NEW r \in Requests, request[r].pc # "idle"
  PROVE  request[r].video \in Videos
BY DEF CatalogueTypeOK, RequestStates, Idle

\* A busy worker has a job, its video and its directory.
LEMMA Working ==
  ASSUME TypeOK, JobsHaveVideos, NEW w \in Workers, worker[w].pc # "idle"
  PROVE  /\ JobOf(w) \in Jobs
         /\ JobOf(w) # 0
         /\ VideoOf(w) \in Videos
         /\ status[VideoOf(w)] \notin {"absent", "uploading"}
         /\ Dir(w) \in [video : Contents, audio : Contents]
<1>1. JobOf(w) \in 1 .. lastJob
  BY DEF JobsHaveVideos, Resting
<1>2. JobOf(w) \in Jobs /\ JobOf(w) # 0
  BY <1>1, CatalogueAssumption DEF TypeOK, JobOrNone, Jobs
<1>3. QED
  BY <1>1, <1>2 DEF JobsHaveVideos, VideoOf, Dir, TypeOK

(***************************************************************************)
(* Types                                                                   *)
(***************************************************************************)

\* The catalogue's variables keep their types under its own actions.
LEMMA CatalogueTypes ==
  ASSUME CatalogueTypeOK, CatalogueNext
  PROVE  CatalogueTypeOK'
<1> USE DEF CatalogueTypeOK, VideoStatus, JobOrNone
<1>1. ASSUME NEW v \in Videos, RequestUploadURL(v) PROVE CatalogueTypeOK'
  BY <1>1 DEF RequestUploadURL
<1>2. ASSUME NEW v \in Videos, PutObject(v) PROVE CatalogueTypeOK'
  BY <1>2 DEF PutObject
<1>3. ASSUME NEW r \in Requests, NEW v \in Videos,
             CompleteUpload(r, v) \/ DeleteVideo(r, v) \/ GetTranscript(r, v)
      PROVE  CatalogueTypeOK'
  <2>1. request' \in [Requests -> RequestStates]
    BY <1>3 DEF CompleteUpload, DeleteVideo, GetTranscript, Serve, RequestStates
  <2>2. QED
    BY <1>3, <2>1 DEF CompleteUpload, DeleteVideo, GetTranscript
<1>4. ASSUME NEW r \in Requests, HeadObject(r) PROVE CatalogueTypeOK'
  <2>1. request[r].video \in Videos
    BY <1>4, Serving DEF HeadObject, At
  <2>2. request' \in [Requests -> RequestStates]
    BY <1>4, <2>1 DEF HeadObject, At, Goto, Finish, RequestStates, Idle
  <2>3. QED
    BY <1>4, <2>2 DEF HeadObject
<1>5. ASSUME NEW r \in Requests, DeleteObject(r) PROVE CatalogueTypeOK'
  <2>1. request[r].video \in Videos
    BY <1>5, Serving DEF DeleteObject, At
  <2>2. request' \in [Requests -> RequestStates]
    BY <1>5, <2>1 DEF DeleteObject, At, Goto, RequestStates, Idle
  <2>3. QED
    BY <1>5, <2>2 DEF DeleteObject
<1>6. ASSUME NEW r \in Requests, Finish(r) PROVE request' \in [Requests -> RequestStates]
  BY <1>6 DEF Finish, RequestStates
<1>7. ASSUME NEW r \in Requests, MarkUploaded(r) \/ DeleteRow(r) \/ GetSegments(r) \/ RequestFails(r)
      PROVE  CatalogueTypeOK'
  <2>1. request' \in [Requests -> RequestStates]
    BY <1>6, <1>7 DEF MarkUploaded, DeleteRow, GetSegments, RequestFails
  <2>2. QED
    BY <1>7, <2>1, CatalogueAssumption
    DEF MarkUploaded, DeleteRow, GetSegments, RequestFails, SetStatus
<1>8. QED
  BY <1>1, <1>2, <1>3, <1>4, <1>5, <1>7 DEF CatalogueNext, BrowserStep, RequestStep

\* And under the steps that concern jobs and rows.
LEMMA RowTypes ==
  ASSUME TypeOK, JobsHaveVideos, RowStep
  PROVE  CatalogueTypeOK'
<1> USE DEF TypeOK, CatalogueTypeOK, VideoStatus
<1>1. ASSUME NEW r \in Requests, CreateJob(r) PROVE CatalogueTypeOK'
  <2>1. request' \in [Requests -> RequestStates]
    BY <1>1 DEF CreateJob, Finish, RequestStates
  <2>2. status' \in [Videos -> VideoStatus \cup {"absent", "removed"}]
    <3>1. status[request[r].video] \in VideoStatus
      BY <1>1 DEF CreateJob, Exists
    <3>2. PICK s \in VideoStatus : status' = [status EXCEPT ![request[r].video] = s]
      BY <1>1, <3>1 DEF CreateJob
    <3>3. QED
      BY <3>2
  <2>3. QED
    BY <1>1, <2>1, <2>2 DEF CreateJob
<1>2. ASSUME NEW r \in Requests, NEW v \in Videos, TriggerTranscription(r, v)
      PROVE  CatalogueTypeOK'
  BY <1>2 DEF TriggerTranscription, Serve, RequestStates
<1>3. ASSUME NEW w \in Workers, NEW j \in Jobs, TakeUpJob(w, j) \/ GiveUpJob(w, j)
      PROVE  CatalogueTypeOK'
  BY <1>3 DEF TakeUpJob, GiveUpJob, SetStatus, rowsVars
<1>4. ASSUME NEW w \in Workers, PersistResults(w) PROVE CatalogueTypeOK'
  <2>1. JobOf(w) \in JobOrNone /\ worker[w].text \in JobOrNone
    BY DEF JobOf
  <2>2. QED
    BY <1>4, <2>1 DEF PersistResults, SetStatus, rowsVars
<1>5. ASSUME NEW w \in Workers, FailVideo(w) PROVE CatalogueTypeOK'
  BY <1>5 DEF FailVideo, SetStatus, rowsVars
<1>6. QED
  BY <1>1, <1>2, <1>3, <1>4, <1>5 DEF RowStep

\* Only videos that exist have transcripts.
TranscriptsHaveVideos == \A v \in Videos : transcript[v] # 0 \/ segments[v] # 0 => Exists(v)

LEMMA TranscriptRows ==
  ASSUME TypeOK, JobsHaveVideos, RowsFollowFiles, [Next]_vars
  PROVE  TranscriptsHaveVideos'
<1> USE DEF TranscriptsHaveVideos, Exists, VideoStatus
<1>0. TranscriptsHaveVideos /\ CatalogueTypeOK
  BY DEF TypeOK
<1>1. CASE UNCHANGED catalogueVars
  BY <1>0, <1>1 DEF catalogueVars
<1>2. ASSUME NEW v \in Videos, RequestUploadURL(v) PROVE TranscriptsHaveVideos'
  BY <1>0, <1>2 DEF RequestUploadURL, CatalogueTypeOK
<1>3. ASSUME NEW r \in Requests, MarkUploaded(r) PROVE TranscriptsHaveVideos'
  BY <1>0, <1>3 DEF MarkUploaded, SetStatus, CatalogueTypeOK
<1>4. ASSUME NEW r \in Requests, DeleteRow(r) PROVE TranscriptsHaveVideos'
  BY <1>0, <1>4, Serving DEF DeleteRow, At, SetStatus, CatalogueTypeOK
<1>5. CASE UNCHANGED <<status, transcript, segments>>
  BY <1>0, <1>5
<1>6. ASSUME NEW r \in Requests, CreateJob(r) PROVE TranscriptsHaveVideos'
  BY <1>0, <1>6 DEF CreateJob, CatalogueTypeOK
<1>7. ASSUME NEW w \in Workers, NEW j \in Jobs, TakeUpJob(w, j) \/ GiveUpJob(w, j)
      PROVE  TranscriptsHaveVideos'
  BY <1>0, <1>7 DEF TakeUpJob, GiveUpJob, SetStatus, CatalogueTypeOK
<1>8. ASSUME NEW w \in Workers, PersistResults(w) PROVE TranscriptsHaveVideos'
  BY <1>0, <1>8 DEF PersistResults, SetStatus, CatalogueTypeOK
<1>9. ASSUME NEW w \in Workers, FailVideo(w) PROVE TranscriptsHaveVideos'
  BY <1>0, <1>9 DEF FailVideo, SetStatus, CatalogueTypeOK
<1>10. CASE CatalogueNext
  BY <1>10, <1>2, <1>3, <1>4, <1>5
  DEF CatalogueNext, BrowserStep, RequestStep, PutObject, CompleteUpload, DeleteVideo, GetTranscript,
      HeadObject, DeleteObject, GetSegments, RequestFails
<1>11. CASE RowStep
  BY <1>11, <1>5, <1>6, <1>7, <1>8, <1>9 DEF RowStep, TriggerTranscription
<1>12. QED
  BY <1>1, <1>10, <1>11, Steps, DiskOnly

Places == {"idle", "download", "copy", "extract", "convert", "upload",
           "transcribe", "poll", "fetch", "persist", "fail"}
Locals == [pc : Places, job : JobOrNone, text : JobOrNone]
Disks == [Workers -> [Jobs -> [video : Contents, audio : Contents]]]

\* The variables of a worker, its disk and the faults keep their types.
LEMMA WorkerTypes ==
  ASSUME TypeOK, JobsHaveVideos, NEW w \in Workers, WorkerStep(w)
  PROVE  worker' \in [Workers -> Locals] /\ scratch' \in Disks /\ faults' \in 0 .. MaxFaults
<1> USE DEF Locals, Places, Disks
<1>0. worker \in [Workers -> Locals] /\ scratch \in Disks /\ faults \in 0 .. MaxFaults
  BY DEF TypeOK
<1>1. ASSUME NEW pc \in Places, Proceed(w, pc) PROVE worker' \in [Workers -> Locals]
  BY <1>0, <1>1 DEF Proceed
<1>2. ASSUME Rest(w) PROVE worker' \in [Workers -> Locals]
  BY <1>0, <1>2, CatalogueAssumption DEF Rest, Resting, JobOrNone
<1>3. ASSUME worker[w].pc # "idle", NEW name \in {"video", "audio"}, NEW c \in Contents, Write(w, name, c)
      PROVE  scratch' \in Disks
  <2>1. JobOf(w) \in Jobs
    BY <1>3, Working
  <2>2. CASE name = "video"
    BY <1>0, <1>3, <2>1, <2>2 DEF Write
  <2>3. CASE name = "audio"
    BY <1>0, <1>3, <2>1, <2>3 DEF Write
  <2>4. QED
    BY <1>3, <2>2, <2>3
<1>4. ASSUME worker[w].pc # "idle", Cleanup(w) PROVE scratch' \in Disks
  <2>1. JobOf(w) \in Jobs
    BY <1>4, Working
  <2>2. QED
    BY <1>0, <1>4, <2>1 DEF Cleanup, EmptyDir, Contents
<1>5. ASSUME NEW kind, Fault(kind) PROVE faults' \in 0 .. MaxFaults
  BY <1>0, <1>5, ProcessingAssumption DEF Fault
<1>6. ASSUME NEW j \in Jobs, TakeUpJob(w, j) \/ GiveUpJob(w, j)
      PROVE  worker' \in [Workers -> Locals] /\ UNCHANGED <<scratch, faults>>
  <2>1. j \in JobOrNone /\ 0 \in JobOrNone
    BY CatalogueAssumption DEF Jobs, JobOrNone
  <2>2. QED
    BY <1>0, <1>6, <2>1 DEF TakeUpJob, GiveUpJob
<1>7. CASE FailVideo(w) \/ WorkerCrash(w)
  BY <1>0, <1>2, <1>5, <1>7 DEF FailVideo, WorkerCrash
<1>8. CASE DownloadVideo(w) \/ CopyEnds(w) \/ ExtractAudio(w)
  BY <1>0, <1>1, <1>3, <1>8 DEF DownloadVideo, CopyEnds, ExtractAudio, Doing, Contents
<1>9. CASE ConversionEnds(w)
  <2>1. Dir(w).video \in Contents
    BY <1>9, Working DEF ConversionEnds, Doing
  <2>2. QED
    BY <1>0, <1>1, <1>3, <1>9, <2>1 DEF ConversionEnds, Doing
<1>10. CASE UploadAudio(w)
  BY <1>0, <1>1, <1>10 DEF UploadAudio
<1>11. ASSUME NEW n \in JobOrNone, worker' = [worker EXCEPT ![w].pc = "persist", ![w].text = n]
       PROVE  worker' \in [Workers -> Locals]
  BY <1>0, <1>11
<1>12. CASE CallWhisper(w)
  <2>1. JobOf(w) \in JobOrNone
    BY <1>0 DEF JobOf
  <2>2. QED
    BY <1>0, <1>11, <1>12, <2>1 DEF CallWhisper
<1>13. CASE FetchOutput(w)
  <2>1. rawOutput[VideoOf(w)] \in JobOrNone
    BY <1>13, Working DEF TypeOK, Doing, FetchOutput
  <2>2. QED
    BY <1>0, <1>11, <1>13, <2>1 DEF FetchOutput
<1>14. CASE StartCloudJob(w) \/ StartAnswerLost(w) \/ PollResult(w) \/ PollFails(w) \/ StepFails(w)
  BY <1>0, <1>1, <1>4, <1>5, <1>14
  DEF StartCloudJob, StartAnswerLost, PollResult, PollFails, StepFails, Abort, Doing
<1>15. CASE PersistResults(w)
  BY <1>0, <1>1, <1>2, <1>4, <1>15 DEF PersistResults, Doing
<1>16. QED
  BY <1>0, <1>6, <1>7, <1>8, <1>9, <1>10, <1>12, <1>13, <1>14, <1>15 DEF WorkerStep

\* So do the jobs and what is stored outside the database.
StoredTypes ==
  /\ provider \in {"aws", "whisper"}
  /\ lastJob \in JobOrNone
  /\ jobVideo \in [Jobs -> Videos \cup {"none"}]
  /\ audio \in [Videos -> Contents]
  /\ rawOutput \in [Videos -> JobOrNone]
  /\ cloudJob \in [Jobs -> {"none", "running", "done", "failed"}]

LEMMA StoredTypesStep ==
  ASSUME TypeOK, JobsHaveVideos, [Next]_vars
  PROVE  StoredTypes'
<1> USE DEF StoredTypes
<1>0. StoredTypes
  BY DEF TypeOK
<1>1. ASSUME NEW w \in Workers, UploadAudio(w) PROVE StoredTypes'
  <2>1. Dir(w).audio \in Contents
    BY <1>1, Working DEF UploadAudio, Doing
  <2>2. QED
    BY <1>0, <1>1, <2>1 DEF UploadAudio, jobVars, storedVars
<1>2. ASSUME NEW w \in Workers, StartCloudJob(w) \/ StartAnswerLost(w) PROVE StoredTypes'
  BY <1>0, <1>2 DEF StartCloudJob, StartAnswerLost, jobVars, storedVars
<1>3. ASSUME NEW j \in Jobs, CloudJobEnds(j) PROVE StoredTypes'
  BY <1>0, <1>3 DEF CloudJobEnds, jobVars, Jobs, JobOrNone
<1>4. CASE UNCHANGED <<jobVars, storedVars, cloudJob>>
  BY <1>0, <1>4 DEF jobVars, storedVars
<1>5. ASSUME NEW r \in Requests, CreateJob(r) PROVE StoredTypes'
  <2>1. request[r].video \in Videos
    BY <1>5, Serving DEF CreateJob, At, TypeOK
  <2>2. lastJob' \in JobOrNone
    BY <1>0, <1>5, CatalogueAssumption DEF CreateJob, JobOrNone
  <2>3. QED
    BY <1>0, <1>5, <2>1, <2>2 DEF CreateJob, storedVars
<1>6. ASSUME NEW r \in Requests, NEW v \in Videos, TriggerTranscription(r, v) PROVE StoredTypes'
  BY <1>4, <1>6 DEF TriggerTranscription, processingVars, jobVars, storedVars
<1>7. ASSUME NEW w \in Workers, WorkerStep(w) PROVE StoredTypes'
  BY <1>1, <1>2, <1>4, <1>7
  DEF WorkerStep, TakeUpJob, GiveUpJob, FailVideo, DownloadVideo, CopyEnds, ExtractAudio, ConversionEnds,
      CallWhisper, PollResult, PollFails, FetchOutput, PersistResults, StepFails, WorkerCrash
<1>8. CASE UNCHANGED processingVars
  BY <1>4, <1>8 DEF processingVars, jobVars, storedVars
<1>9. QED
  BY <1>3, <1>5, <1>6, <1>7, <1>8 DEF Next, vars

LEMMA TypeStep ==
  ASSUME TypeOK, JobsHaveVideos, RowsFollowFiles, [Next]_vars
  PROVE  TypeOK'
<1>1. CatalogueTypeOK'
  <2>1. CASE UNCHANGED catalogueVars
    BY <2>1 DEF TypeOK, CatalogueTypeOK, catalogueVars
  <2>2. QED
    BY <2>1, Steps, DiskOnly, CatalogueTypes, RowTypes DEF TypeOK
<1>2. worker' \in [Workers -> Locals] /\ scratch' \in Disks /\ faults' \in 0 .. MaxFaults
  <2>1. CASE UNCHANGED <<worker, scratch, faults>>
    BY <2>1 DEF TypeOK, Locals, Places, Disks
  <2>2. QED
    BY <2>1, WorkerTypes
    DEF Next, vars, processingVars, CreateJob, TriggerTranscription, CloudJobEnds
<1>3. QED
  BY <1>1, <1>2, TranscriptRows, StoredTypesStep
  DEF TypeOK, TranscriptsHaveVideos, StoredTypes, Locals, Places, Disks, Exists

(***************************************************************************)
(* Rows and files                                                          *)
(***************************************************************************)

\* A row appears once, and is "uploaded" only by a request that has seen the file.
LEMMA RowsFollowFilesStep ==
  ASSUME TypeOK, JobsHaveVideos, RowsFollowFiles, RequestsKnow, [Next]_vars
  PROVE  RowsFollowFiles'
<1> USE DEF RowsFollowFiles, VideoStatus
<1>0. CatalogueTypeOK
  BY DEF TypeOK
<1>1. CASE UNCHANGED <<status, file, browser, discarded>>
  BY <1>1
<1>2. ASSUME NEW v \in Videos, RequestUploadURL(v) PROVE RowsFollowFiles'
  BY <1>0, <1>2 DEF RequestUploadURL, CatalogueTypeOK
<1>3. ASSUME NEW v \in Videos, PutObject(v) PROVE RowsFollowFiles'
  BY <1>0, <1>3 DEF PutObject, CatalogueTypeOK
<1>4. ASSUME NEW r \in Requests, NEW v \in Videos, DeleteVideo(r, v) PROVE RowsFollowFiles'
  BY <1>0, <1>4 DEF DeleteVideo
<1>5. ASSUME NEW r \in Requests, MarkUploaded(r) PROVE RowsFollowFiles'
  BY <1>0, <1>5 DEF MarkUploaded, SetStatus, Exists, RequestsKnow, CatalogueTypeOK
<1>6. ASSUME NEW r \in Requests, DeleteObject(r) PROVE RowsFollowFiles'
  BY <1>0, <1>6 DEF DeleteObject, RequestsKnow, CatalogueTypeOK
<1>7. ASSUME NEW r \in Requests, DeleteRow(r) PROVE RowsFollowFiles'
  BY <1>0, <1>7 DEF DeleteRow, SetStatus, Exists, RequestsKnow, CatalogueTypeOK
<1>8. ASSUME NEW v \in Videos, status[v] \in VideoStatus \ {"uploading"}, NEW s \in VideoStatus,
             status' = [status EXCEPT ![v] = s], UNCHANGED <<file, browser, discarded>>
      PROVE  RowsFollowFiles'
  BY <1>0, <1>8 DEF CatalogueTypeOK
<1>9. ASSUME NEW r \in Requests, CreateJob(r) PROVE RowsFollowFiles'
  <2>1. /\ request[r].video \in Videos
        /\ status[request[r].video] \in VideoStatus \ {"uploading"}
    BY <1>0, <1>9, Serving DEF CreateJob, At, Exists, RequestsKnow
  <2>2. PICK s \in VideoStatus : status' = [status EXCEPT ![request[r].video] = s]
    BY <1>9, <2>1 DEF CreateJob
  <2>3. QED
    BY <1>8, <1>9, <2>1, <2>2 DEF CreateJob
<1>10. ASSUME NEW v \in Videos, status[v] \notin {"absent", "uploading"}, NEW s \in VideoStatus,
              SetStatus(v, s), UNCHANGED <<file, browser, discarded>>
       PROVE  RowsFollowFiles'
  BY <1>0, <1>1, <1>8, <1>10 DEF SetStatus, Exists
<1>11. ASSUME NEW w \in Workers, NEW j \in Jobs, j <= lastJob, TakeUpJob(w, j) \/ GiveUpJob(w, j)
       PROVE  RowsFollowFiles'
  <2>1. jobVideo[j] \in Videos /\ status[jobVideo[j]] \notin {"absent", "uploading"}
    BY <1>11 DEF JobsHaveVideos, Jobs, TypeOK, JobOrNone
  <2>2. QED
    BY <1>1, <1>10, <1>11, <2>1 DEF TakeUpJob, GiveUpJob, rowsVars, SetStatus
<1>12. ASSUME NEW w \in Workers, PersistResults(w) \/ FailVideo(w) PROVE RowsFollowFiles'
  <2>1. VideoOf(w) \in Videos /\ status[VideoOf(w)] \notin {"absent", "uploading"}
    BY <1>12, Working DEF PersistResults, FailVideo, Doing
  <2>2. QED
    BY <1>1, <1>10, <1>12, <2>1 DEF PersistResults, FailVideo, rowsVars
<1>13. CASE CatalogueNext
  BY <1>1, <1>2, <1>3, <1>4, <1>5, <1>6, <1>7, <1>13
  DEF CatalogueNext, BrowserStep, RequestStep, CompleteUpload, GetTranscript, HeadObject, GetSegments,
      RequestFails
<1>14. CASE RowStep
  BY <1>1, <1>9, <1>11, <1>12, <1>14 DEF RowStep, TriggerTranscription, TakeUpJob, GiveUpJob
<1>15. QED
  BY <1>1, <1>13, <1>14, Steps, DiskOnly DEF catalogueVars

(***************************************************************************)
(* What lasts: facts that, once a request or a worker has seen them, no    *)
(* step of anybody else takes away                                         *)
(***************************************************************************)

Filed(v) == file[v] = "media" \/ v \in discarded
Known(v) == status[v] \notin {"absent", "uploading"}
Worded(v) == segments[v] # 0 \/ v \in discarded

LEMMA FilesLast ==
  ASSUME TypeOK, RowsFollowFiles, RequestsKnow, [Next]_vars
  PROVE  /\ discarded \subseteq discarded'
         /\ \A v \in Videos : Filed(v) => Filed(v)'
<1> USE DEF Filed
<1>0. CatalogueTypeOK
  BY DEF TypeOK
<1>1. CASE UNCHANGED <<file, discarded>>
  BY <1>1
<1>2. ASSUME NEW v \in Videos, PutObject(v)
      PROVE  UNCHANGED discarded /\ \A u \in Videos : Filed(u) => Filed(u)'
  BY <1>0, <1>2 DEF PutObject, RowsFollowFiles, CatalogueTypeOK
<1>3. ASSUME NEW r \in Requests, NEW v \in Videos, DeleteVideo(r, v)
      PROVE  discarded \subseteq discarded' /\ \A u \in Videos : Filed(u) => Filed(u)'
  BY <1>3 DEF DeleteVideo
<1>4. ASSUME NEW r \in Requests, DeleteObject(r)
      PROVE  UNCHANGED discarded /\ \A u \in Videos : Filed(u) => Filed(u)'
  BY <1>0, <1>4 DEF DeleteObject, RequestsKnow, CatalogueTypeOK
<1>5. CASE CatalogueNext
  BY <1>1, <1>2, <1>3, <1>4, <1>5
  DEF CatalogueNext, BrowserStep, RequestStep, RequestUploadURL, CompleteUpload, GetTranscript, HeadObject,
      MarkUploaded, DeleteRow, GetSegments, RequestFails
<1>6. CASE RowStep
  BY <1>1, <1>6
  DEF RowStep, CreateJob, TriggerTranscription, TakeUpJob, GiveUpJob, PersistResults, FailVideo, rowsVars
<1>7. QED
  BY <1>1, <1>5, <1>6, Steps, DiskOnly DEF catalogueVars

LEMMA StatusLasts ==
  ASSUME TypeOK, RowsFollowFiles, [Next]_vars
  PROVE  \A v \in Videos : Known(v) => Known(v)'
<1> USE DEF Known
<1>0. status \in [Videos -> VideoStatus \cup {"absent", "removed"}]
  BY DEF TypeOK, CatalogueTypeOK
<1>1. CASE UNCHANGED status
  BY <1>1
<1>2. ASSUME NEW v \in Videos, RequestUploadURL(v) PROVE \A u \in Videos : Known(u) => Known(u)'
  BY <1>0, <1>2 DEF RequestUploadURL, RowsFollowFiles
<1>3. ASSUME NEW v, NEW s, s \notin {"absent", "uploading"}, SetStatus(v, s)
      PROVE  \A u \in Videos : Known(u) => Known(u)'
  BY <1>0, <1>3 DEF SetStatus
<1>4. ASSUME NEW v, NEW s, s \notin {"absent", "uploading"}, status' = [status EXCEPT ![v] = s]
      PROVE  \A u \in Videos : Known(u) => Known(u)'
  BY <1>0, <1>4
<1>5. ASSUME NEW r \in Requests, CreateJob(r) PROVE \A u \in Videos : Known(u) => Known(u)'
  <2>1. CASE status' = [status EXCEPT ![request[r].video] = status[request[r].video]]
    BY <1>0, <2>1
  <2>2. QED
    BY <1>4, <1>5, <2>1 DEF CreateJob
<1>6. CASE CatalogueNext
  BY <1>1, <1>2, <1>3, <1>6
  DEF CatalogueNext, BrowserStep, RequestStep, PutObject, CompleteUpload, DeleteVideo, GetTranscript,
      HeadObject, MarkUploaded, DeleteObject, DeleteRow, GetSegments, RequestFails
<1>7. CASE RowStep
  BY <1>1, <1>3, <1>4, <1>5, <1>7
  DEF RowStep, TriggerTranscription, TakeUpJob, GiveUpJob, PersistResults, FailVideo
<1>8. QED
  BY <1>1, <1>6, <1>7, Steps, DiskOnly DEF catalogueVars

LEMMA WordsLast ==
  ASSUME TypeOK, RequestsKnow, TextsExist, [Next]_vars
  PROVE  \A v \in Videos : v \in discarded' \/ Worded(v) => Worded(v)'
<1> USE DEF Worded
<1>0. segments \in [Videos -> JobOrNone] /\ discarded \in SUBSET Videos
  BY DEF TypeOK, CatalogueTypeOK
<1>1. CASE UNCHANGED segments /\ discarded \subseteq discarded'
  BY <1>1
<1>2. ASSUME NEW r \in Requests, DeleteRow(r) PROVE \A v \in Videos : Worded(v) => Worded(v)'
  BY <1>0, <1>2 DEF DeleteRow, RequestsKnow
<1>3. ASSUME NEW w \in Workers, PersistResults(w) PROVE \A v \in Videos : Worded(v) => Worded(v)'
  BY <1>0, <1>3 DEF PersistResults, TextsExist, rowsVars
<1>4. CASE CatalogueNext
  BY <1>1, <1>2, <1>4
  DEF CatalogueNext, BrowserStep, RequestStep, RequestUploadURL, PutObject, CompleteUpload, DeleteVideo,
      GetTranscript, HeadObject, MarkUploaded, DeleteObject, GetSegments, RequestFails
<1>5. CASE RowStep
  BY <1>1, <1>3, <1>5
  DEF RowStep, CreateJob, TriggerTranscription, TakeUpJob, GiveUpJob, FailVideo, rowsVars
<1>6. QED
  BY <1>1, <1>4, <1>5, Steps, DiskOnly DEF catalogueVars

\* What a request that is at pc with v must have seen.
Sure(pc, v) ==
  /\ pc = "write" => Filed(v)
  /\ pc \in {"deleteObject", "deleteRow"} => v \in discarded
  /\ pc = "createJob" => Known(v)
  /\ pc = "readSegments" => Worded(v)

\* A request keeps its video, and what it has seen of it lasts.
LEMMA RequestsKnowStep ==
  ASSUME MediaInv, [Next]_vars
  PROVE  RequestsKnow'
<1>0. /\ TypeOK /\ request \in [Requests -> RequestStates]
      /\ RowsFollowFiles /\ RequestsKnow /\ JobsHaveVideos /\ TextsExist
  BY DEF MediaInv, TypeOK, CatalogueTypeOK
<1>1. ASSUME NEW pc, NEW v \in Videos, Sure(pc, v) PROVE Sure(pc, v)'
  <2>1. /\ discarded \subseteq discarded'
        /\ Filed(v) => Filed(v)'
        /\ Known(v) => Known(v)'
        /\ Worded(v) => Worded(v)'
    BY <1>0, FilesLast, StatusLasts, WordsLast
  <2>2. QED
    BY <1>1, <2>1 DEF Sure
<1>2. TypeOK'
  BY <1>0, TypeStep
<1>3. SUFFICES ASSUME NEW r \in Requests, NEW pc, NEW v \in Videos,
                      request'[r] = [pc |-> pc, video |-> v]
               PROVE  Sure(pc, v)'
  <2>1. ASSUME NEW r \in Requests, request'[r] # Idle
        PROVE  \E pc : \E v \in Videos : request'[r] = [pc |-> pc, video |-> v]
    BY <1>2, <2>1 DEF TypeOK, CatalogueTypeOK, RequestStates
  <2>2. SUFFICES ASSUME NEW r \in Requests
                 PROVE  LET v == request'[r].video
                        IN  /\ request'[r].pc = "write" => file'[v] = "media" \/ v \in discarded'
                            /\ request'[r].pc \in {"deleteObject", "deleteRow"} => v \in discarded'
                            /\ request'[r].pc = "createJob" => status'[v] \notin {"absent", "uploading"}
                            /\ request'[r].pc = "readSegments" => segments'[v] # 0 \/ v \in discarded'
    BY DEF RequestsKnow, At
  <2>3. CASE request'[r] = Idle
    BY <2>3 DEF Idle
  <2>4. CASE request'[r] # Idle
    <3>1. PICK pc : \E v \in Videos : request'[r] = [pc |-> pc, video |-> v]
      BY <2>1, <2>4
    <3>2. PICK v \in Videos : request'[r] = [pc |-> pc, video |-> v]
      BY <3>1
    <3>3. Sure(pc, v)'
      BY <1>3, <3>2
    <3>4. QED
      BY <3>2, <3>3 DEF Sure, Filed, Known, Worded
  <2>5. QED
    BY <2>3, <2>4
<1>4. CASE request'[r] = request[r]
  <2>1. Sure(pc, v)
    BY <1>0, <1>3, <1>4 DEF RequestsKnow, At, Filed, Known, Worded, Sure
  <2>2. QED
    BY <1>1, <2>1
<1>5. ASSUME NEW q \in Requests, Finish(q) PROVE Sure(pc, v)'
  BY <1>0, <1>3, <1>4, <1>5 DEF Finish, Idle, Sure
<1>6. ASSUME NEW q \in Requests, NEW u \in Videos, NEW k, Serve(q, u, k), Sure(k, u)'
      PROVE  Sure(pc, v)'
  <2>1. CASE r # q
    BY <1>0, <1>4, <1>6, <2>1 DEF Serve
  <2>2. CASE r = q
    <3>1. pc = k /\ v = u
      BY <1>0, <1>3, <1>6, <2>2 DEF Serve
    <3>2. QED
      BY <1>6, <3>1
  <2>3. QED
    BY <2>1, <2>2
<1>7. ASSUME NEW q \in Requests, NEW k, Goto(q, k), request[q] # Idle, Sure(k, request[q].video)
      PROVE  Sure(pc, v)'
  <2>1. CASE r # q
    BY <1>0, <1>4, <1>7, <2>1 DEF Goto
  <2>2. CASE r = q
    <3>1. pc = k /\ v = request[q].video
      BY <1>0, <1>3, <1>7, <2>2 DEF Goto, RequestStates
    <3>2. QED
      BY <1>1, <1>7, <3>1
  <2>3. QED
    BY <2>1, <2>2
<1>8. ASSUME NEW q \in Requests, RequestStep(q) PROVE Sure(pc, v)'
  <2>1. ASSUME NEW u \in Videos, CompleteUpload(q, u) PROVE Sure(pc, v)'
    BY <1>6, <2>1 DEF CompleteUpload, Sure
  <2>2. ASSUME NEW u \in Videos, DeleteVideo(q, u) PROVE Sure(pc, v)'
    BY <1>6, <2>2 DEF DeleteVideo, Sure
  <2>3. ASSUME NEW u \in Videos, GetTranscript(q, u) PROVE Sure(pc, v)'
    <3>1. segments[u] # 0
      BY <1>0, <2>3 DEF GetTranscript, TextsExist
    <3>2. Sure("readSegments", u)
      BY <3>1 DEF Sure, Worded
    <3>3. QED
      BY <1>1, <1>6, <2>3, <3>2 DEF GetTranscript
  <2>4. CASE HeadObject(q)
    <3>1. CASE Finish(q)
      BY <1>5, <3>1
    <3>2. CASE file[request[q].video] = "media" /\ Goto(q, "write")
      BY <1>7, <2>4, <3>2 DEF HeadObject, At, Idle, Sure, Filed
    <3>3. QED
      BY <2>4, <3>1, <3>2 DEF HeadObject
  <2>5. CASE DeleteObject(q)
    <3>1. request[q].video \in discarded
      BY <1>0, <2>5 DEF DeleteObject, RequestsKnow
    <3>2. QED
      BY <1>7, <2>5, <3>1 DEF DeleteObject, At, Idle, Sure
  <2>6. CASE MarkUploaded(q) \/ DeleteRow(q) \/ GetSegments(q) \/ RequestFails(q)
    BY <1>5, <2>6 DEF MarkUploaded, DeleteRow, GetSegments, RequestFails
  <2>7. QED
    BY <1>8, <2>1, <2>2, <2>3, <2>4, <2>5, <2>6 DEF RequestStep
<1>9. ASSUME NEW q \in Requests, CreateJob(q) PROVE Sure(pc, v)'
  BY <1>5, <1>9 DEF CreateJob
<1>10. ASSUME NEW q \in Requests, NEW u \in Videos, TriggerTranscription(q, u) PROVE Sure(pc, v)'
  <2>1. Sure("createJob", u)
    BY <1>10 DEF TriggerTranscription, Exists, VideoStatus, Sure, Known
  <2>2. QED
    BY <1>1, <1>6, <1>10, <2>1 DEF TriggerTranscription
<1>11. CASE UNCHANGED request
  BY <1>4, <1>11
<1>12. CASE CatalogueNext
  BY <1>8, <1>11, <1>12 DEF CatalogueNext, BrowserStep, RequestUploadURL, PutObject
<1>13. CASE RowStep
  BY <1>9, <1>10, <1>11, <1>13 DEF RowStep, TakeUpJob, GiveUpJob, PersistResults, FailVideo, rowsVars
<1>14. QED
  BY <1>11, <1>12, <1>13, Steps, DiskOnly DEF catalogueVars

(***************************************************************************)
(* Jobs                                                                    *)
(***************************************************************************)

\* Jobs keep their video, and only a new job is added.
LEMMA JobsLast ==
  ASSUME TypeOK, JobsHaveVideos, RowsFollowFiles, RequestsKnow, [Next]_vars
  PROVE  /\ lastJob \in Nat /\ lastJob' \in Nat /\ lastJob <= lastJob' /\ lastJob' <= MaxJobs
         /\ \A j \in 1 .. lastJob : jobVideo'[j] = jobVideo[j]
         /\ \A j \in 1 .. lastJob' : /\ jobVideo'[j] \in Videos
                                     /\ status'[jobVideo'[j]] \notin {"absent", "uploading"}
<1>0. /\ lastJob \in Nat /\ lastJob <= MaxJobs /\ MaxJobs \in Nat
      /\ jobVideo \in [Jobs -> Videos \cup {"none"}]
  BY CatalogueAssumption DEF TypeOK, JobOrNone
<1>1. CASE UNCHANGED <<lastJob, jobVideo>>
  BY <1>0, <1>1, StatusLasts DEF JobsHaveVideos, Known
<1>2. ASSUME NEW r \in Requests, CreateJob(r)
      PROVE  /\ lastJob' = lastJob + 1 /\ lastJob' <= MaxJobs
             /\ \A j \in 1 .. lastJob : jobVideo'[j] = jobVideo[j]
             /\ \A j \in 1 .. lastJob' : /\ jobVideo'[j] \in Videos
                                         /\ status'[jobVideo'[j]] \notin {"absent", "uploading"}
  <2>1. request[r].video \in Videos
    BY <1>2, Serving DEF CreateJob, At, TypeOK
  <2>2. status'[request[r].video] \notin {"absent", "uploading"}
    BY <1>2, <2>1, StatusLasts DEF CreateJob, RequestsKnow, Known
  <2>3. lastJob' = lastJob + 1 /\ lastJob' <= MaxJobs /\ lastJob' \in Jobs
    BY <1>0, <1>2 DEF CreateJob, Jobs
  <2>4. jobVideo'[lastJob'] = request[r].video
    BY <1>0, <1>2, <2>3 DEF CreateJob
  <2>5. \A j \in 1 .. lastJob : jobVideo'[j] = jobVideo[j]
    BY <1>0, <1>2 DEF CreateJob, Jobs
  <2>6. ASSUME NEW j \in 1 .. lastJob'
        PROVE  jobVideo'[j] \in Videos /\ status'[jobVideo'[j]] \notin {"absent", "uploading"}
    <3>1. j = lastJob' \/ j \in 1 .. lastJob
      BY <1>0, <2>3
    <3>2. QED
      BY <2>1, <2>2, <2>4, <2>5, <3>1, StatusLasts DEF JobsHaveVideos, Known
  <2>7. QED
    BY <2>3, <2>5, <2>6
<1>3. QED
  <2>1. CASE \E r \in Requests : CreateJob(r)
    BY <1>0, <1>2, <2>1
  <2>2. CASE RowStep /\ ~\E r \in Requests : CreateJob(r)
    BY <1>1, <2>2
    DEF RowStep, TriggerTranscription, TakeUpJob, GiveUpJob, PersistResults, FailVideo, processingVars, jobVars
  <2>3. QED
    BY <1>1, <2>1, <2>2, Steps, DiskOnly DEF processingVars, jobVars

\* A busy worker has a job that exists.
Employed(w) == worker[w] = Resting \/ (worker[w].pc # "idle" /\ JobOf(w) \in 1 .. lastJob)

\* A worker goes on with its job, rests, or takes up a job that exists; the others wait.
LEMMA WorkerMoves ==
  ASSUME TypeOK, NEW w \in Workers, WorkerStep(w)
  PROVE  /\ \A u \in Workers \ {w} : worker'[u] = worker[u] /\ scratch'[u] = scratch[u]
         /\ \/ worker'[w] = Resting
            \/ worker'[w].pc # "idle" /\ worker[w].pc # "idle" /\ worker'[w].job = worker[w].job
            \/ worker'[w] = worker[w]
            \/ \E j \in 1 .. lastJob : worker'[w] = [pc |-> "download", job |-> j, text |-> 0]
<1>0. /\ worker \in [Workers -> Locals] /\ scratch \in Disks
      /\ lastJob \in Nat /\ \A j \in Jobs : j \in Nat /\ (j <= lastJob => j \in 1 .. lastJob)
  BY CatalogueAssumption DEF TypeOK, Locals, Places, Disks, JobOrNone, Jobs
<1>1. ASSUME NEW pc \in Places \ {"idle"}, worker[w].pc # "idle", Proceed(w, pc)
      PROVE  /\ \A u \in Workers \ {w} : worker'[u] = worker[u]
             /\ worker'[w].pc # "idle" /\ worker'[w].job = worker[w].job
  BY <1>0, <1>1 DEF Proceed, Locals
<1>2. ASSUME Rest(w)
      PROVE  (\A u \in Workers \ {w} : worker'[u] = worker[u]) /\ worker'[w] = Resting
  BY <1>0, <1>2 DEF Rest
<1>3. ASSUME NEW name, NEW c, Write(w, name, c)
      PROVE  \A u \in Workers \ {w} : scratch'[u] = scratch[u]
  BY <1>0, <1>3 DEF Write, Disks
<1>4. ASSUME Cleanup(w)
      PROVE  \A u \in Workers \ {w} : scratch'[u] = scratch[u]
  BY <1>0, <1>4 DEF Cleanup, Disks
<1>5. ASSUME NEW j \in Jobs, TakeUpJob(w, j) \/ GiveUpJob(w, j)
      PROVE  /\ \A u \in Workers \ {w} : worker'[u] = worker[u] /\ scratch'[u] = scratch[u]
             /\ \/ worker'[w] = worker[w]
                \/ \E k \in 1 .. lastJob : worker'[w] = [pc |-> "download", job |-> k, text |-> 0]
  BY <1>0, <1>5 DEF TakeUpJob, GiveUpJob
<1>6. CASE FailVideo(w) \/ WorkerCrash(w)
  BY <1>2, <1>6 DEF FailVideo, WorkerCrash
<1>7. CASE DownloadVideo(w) \/ CopyEnds(w) \/ ExtractAudio(w) \/ ConversionEnds(w) \/ UploadAudio(w)
  BY <1>1, <1>3, <1>7
  DEF DownloadVideo, CopyEnds, ExtractAudio, ConversionEnds, UploadAudio, Doing, Places
<1>8. CASE CallWhisper(w) \/ FetchOutput(w)
  BY <1>0, <1>8 DEF CallWhisper, FetchOutput, Locals, Doing
<1>9. CASE StartCloudJob(w) \/ StartAnswerLost(w) \/ PollResult(w) \/ PollFails(w) \/ StepFails(w)
  BY <1>1, <1>4, <1>9
  DEF StartCloudJob, StartAnswerLost, PollResult, PollFails, StepFails, Abort, Doing, Places
<1>10. CASE PersistResults(w)
  BY <1>1, <1>2, <1>4, <1>10 DEF PersistResults, Doing, Places
<1>11. QED
  BY <1>5, <1>6, <1>7, <1>8, <1>9, <1>10 DEF WorkerStep

\* Jobs belong to uploaded videos, busy workers and cloud jobs to jobs.
LEMMA JobsHaveVideosStep ==
  ASSUME TypeOK, JobsHaveVideos, RowsFollowFiles, RequestsKnow, [Next]_vars
  PROVE  JobsHaveVideos'
<1>1. /\ lastJob \in Nat /\ lastJob' \in Nat /\ lastJob <= lastJob'
      /\ \A j \in 1 .. lastJob' : /\ jobVideo'[j] \in Videos
                                  /\ status'[jobVideo'[j]] \notin {"absent", "uploading"}
  BY JobsLast
<1>2. \A j : j \in 1 .. lastJob => j \in 1 .. lastJob'
  BY <1>1
<1>3. \A w \in Workers : Employed(w)'
  <2>1. CASE UNCHANGED worker
    BY <1>2, <2>1 DEF JobsHaveVideos, Employed, JobOf
  <2>2. ASSUME NEW w \in Workers, WorkerStep(w)
        PROVE  \A u \in Workers : Employed(u)'
    <3>1. \A u \in Workers \ {w} : Employed(u)'
      BY <1>2, <2>2, WorkerMoves DEF JobsHaveVideos, Employed, JobOf
    <3>2. Employed(w)'
      <4>1. CASE worker'[w] = Resting
        BY <4>1 DEF Employed
      <4>2. CASE worker'[w].pc # "idle" /\ worker[w].pc # "idle" /\ worker'[w].job = worker[w].job
        <5>1. worker[w].job \in 1 .. lastJob
          BY <4>2 DEF JobsHaveVideos, Resting, JobOf
        <5>2. QED
          BY <1>2, <4>2, <5>1 DEF Employed, JobOf
      <4>3. CASE worker'[w] = worker[w]
        BY <1>2, <4>3 DEF JobsHaveVideos, Employed, JobOf
      <4>4. ASSUME NEW j \in 1 .. lastJob, worker'[w] = [pc |-> "download", job |-> j, text |-> 0]
            PROVE  Employed(w)'
        BY <1>2, <4>4 DEF Employed, JobOf
      <4>5. QED
        BY <2>2, <4>1, <4>2, <4>3, <4>4, WorkerMoves
    <3>3. QED
      BY <3>1, <3>2
  <2>3. QED
    BY <2>1, <2>2 DEF Next, CreateJob, TriggerTranscription, CloudJobEnds, processingVars, vars
<1>4. \A j \in Jobs : cloudJob'[j] # "none" => j \in 1 .. lastJob'
  <2>1. CASE UNCHANGED cloudJob
    BY <1>2, <2>1 DEF JobsHaveVideos
  <2>2. ASSUME NEW w \in Workers, StartCloudJob(w) \/ StartAnswerLost(w)
        PROVE  \A j \in Jobs : cloudJob'[j] # "none" => j \in 1 .. lastJob'
    <3>1. JobOf(w) \in 1 .. lastJob
      BY <2>2 DEF StartCloudJob, StartAnswerLost, Doing, JobsHaveVideos, Resting
    <3>2. QED
      BY <1>2, <2>2, <3>1 DEF StartCloudJob, StartAnswerLost, JobsHaveVideos, TypeOK
  <2>3. ASSUME NEW j \in Jobs, CloudJobEnds(j)
        PROVE  \A k \in Jobs : cloudJob'[k] # "none" => k \in 1 .. lastJob'
    BY <1>2, <2>3 DEF CloudJobEnds, JobsHaveVideos, TypeOK
  <2>4. ASSUME NEW w \in Workers, WorkerStep(w)
        PROVE  \A j \in Jobs : cloudJob'[j] # "none" => j \in 1 .. lastJob'
    BY <2>1, <2>2, <2>4
    DEF WorkerStep, TakeUpJob, GiveUpJob, FailVideo, DownloadVideo, CopyEnds, ExtractAudio, ConversionEnds,
        UploadAudio, CallWhisper, PollResult, PollFails, FetchOutput, PersistResults, StepFails, WorkerCrash
  <2>5. QED
    BY <2>1, <2>3, <2>4 DEF Next, CreateJob, TriggerTranscription, processingVars, vars
<1>5. QED
  BY <1>1, <1>3, <1>4 DEF JobsHaveVideos, Employed, JobOf

(***************************************************************************)
(* Texts                                                                   *)
(***************************************************************************)

TranscriptsHaveWords == \A v \in Videos : transcript[v] # 0 => segments[v] # 0
OutputsExist == \A j \in Jobs : cloudJob[j] = "done" => rawOutput[jobVideo[j]] # 0
HasText(w) ==
  /\ Doing(w, "fetch") => cloudJob[JobOf(w)] = "done"
  /\ Doing(w, "persist") => worker[w].text # 0

\* A cloud job that is done stays done, and its output key filled.
LEMMA OutputsLast ==
  ASSUME TypeOK, JobsHaveVideos, RowsFollowFiles, RequestsKnow, OutputsExist, [Next]_vars
  PROVE  /\ \A j \in Jobs : cloudJob[j] = "done" => cloudJob'[j] = "done"
         /\ OutputsExist'
<1>0. /\ cloudJob \in [Jobs -> {"none", "running", "done", "failed"}]
      /\ rawOutput \in [Videos -> JobOrNone] /\ jobVideo \in [Jobs -> Videos \cup {"none"}]
      /\ \A j \in Jobs : j # 0
  BY CatalogueAssumption DEF TypeOK, Jobs
<1>1. \A j \in Jobs : cloudJob[j] # "none" => jobVideo[j] \in Videos /\ jobVideo'[j] = jobVideo[j]
  BY JobsLast DEF JobsHaveVideos
<1>2. CASE UNCHANGED <<cloudJob, rawOutput>>
  BY <1>1, <1>2 DEF OutputsExist
<1>3. ASSUME NEW j \in Jobs, CloudJobEnds(j)
      PROVE  (\A k \in Jobs : cloudJob[k] = "done" => cloudJob'[k] = "done") /\ OutputsExist'
  <2>1. jobVideo' = jobVideo /\ jobVideo[j] \in Videos
    BY <1>1, <1>3 DEF CloudJobEnds, jobVars
  <2>2. CASE cloudJob' = [cloudJob EXCEPT ![j] = "done"] /\ rawOutput' = [rawOutput EXCEPT ![jobVideo[j]] = j]
    BY <1>0, <1>1, <1>3, <2>1, <2>2 DEF OutputsExist, CloudJobEnds
  <2>3. CASE cloudJob' = [cloudJob EXCEPT ![j] = "failed"] /\ UNCHANGED rawOutput
    BY <1>0, <1>3, <2>1, <2>3 DEF OutputsExist, CloudJobEnds
  <2>4. QED
    BY <1>3, <2>2, <2>3 DEF CloudJobEnds
<1>4. ASSUME NEW w \in Workers, StartCloudJob(w) \/ StartAnswerLost(w)
      PROVE  (\A k \in Jobs : cloudJob[k] = "done" => cloudJob'[k] = "done") /\ OutputsExist'
  <2>1. UNCHANGED <<rawOutput, jobVideo>>
    BY <1>4 DEF StartCloudJob, StartAnswerLost, storedVars, jobVars
  <2>2. CASE UNCHANGED cloudJob
    BY <2>1, <2>2 DEF OutputsExist
  <2>3. CASE cloudJob[JobOf(w)] = "none" /\ cloudJob' = [cloudJob EXCEPT ![JobOf(w)] = "running"]
    BY <1>0, <2>1, <2>3 DEF OutputsExist
  <2>4. QED
    BY <1>4, <2>2, <2>3 DEF StartCloudJob, StartAnswerLost
<1>5. ASSUME NEW w \in Workers, WorkerStep(w)
      PROVE  (\A k \in Jobs : cloudJob[k] = "done" => cloudJob'[k] = "done") /\ OutputsExist'
  BY <1>2, <1>4, <1>5
  DEF WorkerStep, TakeUpJob, GiveUpJob, FailVideo, DownloadVideo, CopyEnds, ExtractAudio, ConversionEnds,
      UploadAudio, CallWhisper, PollResult, PollFails, FetchOutput, PersistResults, StepFails, WorkerCrash,
      storedVars
<1>6. QED
  BY <1>2, <1>3, <1>5 DEF Next, CreateJob, TriggerTranscription, processingVars, vars, storedVars

\* Whoever asks the provider gets a text, and stores it with its transcript.
LEMMA TextsExistStep ==
  ASSUME TypeOK, JobsHaveVideos, RowsFollowFiles, RequestsKnow, TextsExist, [Next]_vars
  PROVE  TextsExist'
<1>0. /\ TranscriptsHaveWords /\ OutputsExist /\ \A w \in Workers : HasText(w)
      /\ CatalogueTypeOK /\ worker \in [Workers -> Locals]
  BY DEF TextsExist, TranscriptsHaveWords, OutputsExist, HasText, TypeOK, Locals, Places
<1>1. OutputsExist' /\ \A j \in Jobs : cloudJob[j] = "done" => cloudJob'[j] = "done"
  BY <1>0, OutputsLast
<1>2. TranscriptsHaveWords'
  <2>1. CASE UNCHANGED <<transcript, segments>>
    BY <1>0, <2>1 DEF TranscriptsHaveWords
  <2>2. ASSUME NEW r \in Requests, DeleteRow(r) PROVE TranscriptsHaveWords'
    BY <1>0, <2>2 DEF DeleteRow, TranscriptsHaveWords, CatalogueTypeOK
  <2>3. ASSUME NEW w \in Workers, PersistResults(w) PROVE TranscriptsHaveWords'
    BY <1>0, <2>3 DEF PersistResults, HasText, TranscriptsHaveWords, CatalogueTypeOK
  <2>4. CASE CatalogueNext
    BY <2>1, <2>2, <2>4
    DEF CatalogueNext, BrowserStep, RequestStep, RequestUploadURL, PutObject, CompleteUpload, DeleteVideo,
        GetTranscript, HeadObject, MarkUploaded, DeleteObject, GetSegments, RequestFails
  <2>5. CASE RowStep
    BY <2>1, <2>3, <2>5 DEF RowStep, CreateJob, TriggerTranscription, TakeUpJob, GiveUpJob, FailVideo
  <2>6. QED
    BY <2>1, <2>4, <2>5, Steps, DiskOnly DEF catalogueVars
<1>3. ASSUME NEW w \in Workers, worker'[w] = worker[w] PROVE HasText(w)'
  <2>1. worker[w].pc = "fetch" => JobOf(w) \in Jobs
    BY Working
  <2>2. QED
    BY <1>0, <1>1, <1>3, <2>1 DEF HasText, Doing, JobOf
<1>4. ASSUME NEW w \in Workers, worker'[w].pc \notin {"fetch", "persist"} PROVE HasText(w)'
  BY <1>4 DEF HasText, Doing
<1>5. ASSUME NEW w \in Workers, WorkerStep(w) PROVE HasText(w)'
  <2>1. ASSUME NEW pc \in Places \ {"fetch", "persist"}, Proceed(w, pc) PROVE HasText(w)'
    BY <1>0, <1>4, <2>1 DEF Proceed, Locals
  <2>2. ASSUME Rest(w) PROVE HasText(w)'
    BY <1>0, <1>4, <2>2 DEF Rest, Resting
  <2>3. ASSUME NEW j \in Jobs, TakeUpJob(w, j) \/ GiveUpJob(w, j) PROVE HasText(w)'
    BY <1>0, <1>3, <1>4, <2>3 DEF TakeUpJob, GiveUpJob
  <2>4. CASE CallWhisper(w)
    <3>1. JobOf(w) # 0
      BY <2>4, Working DEF CallWhisper, Doing
    <3>2. QED
      BY <1>0, <2>4, <3>1 DEF CallWhisper, HasText, Doing, Locals
  <2>5. CASE FetchOutput(w)
    <3>1. JobOf(w) \in Jobs /\ cloudJob[JobOf(w)] = "done"
      BY <1>0, <2>5, Working DEF FetchOutput, Doing, HasText
    <3>2. rawOutput[VideoOf(w)] # 0
      BY <1>0, <3>1 DEF OutputsExist, VideoOf
    <3>3. QED
      BY <1>0, <2>5, <3>2 DEF FetchOutput, HasText, Doing, Locals
  <2>6. CASE PollResult(w) /\ Proceed(w, "fetch") /\ cloudJob[JobOf(w)] = "done"
    <3>1. JobOf(w) \in Jobs
      BY <2>6, Working DEF PollResult, Doing
    <3>2. worker'[w].pc = "fetch" /\ worker'[w].job = worker[w].job
      BY <1>0, <2>6 DEF Proceed, Locals
    <3>3. QED
      BY <1>1, <2>6, <3>1, <3>2 DEF HasText, Doing, JobOf
  <2>7. CASE DownloadVideo(w) \/ CopyEnds(w) \/ ExtractAudio(w) \/ ConversionEnds(w) \/ UploadAudio(w)
    BY <2>1, <2>7 DEF DownloadVideo, CopyEnds, ExtractAudio, ConversionEnds, UploadAudio, Places
  <2>8. CASE StartCloudJob(w) \/ StartAnswerLost(w) \/ PollResult(w) \/ PollFails(w) \/ StepFails(w)
    BY <2>1, <2>6, <2>8 DEF StartCloudJob, StartAnswerLost, PollResult, PollFails, StepFails, Abort, Places
  <2>9. CASE FailVideo(w) \/ WorkerCrash(w) \/ PersistResults(w)
    BY <2>1, <2>2, <2>9 DEF FailVideo, WorkerCrash, PersistResults, Places
  <2>10. QED
    BY <1>5, <2>3, <2>4, <2>5, <2>7, <2>8, <2>9 DEF WorkerStep
<1>6. \A w \in Workers : HasText(w)'
  <2>1. CASE UNCHANGED worker
    BY <1>3, <2>1
  <2>2. ASSUME NEW w \in Workers, WorkerStep(w), NEW u \in Workers PROVE HasText(u)'
    BY <1>3, <1>5, <2>2, WorkerMoves
  <2>3. QED
    BY <2>1, <2>2 DEF Next, CreateJob, TriggerTranscription, CloudJobEnds, processingVars, vars
<1>7. QED
  BY <1>1, <1>2, <1>6 DEF TextsExist, TranscriptsHaveWords, OutputsExist, HasText

(***************************************************************************)
(* Files                                                                   *)
(***************************************************************************)

WholeFiles(w) ==
  /\ worker[w].pc \in {"extract", "convert"} => Dir(w).video = "whole"
  /\ worker[w].pc \in {"upload", "transcribe"} => Dir(w).audio = "whole"

\* Whatever an earlier attempt has left, each file is written anew before it is read.
LEMMA FilesAreWholeStep ==
  ASSUME TypeOK, JobsHaveVideos, FilesAreWhole, [Next]_vars
  PROVE  FilesAreWhole'
<1>0. /\ \A w \in Workers : WholeFiles(w)
      /\ worker \in [Workers -> Locals] /\ scratch \in Disks /\ audio \in [Videos -> Contents]
  BY DEF FilesAreWhole, WholeFiles, TypeOK, Locals, Places, Disks
<1>1. \A v \in Videos : audio'[v] # "part"
  <2>1. CASE UNCHANGED audio
    BY <2>1 DEF FilesAreWhole
  <2>2. ASSUME NEW w \in Workers, UploadAudio(w) PROVE \A v \in Videos : audio'[v] # "part"
    BY <1>0, <2>2 DEF UploadAudio, Doing, FilesAreWhole
  <2>3. ASSUME NEW w \in Workers, WorkerStep(w) PROVE \A v \in Videos : audio'[v] # "part"
    BY <2>1, <2>2, <2>3
    DEF WorkerStep, TakeUpJob, GiveUpJob, FailVideo, DownloadVideo, CopyEnds, ExtractAudio, ConversionEnds,
        CallWhisper, StartCloudJob, StartAnswerLost, PollResult, PollFails, FetchOutput, PersistResults,
        StepFails, WorkerCrash, storedVars
  <2>4. QED
    BY <2>1, <2>3 DEF Next, CreateJob, TriggerTranscription, CloudJobEnds, processingVars, vars, storedVars
<1>2. ASSUME NEW w \in Workers, worker'[w] = worker[w], scratch'[w] = scratch[w] PROVE WholeFiles(w)'
  BY <1>0, <1>2 DEF WholeFiles, Dir, JobOf
<1>3. ASSUME NEW w \in Workers, worker'[w].pc \notin {"extract", "convert", "upload", "transcribe"}
      PROVE  WholeFiles(w)'
  BY <1>3 DEF WholeFiles
<1>4. ASSUME NEW w \in Workers, WorkerStep(w) PROVE WholeFiles(w)'
  <2>1. ASSUME NEW pc \in Places \ {"extract", "convert", "upload", "transcribe"}, Proceed(w, pc)
        PROVE  WholeFiles(w)'
    BY <1>0, <1>3, <2>1 DEF Proceed, Locals
  <2>2. ASSUME Rest(w) PROVE WholeFiles(w)'
    BY <1>0, <1>3, <2>2 DEF Rest, Resting
  <2>3. ASSUME NEW j \in Jobs, TakeUpJob(w, j) \/ GiveUpJob(w, j) PROVE WholeFiles(w)'
    BY <1>0, <1>2, <1>3, <2>3 DEF TakeUpJob, GiveUpJob
  <2>4. CASE worker[w].pc # "idle"
    <3>0. JobOf(w) \in Jobs
      BY <2>4, Working
    <3>1. ASSUME NEW pc \in Places, Proceed(w, pc)
          PROVE  worker'[w].pc = pc /\ JobOf(w)' = JobOf(w)
      BY <1>0, <3>1 DEF Proceed, Locals, JobOf
    <3>2. ASSUME NEW name \in {"video", "audio"}, NEW c, Write(w, name, c), JobOf(w)' = JobOf(w)
          PROVE  Dir(w)' = [Dir(w) EXCEPT ![name] = c]
      BY <1>0, <3>0, <3>2 DEF Write, Dir, Disks
    <3>3. Dir(w) \in [video : Contents, audio : Contents]
      BY <1>0, <3>0 DEF Dir, Disks
    <3>4. CASE DownloadVideo(w)
      BY <2>1, <3>4 DEF DownloadVideo, Places
    <3>5. CASE CopyEnds(w)
      BY <3>1, <3>2, <3>3, <3>5 DEF CopyEnds, Places, WholeFiles
    <3>6. CASE ExtractAudio(w)
      BY <1>0, <3>1, <3>2, <3>3, <3>6 DEF ExtractAudio, Doing, Places, WholeFiles
    <3>7. CASE ConversionEnds(w)
      BY <1>0, <3>1, <3>2, <3>3, <3>7 DEF ConversionEnds, Doing, Places, WholeFiles
    <3>8. CASE UploadAudio(w)
      <4>1. UNCHANGED scratch
        BY <3>8 DEF UploadAudio
      <4>2. Dir(w)' = Dir(w) /\ worker'[w].pc = "transcribe"
        BY <3>1, <3>8, <4>1 DEF UploadAudio, Places, Dir
      <4>3. QED
        BY <1>0, <3>8, <4>2 DEF UploadAudio, Doing, WholeFiles
    <3>9. CASE CallWhisper(w) \/ FetchOutput(w)
      BY <1>0, <1>3, <3>9 DEF CallWhisper, FetchOutput, Locals
    <3>10. CASE StartCloudJob(w) \/ StartAnswerLost(w) \/ PollResult(w) \/ PollFails(w) \/ StepFails(w)
      BY <2>1, <3>10 DEF StartCloudJob, StartAnswerLost, PollResult, PollFails, StepFails, Abort, Places
    <3>11. CASE FailVideo(w) \/ WorkerCrash(w) \/ PersistResults(w)
      BY <2>1, <2>2, <3>11 DEF FailVideo, WorkerCrash, PersistResults, Places
    <3>12. QED
      BY <1>4, <2>3, <3>4, <3>5, <3>6, <3>7, <3>8, <3>9, <3>10, <3>11 DEF WorkerStep
  <2>5. CASE worker[w].pc = "idle"
    <3>1. \/ \E j \in Jobs : TakeUpJob(w, j) \/ GiveUpJob(w, j)
          \/ WorkerCrash(w)
      BY <1>4, <2>5
      DEF WorkerStep, DownloadVideo, CopyEnds, ExtractAudio, ConversionEnds, UploadAudio, CallWhisper,
          StartCloudJob, StartAnswerLost, PollResult, PollFails, FetchOutput, PersistResults, StepFails,
          FailVideo, Doing
    <3>2. QED
      BY <2>2, <2>3, <3>1 DEF WorkerCrash
  <2>6. QED
    BY <2>4, <2>5
<1>5. \A w \in Workers : WholeFiles(w)'
  <2>1. CASE UNCHANGED <<worker, scratch>>
    BY <1>2, <2>1
  <2>2. ASSUME NEW w \in Workers, WorkerStep(w), NEW u \in Workers PROVE WholeFiles(u)'
    BY <1>2, <1>4, <2>2, WorkerMoves
  <2>3. QED
    BY <2>1, <2>2 DEF Next, CreateJob, TriggerTranscription, CloudJobEnds, processingVars, vars
<1>6. QED
  BY <1>1, <1>5 DEF FilesAreWhole, WholeFiles

(***************************************************************************)
(* The single worker that nothing disturbs                                 *)
(***************************************************************************)

Attends(w) ==
  /\ \A j \in Jobs : cloudJob[j] = "running" => Doing(w, "poll") /\ JobOf(w) = j
  /\ Doing(w, "poll") => cloudJob[JobOf(w)] # "none"
  /\ Doing(w, "poll") /\ cloudJob[JobOf(w)] = "done" => rawOutput[VideoOf(w)] = JobOf(w)
  /\ Doing(w, "fetch") => rawOutput[VideoOf(w)] = JobOf(w)
  /\ Doing(w, "persist") => worker[w].text = JobOf(w)

\* Faults are only counted upwards, and one that counts is none of the undisturbed steps.
LEMMA Undisturbed ==
  ASSUME TypeOK, [Next]_vars, faults' = 0
  PROVE  faults = 0 /\ \A w \in Workers : ~StartAnswerLost(w) /\ ~PollFails(w) /\ ~WorkerCrash(w)
<1>0. faults \in Nat
  BY ProcessingAssumption DEF TypeOK
<1>1. ASSUME NEW kind, Fault(kind) PROVE FALSE
  BY <1>0, <1>1 DEF Fault
<1>2. \A w \in Workers : ~StartAnswerLost(w) /\ ~PollFails(w) /\ ~WorkerCrash(w)
  BY <1>1 DEF StartAnswerLost, PollFails, WorkerCrash
<1>3. UNCHANGED faults
  BY <1>2
  DEF Next, CreateJob, TriggerTranscription, CloudJobEnds, processingVars, vars, WorkerStep, TakeUpJob,
      GiveUpJob, FailVideo, DownloadVideo, CopyEnds, ExtractAudio, ConversionEnds, UploadAudio, CallWhisper,
      StartCloudJob, PollResult, FetchOutput, PersistResults, StepFails
<1>4. QED
  BY <1>2, <1>3

\* It waits for every cloud job it starts, and so reads the output of that job.
LEMMA AttendsStep ==
  ASSUME MediaInv, [Next]_vars, NEW w, Workers = {w}, Attends(w), faults' = 0
  PROVE  Attends(w)'
<1> USE DEF Attends, Doing
<1>0. /\ TypeOK /\ JobsHaveVideos /\ RowsFollowFiles /\ RequestsKnow /\ w \in Workers
      /\ worker \in [Workers -> Locals]
      /\ cloudJob \in [Jobs -> {"none", "running", "done", "failed"}]
      /\ rawOutput \in [Videos -> JobOrNone]
  BY DEF MediaInv, TypeOK, Locals, Places
<1>1. worker[w].pc # "idle" =>
        JobOf(w) \in Jobs /\ VideoOf(w) \in Videos /\ jobVideo'[JobOf(w)] = jobVideo[JobOf(w)]
  <2>1. worker[w].pc # "idle" => JobOf(w) \in 1 .. lastJob
    BY <1>0 DEF JobsHaveVideos, Resting
  <2>2. QED
    BY <1>0, <2>1, Working, JobsLast
<1>2. CASE UNCHANGED <<worker, cloudJob, rawOutput>>
  BY <1>0, <1>1, <1>2 DEF JobOf, VideoOf
<1>3. ASSUME NEW j \in Jobs, CloudJobEnds(j) PROVE Attends(w)'
  <2>1. Doing(w, "poll") /\ JobOf(w) = j /\ UNCHANGED <<worker, jobVideo>>
    BY <1>3 DEF CloudJobEnds, jobVars
  <2>2. QED
    BY <1>0, <1>1, <1>3, <2>1 DEF CloudJobEnds, JobOf, VideoOf
<1>4. ASSUME worker[w].pc # "poll", worker'[w].pc \notin {"poll", "fetch", "persist"}, UNCHANGED cloudJob
      PROVE  Attends(w)'
  BY <1>0, <1>4
<1>5. ASSUME NEW pc \in Places, Proceed(w, pc)
      PROVE  worker'[w].pc = pc /\ JobOf(w)' = JobOf(w) /\ worker'[w].text = worker[w].text
  BY <1>0, <1>5 DEF Proceed, Locals, JobOf
<1>6. ASSUME NEW j \in Jobs, TakeUpJob(w, j) \/ GiveUpJob(w, j) PROVE Attends(w)'
  BY <1>0, <1>2, <1>4, <1>6 DEF TakeUpJob, GiveUpJob, Resting, storedVars
<1>7. CASE DownloadVideo(w) \/ CopyEnds(w) \/ ExtractAudio(w) \/ ConversionEnds(w) \/ UploadAudio(w)
  BY <1>4, <1>5, <1>7 DEF DownloadVideo, CopyEnds, ExtractAudio, ConversionEnds, UploadAudio, Places
<1>8. CASE CallWhisper(w)
  <2>1. worker'[w].pc = "persist" /\ JobOf(w)' = JobOf(w) /\ worker'[w].text = JobOf(w)
    BY <1>0, <1>8 DEF CallWhisper, Locals, JobOf
  <2>2. QED
    BY <1>0, <1>8, <2>1 DEF CallWhisper
<1>9. CASE StartCloudJob(w)
  <2>1. CASE cloudJob' = [cloudJob EXCEPT ![JobOf(w)] = "running"] /\ Proceed(w, "poll")
    BY <1>0, <1>1, <1>5, <1>9, <2>1 DEF StartCloudJob, Places
  <2>2. CASE UNCHANGED cloudJob /\ Abort(w)
    BY <1>4, <1>5, <1>9, <2>2 DEF StartCloudJob, Abort, Places
  <2>3. QED
    BY <1>9, <2>1, <2>2 DEF StartCloudJob
<1>10. CASE PollResult(w)
  <2>1. CASE cloudJob[JobOf(w)] = "done" /\ Proceed(w, "fetch")
    BY <1>0, <1>1, <1>5, <1>10, <2>1 DEF PollResult, storedVars, jobVars, VideoOf, Places
  <2>2. CASE cloudJob[JobOf(w)] = "failed" /\ Abort(w)
    BY <1>0, <1>5, <1>10, <2>2 DEF PollResult, Abort, Places
  <2>3. QED
    BY <1>10, <2>1, <2>2 DEF PollResult
<1>11. CASE FetchOutput(w)
  <2>1. /\ worker'[w].pc = "persist" /\ JobOf(w)' = JobOf(w)
        /\ worker'[w].text = rawOutput[VideoOf(w)]
    BY <1>0, <1>11 DEF FetchOutput, Locals, JobOf
  <2>2. QED
    BY <1>0, <1>11, <2>1 DEF FetchOutput
<1>12. CASE StepFails(w)
  BY <1>4, <1>5, <1>12 DEF StepFails, Abort, Places
<1>13. ASSUME Rest(w) \/ Proceed(w, "fail"), UNCHANGED cloudJob, worker[w].pc # "poll"
       PROVE  Attends(w)'
  BY <1>0, <1>4, <1>5, <1>13 DEF Rest, Resting, Places
<1>14. CASE PersistResults(w) \/ FailVideo(w)
  BY <1>13, <1>14 DEF PersistResults, FailVideo
<1>15. CASE WorkerStep(w)
  BY <1>0, <1>6, <1>7, <1>8, <1>9, <1>10, <1>11, <1>12, <1>14, <1>15, Undisturbed DEF WorkerStep
<1>16. QED
  BY <1>0, <1>2, <1>3, <1>15
  DEF Next, CreateJob, TriggerTranscription, processingVars, vars, storedVars

\* What it stores is therefore the text of the job it works on.
LEMMA TextsMatchStep ==
  ASSUME MediaInv, [Next]_vars, NEW w, Workers = {w}, Attends(w), TextIsOfItsJob
  PROVE  TextIsOfItsJob'
<1>0. /\ CatalogueTypeOK /\ w \in Workers
      /\ transcript \in [Videos -> JobOrNone] /\ segments \in [Videos -> JobOrNone]
  BY DEF MediaInv, TypeOK, CatalogueTypeOK
<1>1. CASE UNCHANGED <<transcript, segments>>
  BY <1>1 DEF TextIsOfItsJob
<1>2. ASSUME NEW r \in Requests, DeleteRow(r) PROVE TextIsOfItsJob'
  BY <1>0, <1>2 DEF DeleteRow, TextIsOfItsJob
<1>3. CASE PersistResults(w)
  BY <1>0, <1>3 DEF PersistResults, Attends, TextIsOfItsJob
<1>4. CASE CatalogueNext
  BY <1>1, <1>2, <1>4
  DEF CatalogueNext, BrowserStep, RequestStep, RequestUploadURL, PutObject, CompleteUpload, DeleteVideo,
      GetTranscript, HeadObject, MarkUploaded, DeleteObject, GetSegments, RequestFails
<1>5. CASE RowStep
  BY <1>1, <1>3, <1>5 DEF RowStep, CreateJob, TriggerTranscription, TakeUpJob, GiveUpJob, FailVideo
<1>6. QED
  BY <1>1, <1>4, <1>5, Steps, DiskOnly DEF catalogueVars

LEMMA AttentionStep ==
  ASSUME MediaInv, [Next]_vars
  PROVE  UndisturbedAttention'
<1>1. SUFFICES ASSUME Cardinality(Workers) = 1, faults' = 0
               PROVE  WorkerAttends'
  BY DEF UndisturbedAttention
<1>2. PICK w : Workers = {w}
  BY <1>1, ProcessingAssumption, FS_Singleton
<1>3. faults = 0
  BY <1>1, Undisturbed DEF MediaInv
<1>4. Attends(w) /\ TextIsOfItsJob
  BY <1>1, <1>2, <1>3 DEF MediaInv, UndisturbedAttention, WorkerAttends, Attends
<1>5. Attends(w)' /\ TextIsOfItsJob'
  BY <1>1, <1>2, <1>4, AttendsStep, TextsMatchStep
<1>6. QED
  BY <1>2, <1>5 DEF WorkerAttends, Attends

(***************************************************************************)
(* Theorems                                                                *)
(***************************************************************************)

LEMMA Initially ==
  ASSUME Init
  PROVE  MediaInv
<1> USE CatalogueAssumption, ProcessingAssumption DEF Init, CatalogueInit, JobOrNone, Resting
<1>1. TypeOK
  BY DEF TypeOK, CatalogueTypeOK, RequestStates, EmptyDir, Contents
<1>2. RowsFollowFiles /\ RequestsKnow
  BY DEF RowsFollowFiles, RequestsKnow, At, Idle, VideoStatus
<1>3. JobsHaveVideos /\ TextsExist /\ FilesAreWhole
  BY DEF JobsHaveVideos, TextsExist, FilesAreWhole, Doing
<1>4. UndisturbedAttention
  BY DEF UndisturbedAttention, WorkerAttends, TextIsOfItsJob, Doing
<1>5. QED
  BY <1>1, <1>2, <1>3, <1>4 DEF MediaInv

\* The parts of MediaInv hold together in every reachable state: rows and files, what the
\* requests and the worker have seen, and the whole files on disk.
THEOREM MediaInvariance == Spec => []MediaInv
<1>1. ASSUME MediaInv, [Next]_vars PROVE MediaInv'
  BY <1>1, TypeStep, RowsFollowFilesStep, RequestsKnowStep, JobsHaveVideosStep, TextsExistStep,
     FilesAreWholeStep, AttentionStep DEF MediaInv
<1>2. QED
  BY <1>1, Initially, PTL DEF Spec

\* Every variable keeps its type, and only rows of existing videos have transcripts.
THEOREM MediaTypes == Spec => []TypeOK
<1>1. MediaInv => TypeOK
  BY DEF MediaInv
<1>2. QED
  BY <1>1, MediaInvariance, PTL

\* Behind every status from "uploaded" on is a file, unless the video was to be deleted:
\* two checks in two requests are enough, however uploads and deletions interleave.
THEOREM FilesBehindRows == Spec => []PlayableHasFile
<1>1. MediaInv => PlayableHasFile
  BY DEF MediaInv, RowsFollowFiles, PlayableHasFile, Playable, VideoStatus
<1>2. QED
  BY <1>1, MediaInvariance, PTL

\* The two queries of a reader never miss the text in between, unless the video is deleted.
THEOREM ReadersServed == Spec => []ReaderFindsSegments
<1>1. MediaInv => ReaderFindsSegments
  BY DEF MediaInv, RequestsKnow, ReaderFindsSegments
<1>2. QED
  BY <1>1, MediaInvariance, PTL

\* No piece of a file left by a crash reaches storage or the provider.
THEOREM WholeAudio == Spec => []AudioIsWhole
<1>1. MediaInv => AudioIsWhole
  BY DEF MediaInv, FilesAreWhole, AudioIsWhole
<1>2. QED
  BY <1>1, MediaInvariance, PTL

\* A single worker that loses no answer and does not crash stores the text of its own job,
\* although all jobs of a video share one output key.
THEOREM OwnTexts == Spec => []UndisturbedTextIsOfItsJob
<1>1. MediaInv => UndisturbedTextIsOfItsJob
  BY DEF MediaInv, UndisturbedAttention, WorkerAttends, UndisturbedTextIsOfItsJob
<1>2. QED
  BY <1>1, MediaInvariance, PTL

(***************************************************************************)
(* Catalogue and processing implement the video library                    *)
(***************************************************************************)

\* One video that was offered stays so under another status.
LaterStatus ==
  \E v \in Videos, s \in VideoStatus \ {"uploading"} :
    status[v] \in VideoStatus \ {"uploading"} /\ status' = [status EXCEPT ![v] = s]

LEMMA RowStatus ==
  ASSUME TypeOK, JobsHaveVideos, RequestsKnow, RowStep
  PROVE  UNCHANGED status \/ LaterStatus
<1>0. CatalogueTypeOK /\ lastJob \in Nat
  BY CatalogueAssumption DEF TypeOK, JobOrNone
<1>1. ASSUME NEW v \in Videos, status[v] \notin {"absent", "uploading"},
             NEW s \in VideoStatus \ {"uploading"}, SetStatus(v, s)
      PROVE  UNCHANGED status \/ LaterStatus
  BY <1>1 DEF SetStatus, Exists, LaterStatus
<1>2. ASSUME NEW r \in Requests, CreateJob(r) PROVE UNCHANGED status \/ LaterStatus
  <2>1. /\ request[r].video \in Videos
        /\ status[request[r].video] \in VideoStatus \ {"uploading"}
    BY <1>0, <1>2, Serving DEF CreateJob, At, Exists, RequestsKnow
  <2>2. PICK s \in {"processing", "failed", status[request[r].video]} :
          status' = [status EXCEPT ![request[r].video] = s]
    BY <1>2 DEF CreateJob
  <2>3. s \in VideoStatus \ {"uploading"}
    BY <2>1 DEF VideoStatus
  <2>4. QED
    BY <2>1, <2>2, <2>3 DEF LaterStatus
<1>3. ASSUME NEW w \in Workers, NEW j \in Jobs, TakeUpJob(w, j) \/ GiveUpJob(w, j)
      PROVE  UNCHANGED status \/ LaterStatus
  <2>1. jobVideo[j] \in Videos /\ status[jobVideo[j]] \notin {"absent", "uploading"}
    BY <1>0, <1>3 DEF TakeUpJob, GiveUpJob, JobsHaveVideos, Jobs
  <2>2. CASE GiveUpJob(w, j)
    BY <1>1, <2>1, <2>2 DEF GiveUpJob, VideoStatus
  <2>3. CASE TakeUpJob(w, j)
    <3>1. status[jobVideo[j]] \in VideoStatus \ {"uploading"}
      BY <2>1, <2>3 DEF TakeUpJob, Exists
    <3>2. QED
      BY <2>1, <2>3, <3>1 DEF TakeUpJob, LaterStatus, VideoStatus
  <2>4. QED
    BY <1>3, <2>2, <2>3
<1>4. ASSUME NEW w \in Workers, PersistResults(w) \/ FailVideo(w)
      PROVE  UNCHANGED status \/ LaterStatus
  <2>1. VideoOf(w) \in Videos /\ status[VideoOf(w)] \notin {"absent", "uploading"}
    BY <1>4, Working DEF PersistResults, FailVideo, Doing
  <2>2. QED
    BY <1>1, <1>4, <2>1 DEF PersistResults, FailVideo, VideoStatus
<1>5. QED
  BY <1>2, <1>3, <1>4 DEF RowStep, TriggerTranscription

LEMMA ShelvesStay ==
  ASSUME CatalogueTypeOK, UNCHANGED status \/ LaterStatus
  PROVE  UNCHANGED shelves
<1>1. CASE UNCHANGED status
  BY <1>1 DEF shelves
<1>2. ASSUME NEW v \in Videos, NEW s \in VideoStatus \ {"uploading"},
             status[v] \in VideoStatus \ {"uploading"}, status' = [status EXCEPT ![v] = s]
      PROVE  UNCHANGED shelves
  <2>1. \A u \in Videos \ {v} : status'[u] = status[u]
    BY <1>2
  <2>2. status'[v] = s
    BY <1>2 DEF CatalogueTypeOK
  <2>3. QED
    BY <1>2, <2>1, <2>2 DEF shelves, VideoStatus
<1>3. QED
  BY <1>1, <1>2 DEF LaterStatus

\* A row that has been inserted is never "absent" again.
LEMMA UploadsHaveRowsStep ==
  ASSUME TypeOK, JobsHaveVideos, RequestsKnow, UploadsHaveRows, [Next]_vars
  PROVE  UploadsHaveRows'
<1> USE DEF UploadsHaveRows
<1>0. CatalogueTypeOK
  BY DEF TypeOK
<1>1. CASE UNCHANGED <<browser, status>>
  BY <1>1
<1>2. ASSUME NEW v \in Videos, RequestUploadURL(v) PROVE UploadsHaveRows'
  BY <1>0, <1>2 DEF RequestUploadURL, CatalogueTypeOK
<1>3. ASSUME NEW v \in Videos, PutObject(v) PROVE UploadsHaveRows'
  BY <1>0, <1>3 DEF PutObject, CatalogueTypeOK
<1>4. ASSUME NEW v, NEW s, s # "absent", SetStatus(v, s), UNCHANGED browser PROVE UploadsHaveRows'
  BY <1>0, <1>4 DEF SetStatus, CatalogueTypeOK
<1>5. CASE CatalogueNext
  BY <1>1, <1>2, <1>3, <1>4, <1>5
  DEF CatalogueNext, BrowserStep, RequestStep, CompleteUpload, DeleteVideo, GetTranscript, HeadObject,
      MarkUploaded, DeleteObject, DeleteRow, GetSegments, RequestFails
<1>6. CASE RowStep
  <2>1. UNCHANGED browser
    BY <1>6
    DEF RowStep, CreateJob, TriggerTranscription, TakeUpJob, GiveUpJob, PersistResults, FailVideo, rowsVars
  <2>2. \A v \in Videos : status[v] # "absent" => status'[v] # "absent"
    BY <1>0, <1>6, RowStatus DEF LaterStatus, VideoStatus, CatalogueTypeOK
  <2>3. QED
    BY <2>1, <2>2
<1>7. QED
  BY <1>1, <1>5, <1>6, Steps, DiskOnly DEF catalogueVars

\* Only CreateJob gives a job its video, and counts it.
LEMMA JobsAreNewStep ==
  ASSUME TypeOK, JobsAreNew, [Next]_vars
  PROVE  JobsAreNew'
<1>0. lastJob \in Nat /\ jobVideo \in [Jobs -> Videos \cup {"none"}] /\ \A j \in Jobs : j \in Nat
  BY CatalogueAssumption DEF TypeOK, JobOrNone, Jobs
<1>1. CASE UNCHANGED <<lastJob, jobVideo>>
  BY <1>1 DEF JobsAreNew
<1>2. ASSUME NEW r \in Requests, CreateJob(r) PROVE JobsAreNew'
  BY <1>0, <1>2 DEF CreateJob, JobsAreNew
<1>3. CASE RowStep
  BY <1>1, <1>2, <1>3
  DEF RowStep, TriggerTranscription, TakeUpJob, GiveUpJob, PersistResults, FailVideo, processingVars, jobVars
<1>4. QED
  BY <1>1, <1>3, Steps, DiskOnly DEF processingVars, jobVars

\* The words that a worker has got are of its video.
HeardThere(w) ==
  worker[w].text # 0 => worker[w].pc # "idle" /\ jobVideo[worker[w].text] = VideoOf(w)

\* The output of a cloud job goes to the key of its own video, and a worker reads at the key
\* of its own: no words ever pass from one video to another.
LEMMA WordsStayStep ==
  ASSUME TypeOK, JobsHaveVideos, RowsFollowFiles, RequestsKnow, JobsAreNew, WordsStayWithVideo,
         [Next]_vars
  PROVE  WordsStayWithVideo'
<1>0. /\ worker \in [Workers -> Locals] /\ rawOutput \in [Videos -> JobOrNone]
      /\ lastJob \in Nat /\ MaxJobs \in Nat /\ "none" \notin Videos
      /\ \A j \in JobOrNone : j # 0 => j \in Jobs /\ j \in Nat
  BY CatalogueAssumption DEF TypeOK, Locals, Places, JobOrNone, Jobs
<1>1. ASSUME NEW j \in Jobs, jobVideo[j] \in Videos PROVE jobVideo'[j] = jobVideo[j]
  <2>1. ~(j > lastJob)
    BY <1>0, <1>1 DEF JobsAreNew
  <2>2. j \in 1 .. lastJob
    BY <1>0, <2>1 DEF Jobs
  <2>3. QED
    BY <2>2, JobsLast
<1>2. ASSUME NEW w \in Workers, worker[w].pc # "idle"
      PROVE  /\ JobOf(w) \in Jobs /\ JobOf(w) \in JobOrNone
             /\ VideoOf(w) \in Videos /\ jobVideo'[JobOf(w)] = VideoOf(w)
  <2>1. JobOf(w) \in Jobs /\ VideoOf(w) \in Videos
    BY <1>2, Working
  <2>2. QED
    BY <1>0, <1>1, <2>1 DEF JobOf, VideoOf, Locals
<1>3. \A v \in Videos : rawOutput'[v] # 0 => jobVideo'[rawOutput'[v]] = v
  <2>1. \A v \in Videos : rawOutput[v] # 0 => jobVideo'[rawOutput[v]] = v
    BY <1>0, <1>1 DEF WordsStayWithVideo
  <2>2. CASE UNCHANGED rawOutput
    BY <2>1, <2>2
  <2>3. ASSUME NEW j \in Jobs, CloudJobEnds(j)
        PROVE  \A v \in Videos : rawOutput'[v] # 0 => jobVideo'[rawOutput'[v]] = v
    BY <1>0, <2>1, <2>3 DEF CloudJobEnds, jobVars
  <2>4. ASSUME NEW w \in Workers, WorkerStep(w) PROVE UNCHANGED rawOutput
    BY <2>4
    DEF WorkerStep, TakeUpJob, GiveUpJob, FailVideo, DownloadVideo, CopyEnds, ExtractAudio, ConversionEnds,
        UploadAudio, CallWhisper, StartCloudJob, StartAnswerLost, PollResult, PollFails, FetchOutput,
        PersistResults, StepFails, WorkerCrash, storedVars
  <2>5. QED
    BY <2>2, <2>3, <2>4 DEF Next, CreateJob, TriggerTranscription, processingVars, vars, storedVars
<1>4. ASSUME NEW w \in Workers, worker'[w].text = worker[w].text, worker'[w].job = worker[w].job,
             worker'[w].pc = "idle" => worker[w].pc = "idle"
      PROVE  HeardThere(w)'
  <2>1. ASSUME worker[w].text # 0
        PROVE  /\ worker[w].pc # "idle" /\ jobVideo[worker[w].text] = VideoOf(w)
               /\ worker[w].text \in Jobs
    BY <1>0, <2>1 DEF WordsStayWithVideo, Locals
  <2>2. ASSUME worker[w].text # 0 PROVE jobVideo'[worker[w].text] = jobVideo'[worker[w].job]
    BY <1>1, <1>2, <2>1, <2>2 DEF JobOf
  <2>3. QED
    BY <1>4, <2>1, <2>2 DEF HeardThere, VideoOf, JobOf
<1>5. ASSUME NEW w \in Workers, WorkerStep(w) PROVE HeardThere(w)'
  <2>1. CASE worker'[w].text = 0
    BY <2>1 DEF HeardThere
  <2>2. CASE CallWhisper(w)
    <3>1. /\ worker[w].pc # "idle" /\ worker'[w].pc = "persist"
          /\ worker'[w].job = JobOf(w) /\ worker'[w].text = JobOf(w)
      BY <1>0, <2>2 DEF CallWhisper, Doing, Locals, JobOf
    <3>2. QED
      BY <1>2, <3>1 DEF HeardThere, VideoOf, JobOf
  <2>3. CASE FetchOutput(w)
    <3>1. /\ worker[w].pc # "idle" /\ worker'[w].pc = "persist"
          /\ worker'[w].job = JobOf(w) /\ worker'[w].text = rawOutput[VideoOf(w)]
          /\ UNCHANGED <<jobVideo, rawOutput>>
      BY <1>0, <2>3 DEF FetchOutput, Doing, Locals, JobOf, jobVars, storedVars
    <3>2. QED
      BY <1>2, <1>3, <3>1 DEF HeardThere, VideoOf, JobOf
  <2>4. ASSUME NEW pc \in Places \ {"idle"}, Proceed(w, pc) PROVE HeardThere(w)'
    BY <1>0, <1>4, <2>4 DEF Proceed, Locals
  <2>5. ASSUME Rest(w) PROVE worker'[w].text = 0
    BY <1>0, <2>5 DEF Rest, Resting
  <2>6. ASSUME NEW j \in Jobs, TakeUpJob(w, j) \/ GiveUpJob(w, j) PROVE HeardThere(w)'
    BY <1>0, <1>4, <2>1, <2>6 DEF TakeUpJob, GiveUpJob
  <2>7. CASE DownloadVideo(w) \/ CopyEnds(w) \/ ExtractAudio(w) \/ ConversionEnds(w) \/ UploadAudio(w)
    BY <2>4, <2>7 DEF DownloadVideo, CopyEnds, ExtractAudio, ConversionEnds, UploadAudio, Places
  <2>8. CASE StartCloudJob(w) \/ StartAnswerLost(w) \/ PollResult(w) \/ PollFails(w) \/ StepFails(w)
    BY <2>4, <2>8 DEF StartCloudJob, StartAnswerLost, PollResult, PollFails, StepFails, Abort, Places
  <2>9. CASE FailVideo(w) \/ WorkerCrash(w) \/ PersistResults(w)
    BY <2>1, <2>4, <2>5, <2>9 DEF FailVideo, WorkerCrash, PersistResults, Places
  <2>10. QED
    BY <1>5, <2>2, <2>3, <2>6, <2>7, <2>8, <2>9 DEF WorkerStep
<1>6. \A w \in Workers : HeardThere(w)'
  <2>1. CASE UNCHANGED worker
    BY <1>4, <2>1
  <2>2. ASSUME NEW w \in Workers, WorkerStep(w), NEW u \in Workers PROVE HeardThere(u)'
    BY <1>4, <1>5, <2>2, WorkerMoves
  <2>3. QED
    BY <2>1, <2>2 DEF Next, CreateJob, TriggerTranscription, CloudJobEnds, processingVars, vars
<1>7. QED
  BY <1>3, <1>6 DEF WordsStayWithVideo, HeardThere

LEMMA LibraryInitially ==
  ASSUME Init
  PROVE  LibraryInv /\ Library!Init
<1> USE DEF Init, CatalogueInit
<1>1. LibraryInv
  BY DEF LibraryInv, UploadsHaveRows, JobsAreNew, WordsStayWithVideo, Resting
<1>2. shelves = [v \in Videos |-> "unknown"]
  BY DEF shelves
<1>3. mediaFiles = {} /\ texts = [v \in Videos |-> Library!NoText]
  BY DEF mediaFiles, texts, Library!NoText
<1>4. QED
  BY <1>1, <1>2, <1>3 DEF Library!Init

LibraryMove == Library!Next \/ UNCHANGED Library!libraryVars

\* What uploads, deletions and readers do to the catalogue.
LEMMA CatalogueMoves ==
  ASSUME MediaInv, LibraryInv, CatalogueNext, UNCHANGED processingVars
  PROVE  LibraryMove
<1> USE DEF LibraryMove
<1>0. /\ CatalogueTypeOK /\ RowsFollowFiles /\ RequestsKnow /\ UNCHANGED jobVideo
      /\ \A v \in Videos : transcript[v] # 0 \/ segments[v] # 0 => Exists(v)
  BY DEF MediaInv, TypeOK, processingVars
<1>1. CASE UNCHANGED <<status, file, discarded, transcript, segments>>
  BY <1>0, <1>1 DEF Library!libraryVars, shelves, mediaFiles, texts
<1>2. ASSUME NEW v \in Videos, RequestUploadURL(v) PROVE LibraryMove
  <2>1. status[v] = "absent" /\ status' = [status EXCEPT ![v] = "uploading"]
    BY <1>0, <1>2 DEF RequestUploadURL, RowsFollowFiles
  <2>2. shelves[v] = "unknown" /\ shelves' = [shelves EXCEPT ![v] = "expected"]
    BY <1>0, <2>1 DEF shelves, CatalogueTypeOK
  <2>3. UNCHANGED <<mediaFiles, texts, discarded, jobVideo>>
    BY <1>0, <1>2 DEF RequestUploadURL, mediaFiles, texts
  <2>4. QED
    BY <2>2, <2>3 DEF Library!Next, Library!Expect
<1>3. ASSUME NEW v \in Videos, PutObject(v) PROVE LibraryMove
  <2>1. file[v] = "none" /\ status[v] # "absent"
    BY <1>0, <1>3 DEF PutObject, RowsFollowFiles, LibraryInv, UploadsHaveRows
  <2>2. UNCHANGED <<shelves, texts, discarded, jobVideo>>
    BY <1>0, <1>3 DEF PutObject, shelves, texts
  <2>3. CASE file' = [file EXCEPT ![v] = "media"]
    <3>1. v \notin mediaFiles /\ mediaFiles' = mediaFiles \cup {v}
      BY <1>0, <2>1, <2>3 DEF mediaFiles, CatalogueTypeOK
    <3>2. shelves[v] # "unknown"
      BY <1>0, <2>1 DEF shelves, CatalogueTypeOK
    <3>3. QED
      BY <2>2, <3>1, <3>2 DEF Library!Next, Library!Arrive
  <2>4. CASE file' = [file EXCEPT ![v] = "empty"] \/ UNCHANGED file
    <3>1. UNCHANGED mediaFiles
      BY <1>0, <2>1, <2>4 DEF mediaFiles, CatalogueTypeOK
    <3>2. QED
      BY <2>2, <3>1 DEF Library!libraryVars
  <2>5. QED
    BY <1>3, <2>3, <2>4 DEF PutObject
<1>4. ASSUME NEW r \in Requests, MarkUploaded(r) PROVE LibraryMove
  <2>1. PICK v \in Videos : v = request[r].video /\ v \in mediaFiles \cup discarded
    BY <1>0, <1>4, Serving DEF MarkUploaded, At, RequestsKnow, mediaFiles
  <2>2. UNCHANGED <<mediaFiles, texts, discarded, jobVideo>>
    BY <1>0, <1>4 DEF MarkUploaded, mediaFiles, texts
  <2>3. CASE status[v] = "uploading"
    <3>1. status' = [status EXCEPT ![v] = "uploaded"]
      BY <1>4, <2>1, <2>3 DEF MarkUploaded, SetStatus, Exists, VideoStatus
    <3>2. shelves[v] = "expected" /\ shelves' = [shelves EXCEPT ![v] = "offered"]
      BY <1>0, <2>3, <3>1 DEF shelves, CatalogueTypeOK
    <3>3. QED
      BY <2>1, <2>2, <3>2 DEF Library!Next, Library!Offer
  <2>4. CASE status[v] # "uploading"
    <3>1. UNCHANGED status \/ LaterStatus
      BY <1>4, <2>1, <2>4 DEF MarkUploaded, SetStatus, Exists, LaterStatus, VideoStatus
    <3>2. QED
      BY <1>0, <2>2, <3>1, ShelvesStay DEF Library!libraryVars
  <2>5. QED
    BY <2>3, <2>4
<1>5. ASSUME NEW r \in Requests, NEW v \in Videos, DeleteVideo(r, v) PROVE LibraryMove
  <2>1. UNCHANGED <<shelves, mediaFiles, texts, jobVideo>> /\ discarded' = discarded \cup {v}
    BY <1>0, <1>5 DEF DeleteVideo, shelves, mediaFiles, texts
  <2>2. shelves[v] \in {"expected", "offered"}
    BY <1>5 DEF DeleteVideo, Exists, VideoStatus, shelves
  <2>3. QED
    BY <2>1, <2>2 DEF Library!Next, Library!Discard
<1>6. ASSUME NEW r \in Requests, DeleteObject(r) PROVE LibraryMove
  <2>1. PICK v \in Videos : v = request[r].video /\ v \in discarded
    BY <1>0, <1>6, Serving DEF DeleteObject, At, RequestsKnow
  <2>2. UNCHANGED <<shelves, texts, discarded, jobVideo>>
    BY <1>0, <1>6 DEF DeleteObject, shelves, texts
  <2>3. CASE UNCHANGED file
    BY <2>2, <2>3 DEF Library!libraryVars, mediaFiles
  <2>4. CASE file' = [file EXCEPT ![v] = "none"]
    <3>1. mediaFiles' = mediaFiles \ {v}
      BY <1>0, <2>4 DEF mediaFiles, CatalogueTypeOK
    <3>2. QED
      BY <2>1, <2>2, <3>1 DEF Library!Next, Library!LoseFile
  <2>5. QED
    BY <1>6, <2>1, <2>3, <2>4 DEF DeleteObject
<1>7. ASSUME NEW r \in Requests, DeleteRow(r) PROVE LibraryMove
  <2>1. PICK v \in Videos : v = request[r].video /\ v \in discarded
    BY <1>0, <1>7, Serving DEF DeleteRow, At, RequestsKnow
  <2>2. UNCHANGED <<mediaFiles, discarded, jobVideo>>
    BY <1>0, <1>7 DEF DeleteRow, mediaFiles
  <2>3. texts' = [texts EXCEPT ![v] = Library!NoText]
    BY <1>0, <1>7, <2>1 DEF DeleteRow, texts, Library!NoText, CatalogueTypeOK
  <2>4. CASE Exists(v)
    <3>1. status' = [status EXCEPT ![v] = "removed"]
      BY <1>7, <2>1, <2>4 DEF DeleteRow, SetStatus
    <3>2. shelves[v] \in {"expected", "offered"} /\ shelves' = [shelves EXCEPT ![v] = "removed"]
      BY <1>0, <2>4, <3>1 DEF shelves, CatalogueTypeOK, Exists, VideoStatus
    <3>3. QED
      BY <2>1, <2>2, <2>3, <3>2 DEF Library!Next, Library!Remove
  <2>5. CASE ~Exists(v)
    <3>1. UNCHANGED shelves
      BY <1>7, <2>1, <2>5 DEF DeleteRow, SetStatus, shelves
    <3>2. transcript[v] = 0 /\ segments[v] = 0
      BY <1>0, <2>5
    <3>3. UNCHANGED texts
      BY <1>0, <2>3, <3>2 DEF texts, Library!NoText
    <3>4. QED
      BY <2>2, <3>1, <3>3 DEF Library!libraryVars
  <2>6. QED
    BY <2>4, <2>5
<1>8. QED
  BY <1>1, <1>2, <1>3, <1>4, <1>5, <1>6, <1>7
  DEF CatalogueNext, BrowserStep, RequestStep, CompleteUpload, GetTranscript, HeadObject, GetSegments,
      RequestFails

\* What requests and workers do to it for a job's sake.
LEMMA RowMoves ==
  ASSUME MediaInv, LibraryInv, RowStep
  PROVE  LibraryMove
<1> USE DEF LibraryMove
<1>0. /\ TypeOK /\ CatalogueTypeOK /\ JobsHaveVideos /\ RequestsKnow /\ lastJob \in Nat
      /\ UNCHANGED <<file, discarded, mediaFiles>>
  BY CatalogueAssumption
  DEF MediaInv, TypeOK, JobOrNone, RowStep, CreateJob, TriggerTranscription, TakeUpJob, GiveUpJob,
      PersistResults, FailVideo, rowsVars, mediaFiles
<1>1. UNCHANGED shelves
  BY <1>0, RowStatus, ShelvesStay
<1>2. CASE UNCHANGED <<jobVideo, transcript, segments>>
  BY <1>0, <1>1, <1>2 DEF Library!libraryVars, texts
<1>3. ASSUME NEW r \in Requests, CreateJob(r) PROVE LibraryMove
  <2>1. PICK v \in Videos : v = request[r].video /\ status[v] \in VideoStatus \ {"uploading"}
    BY <1>0, <1>3, Serving DEF CreateJob, At, Exists, RequestsKnow
  <2>2. PICK j \in Jobs : j = lastJob + 1 /\ j > lastJob
    BY <1>0, <1>3, CatalogueAssumption DEF CreateJob, Jobs
  <2>3. jobVideo[j] = "none" /\ jobVideo' = [jobVideo EXCEPT ![j] = v]
    BY <1>3, <2>1, <2>2 DEF CreateJob, LibraryInv, JobsAreNew
  <2>4. shelves[v] = "offered" /\ UNCHANGED texts
    BY <1>3, <2>1 DEF CreateJob, shelves, texts, VideoStatus
  <2>5. QED
    BY <1>0, <1>1, <2>3, <2>4 DEF Library!Next, Library!Ask
<1>4. ASSUME NEW w \in Workers, PersistResults(w) PROVE LibraryMove
  <2>1. PICK v \in Videos, j \in Jobs : v = VideoOf(w) /\ j = JobOf(w) /\ jobVideo[j] = v
    BY <1>0, <1>4, Working DEF PersistResults, Doing, VideoOf
  <2>2. PICK words \in Jobs : words = worker[w].text /\ jobVideo[words] = v
    <3>1. worker[w].text \in JobOrNone /\ worker[w].text # 0
      BY <1>0, <1>4 DEF TypeOK, MediaInv, TextsExist, PersistResults
    <3>2. worker[w].text \in Jobs
      BY <3>1, CatalogueAssumption DEF JobOrNone, Jobs
    <3>3. QED
      BY <2>1, <3>1, <3>2 DEF LibraryInv, WordsStayWithVideo
  <2>3. texts' = [texts EXCEPT ![v] = [job |-> j, words |-> words]]
    BY <1>0, <1>4, <2>1, <2>2 DEF PersistResults, texts, CatalogueTypeOK
  <2>4. shelves[v] = "offered"
    <3>1. status[v] \in VideoStatus /\ status[v] \notin {"absent", "uploading"}
      BY <1>0, <1>4, <2>1, Working DEF PersistResults, Doing, Exists
    <3>2. QED
      BY <3>1 DEF shelves, VideoStatus
  <2>5. UNCHANGED jobVideo
    BY <1>4 DEF PersistResults, jobVars
  <2>6. QED
    BY <1>0, <1>1, <2>1, <2>2, <2>3, <2>4, <2>5 DEF Library!Next, Library!Publish
<1>5. QED
  BY <1>2, <1>3, <1>4
  DEF RowStep, TriggerTranscription, TakeUpJob, GiveUpJob, FailVideo, processingVars, jobVars

\* The strengthening holds in every reachable state: words stay with their video, although
\* workers, deliveries and AWS overtake each other.
THEOREM LibraryInvariance == Spec => []LibraryInv
<1>1. Init => LibraryInv
  BY LibraryInitially
<1>2. MediaInv /\ LibraryInv /\ [Next]_vars => LibraryInv'
  BY UploadsHaveRowsStep, JobsAreNewStep, WordsStayStep DEF MediaInv, LibraryInv
<1>3. QED
  BY <1>1, <1>2, MediaInvariance, PTL DEF Spec

\* Every step of requests, workers and AWS is a step of the library or stutters: for any
\* number of videos, jobs, workers and faults, a video is offered with its file, its text is
\* replaced as a whole by words of its own, and it goes only when it was discarded.
THEOREM LibraryRefinement == Spec => LibrarySpec
<1>1. Init => Library!Init
  BY LibraryInitially
<1>2. MediaInv /\ LibraryInv /\ [Next]_vars => [Library!Next]_(Library!libraryVars)
  <2>1. ASSUME MediaInv, LibraryInv, [Next]_vars PROVE LibraryMove
    <3>1. CASE CatalogueRests
      BY <3>1, DiskOnly
      DEF LibraryMove, Library!libraryVars, shelves, mediaFiles, texts, catalogueVars, jobVars
    <3>2. QED
      BY <2>1, <3>1, Steps, CatalogueMoves, RowMoves
  <2>2. QED
    BY <2>1 DEF LibraryMove
<1>3. QED
  BY <1>1, <1>2, MediaInvariance, LibraryInvariance, PTL DEF Spec, LibrarySpec, Library!Spec
=============================================================================
