--------------------------- MODULE MediaProcessing --------------------------
(***************************************************************************)
(* What the processor does with a video's bytes: download to scratch, the  *)
(* audio track by ffmpeg, the audio to storage, speech to text, and the    *)
(* transcript to the database. Scratch directories are named after the     *)
(* job, the audio and the raw output in storage only after the video.      *)
(*                                                                         *)
(* Which worker gets which job when is the matter of TranscriptionPipeline *)
(* and left open here: any worker may take up any job at any time, again   *)
(* and again. Workers do not share a disk, as each has its own container.  *)
(***************************************************************************)
EXTENDS VideoCatalogue

CONSTANTS
  Workers,
  MaxFaults,   \* bound: how many faults happen
  FaultKinds   \* which ones: "crash" of a worker, "answer" of AWS Transcribe that is lost

ASSUME ProcessingAssumption ==
  /\ MaxFaults \in Nat
  /\ FaultKinds \subseteq {"crash", "answer"}
  /\ IsFiniteSet(Workers)

VARIABLES
  provider,   \* "aws" or "whisper", by configuration
  lastJob,    \* jobs are numbered in the order of their creation
  jobVideo,   \* the video of each job, as its message has it
  worker,     \* the locals of ProcessJob: where it is, the job, and whose text it has got
  scratch,    \* the files in each job's scratch directory on each worker's disk
  audio,      \* the object at each video's audio key
  rawOutput,  \* the job whose output is the object at each video's raw output key
  cloudJob,   \* AWS Transcribe's jobs, which are named after ours
  faults

processingVars == <<provider, lastJob, jobVideo, worker, scratch, audio, rawOutput, cloudJob, faults>>
vars == <<catalogueVars, processingVars>>

Contents == {"none", "part", "whole"}
EmptyDir == [video |-> "none", audio |-> "none"]
Resting == [pc |-> "idle", job |-> 0, text |-> 0]

Init ==
  /\ CatalogueInit
  /\ provider \in {"aws", "whisper"}
  /\ lastJob = 0
  /\ jobVideo = [j \in Jobs |-> "none"]
  /\ worker = [w \in Workers |-> Resting]
  /\ scratch = [w \in Workers |-> [j \in Jobs |-> EmptyDir]]
  /\ audio = [v \in Videos |-> "none"]
  /\ rawOutput = [v \in Videos |-> 0]
  /\ cloudJob = [j \in Jobs |-> "none"]
  /\ faults = 0

JobOf(w) == worker[w].job
VideoOf(w) == jobVideo[JobOf(w)]
Dir(w) == scratch[w][JobOf(w)]

Doing(w, pc) == worker[w].pc = pc
Proceed(w, pc) == worker' = [worker EXCEPT ![w].pc = pc]
Rest(w) == worker' = [worker EXCEPT ![w] = Resting]
Write(w, name, content) == scratch' = [scratch EXCEPT ![w][JobOf(w)][name] = content]
Cleanup(w) == scratch' = [scratch EXCEPT ![w][JobOf(w)] = EmptyDir]

Fault(kind) == kind \in FaultKinds /\ faults < MaxFaults /\ faults' = faults + 1

\* ProcessJob returns an error; its deferred cleanup removes the directory.
Abort(w) == Proceed(w, "fail") /\ Cleanup(w)

rowsVars == <<file, browser, request, discarded>>
jobVars == <<provider, lastJob, jobVideo>>
storedVars == <<audio, rawOutput>>

-----------------------------------------------------------------------------
(* Variants with a seeded bug. No action uses them.                        *)

\* A video that is on the disk already is not downloaded again.
DownloadVideoReuses(w) ==
  /\ Doing(w, "download")
  /\ file[VideoOf(w)] # "none"
  /\ \/ Dir(w).video = "none" /\ Write(w, "video", "part") /\ Proceed(w, "copy")
     \/ Dir(w).video # "none" /\ Proceed(w, "extract") /\ UNCHANGED scratch
  /\ UNCHANGED <<catalogueVars, jobVars, storedVars, cloudJob, faults>>

\* Waiting for AWS Transcribe has a time limit.
PollResultImpatient(w) ==
  /\ Doing(w, "poll")
  /\ \/ cloudJob[JobOf(w)] = "done" /\ Proceed(w, "fetch") /\ UNCHANGED scratch
     \/ cloudJob[JobOf(w)] # "done" /\ Abort(w)
  /\ UNCHANGED <<catalogueVars, jobVars, storedVars, cloudJob, faults>>

\* The segments are inserted after the transaction, and may fail alone.
PersistResultsInPieces(w) ==
  LET v == VideoOf(w)
  IN  /\ Doing(w, "persist")
      /\ Exists(v)
      /\ transcript' = [transcript EXCEPT ![v] = JobOf(w)]
      /\ segments' \in {[segments EXCEPT ![v] = j] : j \in {0, worker[w].text}}
      /\ SetStatus(v, "completed")
      /\ Rest(w) /\ Cleanup(w)
      /\ UNCHANGED <<rowsVars, jobVars, storedVars, cloudJob, faults>>

\* The transcript of a deleted video is stored all the same.
PersistResultsUnlinked(w) ==
  LET v == VideoOf(w)
  IN  /\ Doing(w, "persist")
      /\ transcript' = [transcript EXCEPT ![v] = JobOf(w)]
      /\ segments' = [segments EXCEPT ![v] = worker[w].text]
      /\ SetStatus(v, "completed")
      /\ Rest(w) /\ Cleanup(w)
      /\ UNCHANGED <<rowsVars, jobVars, storedVars, cloudJob, faults>>

\* The guard looks for a transcription that is going on, and forgets the upload.
TriggerTranscriptionEarly(r, v) ==
  /\ Exists(v) /\ status[v] # "processing"
  /\ Serve(r, v, "createJob")
  /\ UNCHANGED <<status, file, browser, transcript, segments, discarded, processingVars>>

-----------------------------------------------------------------------------
(* Jobs come and go                                                        *)

\* TriggerTranscription reads the row.
TriggerTranscription(r, v) ==
  /\ Exists(v) /\ status[v] \notin {"uploading", "processing"}
  /\ Serve(r, v, "createJob")
  /\ UNCHANGED <<status, file, browser, transcript, segments, discarded, processingVars>>

\* Then, whatever the status is by now, it inserts the job, marks the video and publishes
\* the message: the video is left "processing", or "failed" when that is undone, or as it
\* was when the request ends in between.
CreateJob(r) ==
  LET v == request[r].video
  IN  /\ At(r, "createJob")
      /\ Exists(v)
      /\ lastJob < MaxJobs
      /\ lastJob' = lastJob + 1
      /\ jobVideo' = [jobVideo EXCEPT ![lastJob + 1] = v]
      /\ status' \in {[status EXCEPT ![v] = s] : s \in {"processing", "failed", status[v]}}
      /\ Finish(r)
      /\ UNCHANGED <<file, browser, discarded, transcript, segments, provider>>
      /\ UNCHANGED <<worker, scratch, storedVars, cloudJob, faults>>

\* processMessage finds the job's row, claims the job and starts ProcessJob, which finds or
\* makes its scratch directory.
TakeUpJob(w, j) ==
  /\ worker[w] = Resting
  /\ j <= lastJob
  /\ Exists(jobVideo[j])
  /\ status' \in {[status EXCEPT ![jobVideo[j]] = "processing"], status}
  /\ worker' = [worker EXCEPT ![w] = [pc |-> "download", job |-> j, text |-> 0]]
  /\ UNCHANGED <<rowsVars, transcript, segments, jobVars, scratch, storedVars, cloudJob, faults>>

\* A job that was delivered too often is given up without processing.
GiveUpJob(w, j) ==
  /\ worker[w] = Resting
  /\ j <= lastJob
  /\ SetStatus(jobVideo[j], "failed")
  /\ UNCHANGED <<rowsVars, transcript, segments, jobVars, worker, scratch, storedVars, cloudJob, faults>>

\* After an error of ProcessJob; the error of this UPDATE is dropped.
FailVideo(w) ==
  /\ Doing(w, "fail")
  /\ Rest(w)
  /\ \/ SetStatus(VideoOf(w), "failed")
     \/ UNCHANGED status
  /\ UNCHANGED <<rowsVars, transcript, segments, jobVars, scratch, storedVars, cloudJob, faults>>

-----------------------------------------------------------------------------
(* The steps of ProcessJob                                                 *)

\* GetObject finds the file; os.Create empties a copy that is left from before.
DownloadVideo(w) ==
  /\ Doing(w, "download")
  /\ file[VideoOf(w)] # "none"
  /\ Write(w, "video", "part")
  /\ Proceed(w, "copy")
  /\ UNCHANGED <<catalogueVars, jobVars, storedVars, cloudJob, faults>>

CopyEnds(w) ==
  /\ Doing(w, "copy")
  /\ Write(w, "video", "whole")
  /\ Proceed(w, "extract")
  /\ UNCHANGED <<catalogueVars, jobVars, storedVars, cloudJob, faults>>

\* ffmpeg -y overwrites an audio file that is left from before.
ExtractAudio(w) ==
  /\ Doing(w, "extract")
  /\ Write(w, "audio", "part")
  /\ Proceed(w, "convert")
  /\ UNCHANGED <<catalogueVars, jobVars, storedVars, cloudJob, faults>>

ConversionEnds(w) ==
  /\ Doing(w, "convert")
  /\ Write(w, "audio", Dir(w).video)
  /\ Proceed(w, "upload")
  /\ UNCHANGED <<catalogueVars, jobVars, storedVars, cloudJob, faults>>

UploadAudio(w) ==
  /\ Doing(w, "upload")
  /\ audio' = [audio EXCEPT ![VideoOf(w)] = Dir(w).audio]
  /\ Proceed(w, "transcribe")
  /\ UNCHANGED <<catalogueVars, jobVars, scratch, rawOutput, cloudJob, faults>>

\* Whisper hears the file on the disk and answers at once.
CallWhisper(w) ==
  /\ provider = "whisper"
  /\ Doing(w, "transcribe")
  /\ worker' = [worker EXCEPT ![w].pc = "persist", ![w].text = JobOf(w)]
  /\ UNCHANGED <<catalogueVars, jobVars, scratch, storedVars, cloudJob, faults>>

\* AWS refuses a job whose name it knows.
StartCloudJob(w) ==
  /\ provider = "aws"
  /\ Doing(w, "transcribe")
  /\ \/ /\ cloudJob[JobOf(w)] = "none"
        /\ cloudJob' = [cloudJob EXCEPT ![JobOf(w)] = "running"]
        /\ Proceed(w, "poll")
        /\ UNCHANGED scratch
     \/ /\ cloudJob[JobOf(w)] # "none"
        /\ Abort(w)
        /\ UNCHANGED cloudJob
  /\ UNCHANGED <<catalogueVars, jobVars, storedVars, faults>>

\* The job has started, but the call that started it returns an error.
StartAnswerLost(w) ==
  /\ provider = "aws"
  /\ Doing(w, "transcribe")
  /\ cloudJob[JobOf(w)] = "none"
  /\ cloudJob' = [cloudJob EXCEPT ![JobOf(w)] = "running"]
  /\ Fault("answer")
  /\ Abort(w)
  /\ UNCHANGED <<catalogueVars, jobVars, storedVars>>

\* AWS Transcribe ends a job, whether or not anybody waits for it.
CloudJobEnds(j) ==
  /\ cloudJob[j] = "running"
  /\ \/ /\ cloudJob' = [cloudJob EXCEPT ![j] = "done"]
        /\ rawOutput' = [rawOutput EXCEPT ![jobVideo[j]] = j]
     \/ /\ cloudJob' = [cloudJob EXCEPT ![j] = "failed"]
        /\ UNCHANGED rawOutput
  /\ UNCHANGED <<catalogueVars, jobVars, worker, scratch, audio, faults>>

\* While the job runs, the worker goes on asking.
PollResult(w) ==
  /\ Doing(w, "poll")
  /\ \/ cloudJob[JobOf(w)] = "done" /\ Proceed(w, "fetch") /\ UNCHANGED scratch
     \/ cloudJob[JobOf(w)] = "failed" /\ Abort(w)
  /\ UNCHANGED <<catalogueVars, jobVars, storedVars, cloudJob, faults>>

\* A poll without an answer, or cancelled by a shutdown, is an error at once, although the
\* job goes on.
PollFails(w) ==
  /\ Doing(w, "poll")
  /\ Fault("answer")
  /\ Abort(w)
  /\ UNCHANGED <<catalogueVars, jobVars, storedVars, cloudJob>>

\* The worker reads what now lies at the output key.
FetchOutput(w) ==
  /\ Doing(w, "fetch")
  /\ worker' = [worker EXCEPT ![w].pc = "persist", ![w].text = rawOutput[VideoOf(w)]]
  /\ UNCHANGED <<catalogueVars, jobVars, scratch, storedVars, cloudJob, faults>>

\* One transaction; without the video's row it fails on the foreign keys. The answer to
\* COMMIT may be lost, too.
PersistResults(w) ==
  LET v == VideoOf(w)
  IN  /\ Doing(w, "persist")
      /\ Exists(v)
      /\ transcript' = [transcript EXCEPT ![v] = JobOf(w)]
      /\ segments' = [segments EXCEPT ![v] = worker[w].text]
      /\ SetStatus(v, "completed")
      /\ Rest(w) \/ Proceed(w, "fail")
      /\ Cleanup(w)
      /\ UNCHANGED <<rowsVars, jobVars, storedVars, cloudJob, faults>>

\* Any other step may fail: storage, disk, ffmpeg, HTTP, database.
StepFails(w) ==
  /\ worker[w].pc \in {"download", "copy", "extract", "convert", "upload", "transcribe", "fetch", "persist"}
  /\ Abort(w)
  /\ UNCHANGED <<catalogueVars, jobVars, storedVars, cloudJob, faults>>

\* The process dies; the scratch directory stays.
WorkerCrash(w) ==
  /\ worker[w] # Resting
  /\ Fault("crash")
  /\ Rest(w)
  /\ UNCHANGED <<catalogueVars, jobVars, scratch, storedVars, cloudJob>>

WorkerStep(w) ==
  \/ \E j \in Jobs : TakeUpJob(w, j) \/ GiveUpJob(w, j)
  \/ DownloadVideo(w) \/ CopyEnds(w) \/ ExtractAudio(w) \/ ConversionEnds(w) \/ UploadAudio(w)
  \/ CallWhisper(w) \/ StartCloudJob(w) \/ StartAnswerLost(w) \/ PollResult(w) \/ PollFails(w)
  \/ FetchOutput(w)
  \/ PersistResults(w) \/ StepFails(w) \/ FailVideo(w) \/ WorkerCrash(w)

Next ==
  \/ CatalogueNext /\ UNCHANGED processingVars
  \/ \E r \in Requests : CreateJob(r) \/ \E v \in Videos : TriggerTranscription(r, v)
  \/ \E w \in Workers : WorkerStep(w)
  \/ \E j \in Jobs : CloudJobEnds(j)

Spec == Init /\ [][Next]_vars

-----------------------------------------------------------------------------
(* Properties                                                              *)

\* Types, and that only rows of videos that exist have transcripts.
TypeOK ==
  /\ CatalogueTypeOK
  /\ \A v \in Videos : transcript[v] # 0 \/ segments[v] # 0 => Exists(v)
  /\ provider \in {"aws", "whisper"}
  /\ lastJob \in JobOrNone
  /\ jobVideo \in [Jobs -> Videos \cup {"none"}]
  /\ worker \in [Workers -> [pc : {"idle", "download", "copy", "extract", "convert", "upload",
                                   "transcribe", "poll", "fetch", "persist", "fail"},
                             job : JobOrNone, text : JobOrNone]]
  /\ scratch \in [Workers -> [Jobs -> [video : Contents, audio : Contents]]]
  /\ audio \in [Videos -> Contents]
  /\ rawOutput \in [Videos -> JobOrNone]
  /\ cloudJob \in [Jobs -> {"none", "running", "done", "failed"}]
  /\ faults \in 0 .. MaxFaults

\* Speech is recognised in the whole audio track only: no piece of a file that an earlier,
\* crashed attempt left on the disk gets into storage or to the provider.
AudioIsWhole ==
  /\ \A v \in Videos : audio[v] # "part"
  /\ \A w \in Workers : worker[w].pc \in {"upload", "transcribe"} => Dir(w).audio = "whole"

\* A stored text was made for the job that its transcript names, in that job's language.
TextIsOfItsJob == \A v \in Videos : segments[v] = transcript[v]

\* That holds as long as no attempt was abandoned while its cloud job went on, for a
\* single worker, which waits for one cloud job to end before it starts another.
UndisturbedTextIsOfItsJob == Cardinality(Workers) = 1 /\ faults = 0 => TextIsOfItsJob
-----------------------------------------------------------------------------
(* The inductive strengthening of the properties above                     *)

\* A row is inserted once, before its file is PUT; behind "uploading" there is a file.
RowsFollowFiles ==
  \A v \in Videos :
    /\ browser[v] = "start" => status[v] = "absent"
    /\ file[v] # "none" => browser[v] = "done"
    /\ status[v] \in VideoStatus \ {"uploading"} => file[v] = "media" \/ v \in discarded

\* What a request knows from its earlier calls is still so, or the video is discarded.
RequestsKnow ==
  \A r \in Requests :
    LET v == request[r].video
    IN  /\ At(r, "write") => file[v] = "media" \/ v \in discarded
        /\ At(r, "deleteObject") \/ At(r, "deleteRow") => v \in discarded
        /\ At(r, "createJob") => status[v] \notin {"absent", "uploading"}
        /\ At(r, "readSegments") => segments[v] # 0 \/ v \in discarded

\* Jobs belong to videos that were uploaded, busy workers to jobs.
JobsHaveVideos ==
  /\ \A j \in 1 .. lastJob : /\ jobVideo[j] \in Videos
                           /\ status[jobVideo[j]] \notin {"absent", "uploading"}
  /\ \A w \in Workers : worker[w] = Resting \/ (worker[w].pc # "idle" /\ JobOf(w) \in 1 .. lastJob)
  /\ \A j \in Jobs : cloudJob[j] # "none" => j \in 1 .. lastJob

\* A worker that has asked the provider has, or will find, a text.
TextsExist ==
  /\ \A v \in Videos : transcript[v] # 0 => segments[v] # 0
  /\ \A j \in Jobs : cloudJob[j] = "done" => rawOutput[jobVideo[j]] # 0
  /\ \A w \in Workers : /\ Doing(w, "fetch") => cloudJob[JobOf(w)] = "done"
                        /\ Doing(w, "persist") => worker[w].text # 0

\* Every file that a step reads was written as a whole by an earlier step of the same attempt.
FilesAreWhole ==
  /\ \A v \in Videos : audio[v] # "part"
  /\ \A w \in Workers :
       /\ worker[w].pc \in {"extract", "convert"} => Dir(w).video = "whole"
       /\ worker[w].pc \in {"upload", "transcribe"} => Dir(w).audio = "whole"

\* An undisturbed single worker attends to every cloud job that runs.
WorkerAttends ==
  /\ \A j \in Jobs : cloudJob[j] = "running" =>
       \E w \in Workers : Doing(w, "poll") /\ JobOf(w) = j
  /\ \A w \in Workers :
       /\ Doing(w, "poll") => cloudJob[JobOf(w)] # "none"
       /\ Doing(w, "poll") /\ cloudJob[JobOf(w)] = "done" => rawOutput[VideoOf(w)] = JobOf(w)
       /\ Doing(w, "fetch") => rawOutput[VideoOf(w)] = JobOf(w)
       /\ Doing(w, "persist") => worker[w].text = JobOf(w)
  /\ TextIsOfItsJob

UndisturbedAttention == Cardinality(Workers) = 1 /\ faults = 0 => WorkerAttends

MediaInv ==
  /\ TypeOK /\ RowsFollowFiles /\ RequestsKnow /\ JobsHaveVideos
  /\ TextsExist /\ FilesAreWhole /\ UndisturbedAttention
=============================================================================
