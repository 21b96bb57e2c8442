-------------------------- MODULE VideoDetailPage ---------------------------
(***************************************************************************)
(* One visit to the page of a video.  A load asks for the video, then for  *)
(* its latest job, then, if the video was completed, for the transcript;   *)
(* loads start on arrival, by a button and every two and a half seconds    *)
(* while the video or its job is seen to be under way, and no load waits   *)
(* for another.  The page may start the transcription itself.              *)
(*                                                                         *)
(* The server's side is what TranscriptionPipeline shows of it: the rows   *)
(* of the video and of its latest job, which change one at a time, and the *)
(* writes of earlier jobs, which nobody waits for.                         *)
(***************************************************************************)
EXTENDS Naturals, Sequences

CONSTANTS
  MaxLoads,    \* bound: loads that can be on their way at a time
  MaxTroubles  \* bound: how often a job is tried again, another one started elsewhere, or a
               \* request lost

ASSUME DetailAssumption == MaxLoads \in Nat \ {0} /\ MaxTroubles \in Nat

None == "none"
VideoStatus == {"uploading", "uploaded", "processing", "completed", "failed"}
JobStatus == {"queued", "processing", "completed", "failed"}

VARIABLES
  row,          \* videos.status, or "deleted"
  latestJob,    \* transcription_jobs.status of the video's latest job
  run,          \* what the worker is about to do for that job, if one has it
  older,        \* who else may write to row: a "job" before it, or its "start" elsewhere
  troubles,     \* jobs tried again or started elsewhere, and requests lost, so far
  video,        \* the status in the page's video, None while it is null
  job,          \* the status in the page's job, None while it is null
  transcript,   \* whether transcript and segments are set
  loading,
  error,        \* whether error is set, and "Video Unavailable" shown
  loads,        \* calls of loadData on their way, in the order of their beginning
  start,        \* the request of handleStartTranscription, which is what actionLoading says
  mine,         \* history: whether the page's own job, while it is the latest, is under way
  crossed,      \* history: another job has written to row since that start
  lateVideo,    \* history: the page's video is older than that start
  lateJob,      \* history: the page's job is
  missed        \* history: a request for the transcript has failed, and none succeeded

vars == <<row, latestJob, run, older, troubles, video, job, transcript, loading, error, loads,
          start, mine, crossed, lateVideo, lateJob, missed>>
server == <<row, latestJob, run, older>>
page == <<video, job, transcript, loading, error>>
claims == <<mine, crossed, lateVideo, lateJob>>
history == <<claims, missed>>

Exists == row \in VideoStatus

\* A load is between two requests only while JavaScript runs: it waits for the server
\* ("video", "job", "text") or for its answer to be handled.
LoadIn(stages, statuses) ==
  [pc : stages, seen : statuses,
   completed : BOOLEAN,  \* videoData.status === 'completed'
   old : BOOLEAN]        \* history: seen before the start

LoadState ==
  LoadIn({"video", "job", "text"}, {None})
    \cup LoadIn({"videoServed"}, VideoStatus \cup {"missing"})
    \cup LoadIn({"jobServed"}, JobStatus \cup {"missing"})

NewLoad == [pc |-> "video", seen |-> None, completed |-> FALSE, old |-> FALSE]

Init ==
  /\ \/ row \in {"uploading", "uploaded", "deleted"} /\ latestJob = None /\ older = "nobody"
     \/ row = "processing" /\ latestJob = "queued" /\ older \in {"nobody", "job"}
     \/ row \in {"completed", "failed"} /\ latestJob = row /\ older \in {"nobody", "job"}
  /\ run = "none"
  /\ troubles = 0
  /\ video = None /\ job = None /\ transcript = FALSE
  /\ loading = TRUE /\ error = FALSE
  /\ loads = <<NewLoad>>
  /\ start = "idle"
  /\ mine = "none" /\ crossed = FALSE
  /\ lateVideo = FALSE /\ lateJob = FALSE /\ missed = FALSE

-----------------------------------------------------------------------------
(* What the page shows                                                     *)

\* The spinner, the error page, or the player with what belongs to it.
Shown == ~loading /\ ~error /\ video # None

TranscribeOffered == Shown /\ video \in {"uploaded", "failed"}

\* The page has been told that its start succeeded; its job is the video's latest and has
\* not ended yet.
Started == mine = "busy" /\ start = "idle"

-----------------------------------------------------------------------------
(* Variants with a seeded bug. No action uses them: each stands for a      *)
(* plausible slip in the operation it is named after.                      *)

\* The job, which the page knows of first, is not asked.
isProcessingByVideo == video \in {"processing", "uploading"}

\* The page's own video decides, which setVideo has not changed yet.
CompletedOnPage(seen) == video = "completed"

\* setVideo is left to the next load.
StartAnsweredWithoutVideo ==
  /\ start = "marked"
  /\ job' = "queued"
  /\ lateVideo' = FALSE /\ lateJob' = FALSE
  /\ start' = "idle"
  /\ mine' = IF mine = "ended" THEN "none" ELSE mine
  /\ UNCHANGED <<server, troubles, video, transcript, loading, error, loads, crossed, missed>>

\* The error of an earlier load is not cleared.
loadDataKeepsError ==
  /\ Len(loads) < MaxLoads
  /\ loads' = Append(loads, NewLoad)
  /\ UNCHANGED <<server, troubles, page, start, history>>

-----------------------------------------------------------------------------
(* The server: the latest job                                              *)

Aged(stages) ==
  loads' = [l \in DOMAIN loads |-> [loads[l] EXCEPT !.old = @ \/ loads[l].pc \in stages]]

\* Nothing is old any more.
Forget(fate) ==
  /\ mine' = fate
  /\ crossed' = FALSE /\ lateVideo' = FALSE /\ lateJob' = FALSE
  /\ loads' = [l \in DOMAIN loads |-> [loads[l] EXCEPT !.old = FALSE]]

\* The page's own job ends, well or not, perhaps before the request that has made it;
\* or that of somebody else.
JobEnds(status) ==
  /\ latestJob' = status
  /\ IF mine = "busy" THEN Forget(IF start = "idle" THEN "none" ELSE "ended")
     ELSE UNCHANGED <<claims, loads>>

Outside == UNCHANGED <<page, start, missed>>

\* A job is tried again, another is started elsewhere, or a request is lost.
Trouble == troubles < MaxTroubles /\ troubles' = troubles + 1

\* A worker takes the job from the queue or finds it queued; again after a failure or a
\* crash, and after its end if it had looked at the job before (see TranscriptionPipeline).
ClaimJob ==
  /\ run = "none" /\ latestJob # None
  /\ IF latestJob = "queued" THEN UNCHANGED troubles ELSE Trouble
  /\ latestJob' = "processing"
  /\ run' = "claimed"
  /\ UNCHANGED <<row, older, loads, claims>> /\ Outside

ClaimVideo ==
  /\ run = "claimed"
  /\ row' = "processing"
  /\ run' = "working"
  /\ UNCHANGED <<latestJob, older, troubles, loads, claims>> /\ Outside

\* persistResults: both rows and the transcript in one transaction.  If the answer to the
\* COMMIT is lost, the worker takes the job for failed.
Persisted ==
  /\ run = "working"
  /\ row' = "completed"
  /\ JobEnds("completed")
  /\ run' \in {"none", "failing"}
  /\ UNCHANGED <<older, troubles>> /\ Outside

\* Processing has failed, or the message was received too often.
FailJob ==
  /\ run \in {"working", "failing"} \/ (run = "none" /\ latestJob # None)
  /\ IF run = "none" THEN Trouble ELSE UNCHANGED troubles
  /\ JobEnds("failed")
  /\ run' = "failed"
  /\ UNCHANGED <<row, older>> /\ Outside

FailVideo ==
  /\ run = "failed"
  /\ row' = "failed"
  /\ run' = "none"
  /\ UNCHANGED <<latestJob, older, troubles, loads, claims>> /\ Outside

WorkerCrashes ==
  /\ run # "none"
  /\ run' = "none"
  /\ UNCHANGED <<row, latestJob, older, troubles, loads, claims>> /\ Outside

WorkerStep ==
  ClaimJob \/ ClaimVideo \/ Persisted \/ FailJob \/ FailVideo \/ WorkerCrashes

-----------------------------------------------------------------------------
(* The server: everybody else                                              *)

\* An earlier job, whose message was not deleted when it failed, is taken up again; its
\* worker writes to the row, and may store a transcript, whatever the latest job does.
OlderJobWrites ==
  /\ older = "job" /\ Exists
  /\ Trouble
  /\ row' \in {"processing", "completed", "failed"}
  /\ crossed' = (mine = "busy")
  /\ UNCHANGED <<latestJob, run, older, loads, mine, lateVideo, lateJob>> /\ Outside

\* INSERT of a job.  A worker that has the one before goes on as an earlier job's.
NewJob ==
  /\ latestJob' = "queued"
  /\ run' = "none"

\* Another page completes the upload, or starts a transcription on a state it has seen
\* before: its job is the latest now, and its UPDATE of the row comes at any time later.
UploadCompleted ==
  /\ row = "uploading"
  /\ row' = "uploaded"
  /\ UNCHANGED <<latestJob, run, older, troubles, loads, claims>> /\ Outside

StartedElsewhere ==
  /\ Exists /\ row # "uploading"
  /\ Trouble
  /\ NewJob
  /\ older' = IF latestJob = None THEN "start" ELSE "job"
  /\ Forget("none")
  /\ UNCHANGED row /\ Outside

MarkedElsewhere ==
  /\ older = "start" /\ Exists
  /\ row' = "processing"
  /\ older' = "nobody"
  /\ UNCHANGED <<latestJob, run, troubles, loads, claims>> /\ Outside

\* The rows of the jobs go with that of the video.
Deleted ==
  /\ Exists
  /\ row' = "deleted" /\ latestJob' = None /\ run' = "none" /\ older' = "nobody"
  /\ Forget("none")
  /\ UNCHANGED troubles /\ Outside

OtherStep ==
  OlderJobWrites \/ UploadCompleted \/ StartedElsewhere \/ MarkedElsewhere \/ Deleted

-----------------------------------------------------------------------------
(* loadData                                                                *)

loadData ==
  /\ Len(loads) < MaxLoads
  /\ loads' = Append(loads, NewLoad)
  /\ error' = FALSE
  /\ UNCHANGED <<server, troubles, video, job, transcript, loading, start, history>>

\* What the interval looks at every time: the states as they were rendered last.
isProcessing ==
  \/ video \in {"processing", "uploading"}
  \/ job \in {"processing", "queued"}

Poll == isProcessing /\ loadData
RefreshClicked == Shown /\ loadData

See(l, pc, seen) == loads' = [loads EXCEPT ![l].pc = pc, ![l].seen = seen]
Completed(seen) == seen = "completed"

VideoServed(l) ==
  /\ loads[l].pc = "video"
  /\ See(l, "videoServed", IF Exists THEN row ELSE "missing")
  /\ UNCHANGED <<server, troubles, page, start, history>>

VideoAnswered(l) ==
  /\ loads[l].pc = "videoServed" /\ loads[l].seen # "missing"
  /\ video' = loads[l].seen
  /\ lateVideo' = (Started /\ loads[l].old)
  /\ loads' = [loads EXCEPT ![l] =
       [NewLoad EXCEPT !.pc = "job", !.completed = Completed(loads[l].seen)]]
  /\ UNCHANGED <<server, troubles, job, transcript, loading, error, start, mine, crossed, lateJob, missed>>

\* A load that ends, well or not, ends the first spinner.
EndLoad(l) ==
  /\ loads' = [k \in 1 .. Len(loads) - 1 |-> IF k < l THEN loads[k] ELSE loads[k + 1]]
  /\ loading' = FALSE

\* Without the video there is nothing to show, however much was shown before.
VideoFails(l) ==
  /\ \/ loads[l].pc = "videoServed" /\ loads[l].seen = "missing" /\ UNCHANGED troubles
     \/ loads[l].pc \in {"video", "videoServed"} /\ Trouble
  /\ error' = TRUE
  /\ EndLoad(l)
  /\ UNCHANGED <<server, video, job, transcript, start, history>>

JobServed(l) ==
  /\ loads[l].pc = "job"
  /\ See(l, "jobServed", IF latestJob # None THEN latestJob ELSE "missing")
  /\ UNCHANGED <<server, troubles, page, start, history>>

\* The transcript is asked for if the video was completed, whatever became of the job.
AfterJob(l) ==
  IF loads[l].completed
  THEN loads' = [loads EXCEPT ![l] = [NewLoad EXCEPT !.pc = "text"]] /\ UNCHANGED loading
  ELSE EndLoad(l)

JobAnswered(l) ==
  /\ loads[l].pc = "jobServed" /\ loads[l].seen # "missing"
  /\ job' = loads[l].seen
  /\ lateJob' = (Started /\ loads[l].old)
  /\ AfterJob(l)
  /\ UNCHANGED <<server, troubles, video, transcript, error, start, mine, crossed, lateVideo, missed>>

\* "Job might not exist yet."
JobFails(l) ==
  /\ \/ loads[l].pc = "jobServed" /\ loads[l].seen = "missing" /\ UNCHANGED troubles
     \/ loads[l].pc \in {"job", "jobServed"} /\ Trouble
  /\ AfterJob(l)
  /\ UNCHANGED <<server, video, job, transcript, error, start, history>>

\* A video that was seen completed has a transcript, which later jobs replace and never remove.
TextAnswered(l) ==
  /\ loads[l].pc = "text"
  /\ Exists
  /\ transcript' = TRUE
  /\ missed' = FALSE
  /\ EndLoad(l)
  /\ UNCHANGED <<server, troubles, video, job, error, start, claims>>

\* "Transcript not yet ready."
TextFails(l) ==
  /\ loads[l].pc = "text"
  /\ \/ ~Exists /\ UNCHANGED troubles
     \/ Trouble
  /\ missed' = ~transcript
  /\ EndLoad(l)
  /\ UNCHANGED <<server, video, job, transcript, error, start, claims>>

-----------------------------------------------------------------------------
(* Starting the transcription                                              *)

\* The button is disabled while it shows that it is loading.
handleStartTranscription ==
  /\ TranscribeOffered
  /\ start = "idle"
  /\ start' = "sent"
  /\ UNCHANGED <<server, troubles, page, loads, history>>

\* Refused for a video that is deleted, uploading or processing already.
StartChecked ==
  /\ start = "sent"
  /\ start' = IF row \in {"uploaded", "failed", "completed"} THEN "checked" ELSE "refused"
  /\ UNCHANGED <<server, troubles, page, loads, history>>

\* The job is there for every worker to find; what was said of jobs before is old.
StartInserted ==
  /\ start = "checked" /\ Exists
  /\ NewJob
  /\ older' = IF latestJob = None THEN "nobody" ELSE "job"
  /\ mine' = "busy"
  /\ Aged({"jobServed"})
  /\ start' = "inserted"
  /\ UNCHANGED <<row, troubles, page, crossed, lateVideo, lateJob, missed>>

\* The UPDATE of the row, even if the job has ended by now; so is what was said of videos.
StartMarked ==
  /\ start = "inserted" /\ Exists
  /\ row' = "processing"
  /\ crossed' = FALSE
  /\ Aged({"videoServed"})
  /\ start' = "marked"
  /\ UNCHANGED <<latestJob, run, older, troubles, page, mine, lateVideo, lateJob, missed>>

\* The job cannot be published: its row is undone first, then that of the video.
StartUndone ==
  /\ \/ /\ start = "marked"
        /\ Trouble
        /\ IF mine = "none" THEN UNCHANGED <<latestJob, claims, loads>> ELSE JobEnds("failed")
        /\ start' = "undoing"
        /\ UNCHANGED row
     \/ /\ start = "undoing"
        /\ row' = IF Exists THEN "failed" ELSE row
        /\ start' = "refused"
        /\ UNCHANGED <<latestJob, troubles, claims, loads>>
  /\ UNCHANGED <<run, older, page, missed>>

\* Published and answered.
StartAnswered ==
  /\ start = "marked"
  /\ job' = "queued" /\ video' = "processing"
  /\ lateVideo' = FALSE /\ lateJob' = FALSE
  /\ start' = "idle"
  /\ mine' = IF mine = "ended" THEN "none" ELSE mine
  /\ UNCHANGED <<server, troubles, transcript, loading, error, loads, crossed, missed>>

\* The error takes the whole page, although the video is there.  A request that is cut
\* off goes no further; the video may be deleted between any two of its statements.
StartFails ==
  /\ \/ start = "refused" /\ UNCHANGED troubles
     \/ start \in {"checked", "inserted"} /\ ~Exists /\ UNCHANGED troubles
     \/ start # "idle" /\ Trouble
  /\ error' = TRUE
  /\ start' = "idle"
  /\ Forget("none")
  /\ UNCHANGED <<server, video, job, transcript, loading, missed>>

-----------------------------------------------------------------------------

LoadServed(l) == VideoServed(l) \/ JobServed(l)
LoadAnswered(l) == VideoAnswered(l) \/ JobAnswered(l) \/ TextAnswered(l)
LoadFails(l) == VideoFails(l) \/ JobFails(l) \/ TextFails(l)
LoadStep(l) == LoadServed(l) \/ LoadAnswered(l) \/ LoadFails(l)
StartServed == StartChecked \/ StartInserted \/ StartMarked \/ StartUndone
StartStep == StartServed \/ StartAnswered \/ StartFails

Next ==
  \/ WorkerStep \/ OtherStep
  \/ Poll \/ RefreshClicked
  \/ \E l \in DOMAIN loads : LoadStep(l)
  \/ handleStartTranscription \/ StartStep

Spec == Init /\ [][Next]_vars

\* The interval fires, and every request is answered or fails.
Fairness ==
  /\ WF_vars(Poll)
  /\ WF_vars(\E l \in DOMAIN loads : LoadStep(l))
  /\ WF_vars(StartStep)

FairSpec == Spec /\ Fairness

-----------------------------------------------------------------------------
(* Properties                                                              *)

\* Every variable stays in its set.
TypeOK ==
  /\ row \in VideoStatus \cup {"deleted"}
  /\ latestJob \in JobStatus \cup {None}
  /\ run \in {"none", "claimed", "working", "failing", "failed"}
  /\ older \in {"nobody", "start", "job"}
  /\ troubles \in 0 .. MaxTroubles
  /\ video \in VideoStatus \cup {None}
  /\ job \in JobStatus \cup {None}
  /\ loads \in Seq(LoadState)
  /\ start \in {"idle", "sent", "checked", "inserted", "marked", "undoing", "refused"}
  /\ mine \in {"none", "busy", "ended"}
  /\ transcript \in BOOLEAN /\ loading \in BOOLEAN /\ error \in BOOLEAN
  /\ crossed \in BOOLEAN /\ lateVideo \in BOOLEAN /\ lateJob \in BOOLEAN /\ missed \in BOOLEAN

\* The page goes on asking until the job it has started has ended.  It looks at two states,
\* and stops only if it is wrong about both: about the job after an answer from before the
\* start, about the video after such an answer or because an earlier job has written to
\* the row since.
PollsUntilTheEnd == Started /\ ~(lateJob /\ (lateVideo \/ crossed)) => isProcessing

\* While that job is under way the page does not offer to start another one, unless an
\* answer from before the start has overwritten the video or an earlier job its row.
NoSecondStart == Started /\ ~lateVideo /\ ~crossed => ~TranscribeOffered

\* If the video comes to rest as completed, whoever waits on the page gets the transcript,
\* without a click, unless the request for the transcript itself fails or the last answer
\* handled is of a time before: then the page offers to start what is done already.  (A
\* row that does not come to rest so, because a late UPDATE of a start or an earlier job
\* has made it "processing" or "failed" over a completed job, promises nothing.)
ResultArrives ==
  <>[](row = "completed") =>
    [](isProcessing => <>(transcript \/ missed \/ video \in {"uploaded", "failed"}))

\* A poll that fails takes the page away only until a later one begins.
ErrorPasses == (error /\ isProcessing) ~> (~error \/ ~isProcessing)
=============================================================================
