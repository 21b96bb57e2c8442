--------------------------- MODULE VideoCatalogue ---------------------------
(***************************************************************************)
(* The video catalogue and its files: a browser uploads straight to object *)
(* storage through a presigned URL, and the API learns of it only when it  *)
(* is told and looks; a deletion removes first the object, then the row,   *)
(* and with it what hangs on it. API requests are cut up into their calls  *)
(* to the database and to storage, any of which may fail.                  *)
(*                                                                         *)
(* MediaProcessing adds the jobs that work on these rows and files.        *)
(***************************************************************************)
EXTENDS Integers, FiniteSets

CONSTANTS
  Videos,     \* the videos' ids
  Requests,   \* API requests that are served at the same time
  MaxJobs     \* bound: how many jobs are ever created

ASSUME CatalogueAssumption == MaxJobs \in Nat /\ "none" \notin Videos

VARIABLES
  status,      \* videos.status of each video's row; "absent" before INSERT, "removed" after DELETE
  file,        \* the object at each video's storage key
  browser,     \* how far the browser is with each video's upload
  request,     \* the locals of each API request
  transcript,  \* the job named by each video's row in transcripts, 0 if there is no row
  segments,    \* the job whose text transcript_segments holds, 0 if it holds nobody's
  discarded    \* history: the videos that a user has asked to delete

catalogueVars == <<status, file, browser, request, transcript, segments, discarded>>

Jobs == 1 .. MaxJobs
JobOrNone == 0 .. MaxJobs

VideoStatus == {"uploading", "uploaded", "processing", "completed", "failed"}
Exists(v) == status[v] \in VideoStatus

Idle == [pc |-> "idle", video |-> "none"]
RequestStates ==
  [pc : {"head", "write", "deleteObject", "deleteRow", "readSegments", "createJob"},
   video : Videos] \cup {Idle}

CatalogueInit ==
  /\ status = [v \in Videos |-> "absent"]
  /\ file = [v \in Videos |-> "none"]
  /\ browser = [v \in Videos |-> "start"]
  /\ request = [r \in Requests |-> Idle]
  /\ transcript = [v \in Videos |-> 0]
  /\ segments = [v \in Videos |-> 0]
  /\ discarded = {}

\* An UPDATE of the row's status: without a row it changes nothing.
SetStatus(v, s) == status' = IF Exists(v) THEN [status EXCEPT ![v] = s] ELSE status

Serve(r, v, pc) == request[r] = Idle /\ request' = [request EXCEPT ![r] = [pc |-> pc, video |-> v]]
At(r, pc) == request[r].pc = pc
Goto(r, pc) == request' = [request EXCEPT ![r].pc = pc]
Finish(r) == request' = [request EXCEPT ![r] = Idle]

-----------------------------------------------------------------------------
(* Variants with a seeded bug. No action uses them.                        *)

\* The size of the object is not looked at.
HeadObjectAnySize(r) ==
  LET v == request[r].video
  IN  /\ At(r, "head")
      /\ \/ file[v] # "none" /\ Goto(r, "write")
         \/ file[v] = "none" /\ Finish(r)
      /\ UNCHANGED <<status, file, browser, transcript, segments, discarded>>

-----------------------------------------------------------------------------
(* Uploading                                                               *)

\* Inserts the row, then signs the URL; if signing fails the browser gets an error.
RequestUploadURL(v) ==
  /\ browser[v] = "start"
  /\ status' = [status EXCEPT ![v] = "uploading"]
  /\ browser' \in {[browser EXCEPT ![v] = pc] : pc \in {"put", "done"}}
  /\ UNCHANGED <<file, request, transcript, segments, discarded>>

\* The browser PUTs the chosen file to the URL, which knows nothing of the row; or fails.
PutObject(v) ==
  /\ browser[v] = "put"
  /\ browser' = [browser EXCEPT ![v] = "done"]
  /\ file' \in {[file EXCEPT ![v] = content] : content \in {"empty", "media"}} \cup {file}
  /\ UNCHANGED <<status, request, transcript, segments, discarded>>

\* CompleteUpload: reads the row and goes on only while it is "uploading".
CompleteUpload(r, v) ==
  /\ status[v] = "uploading"
  /\ Serve(r, v, "head")
  /\ UNCHANGED <<status, file, browser, transcript, segments, discarded>>

\* Then it looks for the object, which must exist and not be empty.
HeadObject(r) ==
  LET v == request[r].video
  IN  /\ At(r, "head")
      /\ \/ file[v] = "media" /\ Goto(r, "write")
         \/ file[v] # "media" /\ Finish(r)
      /\ UNCHANGED <<status, file, browser, transcript, segments, discarded>>

\* And writes the status without another look at the row.
MarkUploaded(r) ==
  /\ At(r, "write")
  /\ SetStatus(request[r].video, "uploaded")
  /\ Finish(r)
  /\ UNCHANGED <<file, browser, transcript, segments, discarded>>

-----------------------------------------------------------------------------
(* Deleting                                                                *)

DeleteVideo(r, v) ==
  /\ Exists(v)
  /\ Serve(r, v, "deleteObject")
  /\ discarded' = discarded \cup {v}
  /\ UNCHANGED <<status, file, browser, transcript, segments>>

\* An error of DeleteObject is ignored.
DeleteObject(r) ==
  LET v == request[r].video
  IN  /\ At(r, "deleteObject")
      /\ file' \in {[file EXCEPT ![v] = "none"], file}
      /\ Goto(r, "deleteRow")
      /\ UNCHANGED <<status, browser, transcript, segments, discarded>>

\* The row goes, and by ON DELETE CASCADE the jobs, the transcript and its segments.
DeleteRow(r) ==
  LET v == request[r].video
  IN  /\ At(r, "deleteRow")
      /\ SetStatus(v, "removed")
      /\ transcript' = [transcript EXCEPT ![v] = 0]
      /\ segments' = [segments EXCEPT ![v] = 0]
      /\ Finish(r)
      /\ UNCHANGED <<file, browser, discarded>>

-----------------------------------------------------------------------------
(* Reading                                                                 *)

\* GetByVideoID's first query: the header; without one the answer is "not found".
GetTranscript(r, v) ==
  /\ Exists(v)
  /\ transcript[v] # 0
  /\ Serve(r, v, "readSegments")
  /\ UNCHANGED <<status, file, browser, transcript, segments, discarded>>

\* Its second query, and the answer.
GetSegments(r) ==
  /\ At(r, "readSegments")
  /\ Finish(r)
  /\ UNCHANGED <<status, file, browser, transcript, segments, discarded>>

\* A call of the request fails and it answers with an error, or the API process dies.
RequestFails(r) ==
  /\ request[r] # Idle
  /\ Finish(r)
  /\ UNCHANGED <<status, file, browser, transcript, segments, discarded>>

BrowserStep(v) == RequestUploadURL(v) \/ PutObject(v)
RequestStep(r) ==
  \/ \E v \in Videos : CompleteUpload(r, v) \/ DeleteVideo(r, v) \/ GetTranscript(r, v)
  \/ HeadObject(r) \/ MarkUploaded(r)
  \/ DeleteObject(r) \/ DeleteRow(r)
  \/ GetSegments(r) \/ RequestFails(r)

CatalogueNext == (\E v \in Videos : BrowserStep(v)) \/ (\E r \in Requests : RequestStep(r))

-----------------------------------------------------------------------------
(* Properties                                                              *)

CatalogueTypeOK ==
  /\ status \in [Videos -> VideoStatus \cup {"absent", "removed"}]
  /\ file \in [Videos -> {"none", "empty", "media"}]
  /\ browser \in [Videos -> {"start", "put", "done"}]
  /\ request \in [Requests -> RequestStates]
  /\ transcript \in [Videos -> JobOrNone]
  /\ segments \in [Videos -> JobOrNone]
  /\ discarded \in SUBSET Videos

\* A video for which GetVideo signs a playback URL, and which the processor will download,
\* has its file, unless its user asked to delete it: the answer to a deletion that failed
\* half-way may be a row without a file, an upload that failed half-way never is.
Playable(v) == status[v] \in {"uploaded", "processing", "completed"}
PlayableHasFile == \A v \in Videos : Playable(v) => file[v] = "media" \/ v \in discarded

\* A reader who has the header of a transcript also finds a text's segments, in spite of the
\* two queries: only the deletion of the video can take them away in between.
ReaderFindsSegments ==
  \A r \in Requests : At(r, "readSegments") =>
    segments[request[r].video] # 0 \/ request[r].video \in discarded
=============================================================================
