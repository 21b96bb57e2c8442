# A TLA+ model of the video transcription service

This directory models, checks and proves properties of the service in this
repository: a Go HTTP API, a PostgreSQL database, an SQS queue and a worker that
turns uploaded videos into transcripts, and a React frontend in the browser. Four groups
of modules look at it from four sides: the asynchronous core of requests, queue and workers;
the files, from the upload to the audio track and the provider's output; the words, from
that output to subtitles; and the browser, with its session, its two pages and its player.

1. [Inventory](#1-inventory-of-the-system)
2. [Modules](#2-modules)
3. [How the model corresponds to the code](#3-how-the-model-corresponds-to-the-code) 4.
[Runs](#4-runs) 5. [Fairness](#5-fairness) 6. [Proofs](#6-proofs) 7. [Where the code and its
documentation disagree](#7-where-the-code-and-its-documentation-disagree) 8. [What is not
modelled](#8-what-is-not-modelled) 9. [Plan](#9-plan)

## 1. Inventory of the system

| Component | State | Operations | Interacts with |
|---|---|---|---|
| Transcription requests (`internal/jobs`) | `transcription_jobs` rows | `TriggerTranscription`, `GetJobStatus` | video rows (reads status, writes `processing`/`failed`), queue (publishes) |
| Worker loop (`internal/worker/worker.go`, `cmd/worker`) | the message it holds, its receipt handle | `Start`, `processMessage`, heartbeat goroutine | queue (receive, extend, delete), job and video rows, processor |
| Media processor (`internal/worker/processor.go`, `pkg/ffmpeg`) | scratch directory | `ProcessJob` and its five steps, `persistResults` | storage, ffmpeg, speech provider, one database transaction |
| Speech providers (`pkg/transcribe`) | AWS: jobs by name; Whisper: none | `Transcribe`, segment building | storage (AWS reads the uploaded audio) |
| Message queue (`internal/queue/sqs.go`, CloudFormation) | messages with visibility and receive count, DLQ | `Publish`, `Receive`, `Delete`, `ChangeVisibility`, redrive | API publishes, worker consumes |
| In-memory queue (`internal/queue/mock.go`) | a slice per process | the same interface | local development only |
| Video catalogue (`internal/videos`) | `videos` rows | `RequestUploadURL`, `CompleteUpload`, `GetVideo`, `ListVideos`, `DeleteVideo` | storage (presign, head, delete), jobs and transcripts by cascade |
| Object storage (`internal/storage`) | objects by key | presigned PUT/GET, head, get, upload, delete | browser, API, worker |
| Transcript reading (`internal/transcription`) | none | `GetTranscript`, `Export` (txt, srt, vtt, json) | `transcripts` and `transcript_segments` rows |
| Accounts (`internal/auth`, `internal/users`, `pkg/jwt`, `internal/middleware/auth.go`) | `users` rows; tokens at the client | `Register`, `Login`, `RefreshToken`, `GetMe`, bearer check | every other handler through the user id |
| Database layer (`internal/database`, `migrations`) | schema, pool | `WithTx`, migrations | all repositories |
| Session in the browser (`services/api.ts`, `context/AuthContext.tsx`, `App.tsx`, `LoginPage.tsx`, `Navbar.tsx`) | tokens in localStorage, shared by all tabs; user, loading and route of each tab; requests on their way | `initAuth`, `login`, `register`, `logout`, the two interceptors, `ProtectedRoute` | API; every page sends its requests through it |
| Dashboard (`DashboardPage.tsx`, `UploadModal.tsx`) | cards, two dialogues, requests on their way | `fetchVideos`, polling, `handleDelete`, `handleUpload`, `onSuccess` | API, storage |
| Video page (`VideoDetailPage.tsx`) | video, job, transcript, error; loads on their way | `loadData`, polling, `handleStartTranscription` | API; gives transcript and time to player and list |
| Player and list (`VideoPlayer.tsx`, `TranscriptViewer.tsx`) | position of the video element, current cue, refs, search, auto-scroll | seeking, skipping, `handleTimeUpdate`, the scrolling effect | each other, through the page's `currentTime` |
| Rest of the frontend (architecture pages, theme, export dropdown) | little | rendering | |
| Server wiring, health, configuration, logging | none | | |

Who shares what: API handlers and workers never call each other. They meet in the
rows of `videos`, `transcription_jobs` and `transcripts`, each statement of which is
atomic by itself, and in the queue. Only `persistResults` groups statements in a
transaction. Everything else, including the three writes of
`TriggerTranscription` and the three writes with which a worker claims a job, can
be interleaved, cut short by a crash, or fail with an error that is dropped
(`_ = w.jobRepo.UpdateStatus(...)`).

What is hard about it:

- **interleaving**: the fallback poll of the database hands out rows it does not
  lock, so one job can be processed twice at once; deletion of a video runs into
  requests and workers that are in the middle of something;
- **delivery**: at least once, with visibility timeouts, heartbeats that may come too
  late, and a receive count that two parties (worker and redrive policy) compare
  with a limit of three;
- **crashes**: a worker or API process dies between any two statements;
- **stale state**: statuses are checked with one statement and written with another
  that does not check them again;
- **termination**: jobs, messages and the "processing" status must come to an end;
- **answers out of order**: no request of the browser waits for another, none is
  cancelled, and every answer is written over what is shown when it arrives, however old;
- **sharing**: all tabs read and write one pair of tokens without a lock, and every
  request that meets a 401 refreshes it by itself;
- **rendering**: refs, effects and the video element change at different moments of one
  update.

What correctness means, component by component: a job row has a video, a transcript has a
job of its own video (requests, deletion, processor); "completed" means a transcript can
be read (processor, worker, requests); a message is deleted only when nothing is left to
retry (worker, queue); one AWS transcription per job (providers, worker); a transcript is
only ever replaced, never lost, before its video is deleted (all of them together: the
ledger); a video is offered with its file, keeps whole texts of its own, and goes only
when it was discarded (catalogue and processing together: the library); every job ends and
no message circulates for ever (worker, queue); no word of an answer is lost on the way to
the subtitles, and they are in order and on time (providers, export); a playable row has
its object (catalogue, storage), a reader who finds a transcript finds its segments
(reading), only whole audio is transcribed (processor, ffmpeg) and the text stored is that
of the job (processor, providers); a session ends for a cause only and nobody is shown as
somebody else (session); what is shown may be late, but comes right, and nothing is said
to have failed that has not, or is offered that is under way (dashboard, video page); the
list is where the speech is (player and list).

## 2. Modules

| Module | What it is |
|---|---|
| `TranscriptionPipeline` | the core: requests, rows, queue, workers, faults; invariants, action and liveness properties |
| `TranscriptLedger` | the abstract specification: what the service promises about transcripts, without queue, workers or statuses |
| `PipelineLedger` | the refinement mapping from the pipeline to the ledger |
| `MCPipeline` | what TLC needs: the symmetry of processes |
| `PipelineEffects` | type correctness, action by action, and what a step can do to each part of the state |
| `PipelineProofs` | the inductive invariant, the safety theorems and the refinement theorem |
| `SubtitleSegments` | from a provider's answer to subtitle cues: `buildSegments`, `ParseAWSOutput`, Whisper's segments, `FormatSRT`, `FormatVTT`, `formatTimestamp` |
| `SubtitleProofs` | the properties of `SubtitleSegments` for answers of any length and any times |
| `VideoCatalogue` | rows and objects: upload, completion, deletion and reading, API requests cut up into their calls |
| `MediaProcessing` | extends it by jobs and the processor's files: scratch directories, audio, cloud jobs and their output |
| `VideoLibrary` | the abstract specification: what the owner of a video is promised about its file and its text, without requests, statuses, workers or providers |
| `MediaLibrary` | the refinement mapping from rows and objects to the library, and the invariant it needs |
| `MediaProofs` | the inductive invariants of `MediaProcessing` and `MediaLibrary`, the safety theorems and the refinement theorem |
| `BrowserSession`, `MCSession` | tokens, tabs, calls and their refresh; the symmetry for TLC |
| `SessionProofs` | the safety of `BrowserSession` for any number of tabs, calls and accounts |
| `DashboardPage` | one visit to the dashboard with its upload dialogue |
| `DashboardProofs` | the safety of `DashboardPage` for any number of videos and lists |
| `VideoDetailPage` | one visit to a video's page |
| `VideoDetailProofs` | the safety of `VideoDetailPage` for any number of overlapping loads |
| `TranscriptPlayback`, `MCPlayback` | player and list; a transcript of four cues for TLC |
| `PlaybackProofs` | the properties of `TranscriptPlayback` for every transcript |

The groups do not import each other. The pipeline stores a transcript as one value in
one transaction, and `SubtitleSegments` looks into that value. `MediaProcessing` leaves open
what the pipeline decides, which worker gets which job when and how often, and any such
choice is one of its behaviours; in return it has the files and steps that are one outcome
in the pipeline. What it shows therefore does not depend on the queue. Each page meets a
server that does to the rows, one step at a time, what the pipeline may do to them, at any
moment; the session is below the pages, which take it that requests succeed or fail.

## 3. How the model corresponds to the code

One database statement or one queue call is one action. Each API request and each
worker has a program counter that says which statement comes next; the names of
its values are those of the actions.

| State | Code |
|---|---|
| `video[v]` | `videos.status`; `"absent"` before the INSERT, `"removed"` after the DELETE |
| `jobStatus[j]`, `jobVideo[j]`, `attempts[j]` | the columns of `transcription_jobs`; `jobVideo` is also the message's `VideoID` and is therefore kept when the row is deleted |
| `lastJob` | jobs are numbered in the order of their INSERTs, which is what `ORDER BY created_at` sees |
| `transcript[v]` | `job_id` of the video's row in `transcripts`; the segments are replaced in the same transaction |
| `msg[j]`, `receives[j]` | the SQS message of job `j`: where it is, and its `ApproximateReceiveCount`, which also identifies its newest receipt handle |
| `cloudJobs` | AWS Transcribe jobs that exist, each named `transcription-<job id>` |
| `request[r]` | the locals of one call of `CompleteUpload` or `TriggerTranscription` |
| `worker[w]` | the locals of `processMessage`: job, receipt handle, receive count; receipt 0 is the synthetic handle `db-job-<id>` of the database poll |
| `faults` | how many faults have happened, for the bound |

| Actions | Code |
|---|---|
| `RequestUploadURL`, `CompleteUploadCheck`, `CompleteUploadWrite`, `DeleteVideo` | `internal/videos/service.go`; the read and the write of `CompleteUpload` are apart because `HeadObject` lies between them |
| `TriggerRead` to `TriggerUndoVideo`, `RequestFails` | `internal/jobs/service.go:39-97`, one action per statement |
| `Receive`, `Acknowledge`, `VisibilityTimeout`, `LoseLease`, `Redrive` | `internal/queue/sqs.go` and the queue's configuration in `deploy/aws/cloudformation-ec2.yaml` |
| `PollDatabase`, `CheckJob` to `ClaimVideo`, `FailJob`, `FailVideo` | `internal/worker/worker.go` |
| `StartTranscription`, `ProcessorFails`, `PersistRejected`, `PersistResults` (which is `Commit` and its answer) | `internal/worker/processor.go`, `pkg/transcribe/provider.go` |
| `WorkerCallFails`, `PersistAnswerLost`, `WorkerCrash` | the dropped errors of `processMessage`; a COMMIT that takes effect and whose answer is lost (`WithTx`), after which the worker writes "failed" over the completed job; process death, and shutdown, whose cancelled context makes every later statement fail |

Decisions that a reader may want to question:

- **The lease.** The heartbeat goroutine extends the message's visibility while the
  processor runs. The model says: while a worker holds the newest receipt of a
  message, the message does not become visible, except by the fault `LoseLease`. A
  worker whose receipt was superseded extends nothing.
- **Deleting with an old receipt.** SQS may or may not delete the message then;
  `Acknowledge` allows both. The synthetic handle deletes nothing.
- **The receive that returns nothing.** `PollDatabase` is possible even when a message
  is visible by now: the long poll may have ended before it was sent.
- **Statements on missing rows.** An UPDATE that matches no row is an error that
  `TriggerTranscription` returns (after which the request ends) and that
  `processMessage` drops.
- **Media steps.** Download, ffmpeg, upload and provider errors are one outcome,
  `ProcessorFails`; with `MediaFails = FALSE` they do not occur by themselves.
- **Data.** User ids, file names, languages, sizes, error texts and heartbeats'
  timestamps are left out: no property here tells them apart. Ownership checks are
  left out because every operation of one user's video carries that user's id.

`SubtitleSegments`:

| State | Code |
|---|---|
| `provider`, `items`, `clock` | which provider answers, and its items up to the one the loop is at; `clock` is the end of the last word |
| `current` | `currentWords`, `segStart`, `segEnd`, `wordCount` of `buildSegments` |
| `segments`, `seqNum` | the same names in the code; afterwards the rows of `transcript_segments` |
| `fullText`, `done` | whether the answer has a text; whether the provider has returned |

| Actions, operators | Code |
|---|---|
| `ReadWord`, `ReadMark`, `ReadBlank` | one round of the loop in `pkg/transcribe/parser.go:100-136` |
| `FlushSegment`, `EndOfItems` | the closure `flushSegment`, its last call, and the fallback of `ParseAWSOutput` |
| `ReadPhrase`, `EndOfPhrases` | the loop and the result of `WhisperProvider.Transcribe` |
| `Stamp`, `Cue` | `formatTimestamp`; one round of the loops of `FormatSRT` and `FormatVTT`, which write the same numbers and times |

The words of a segment are known by their positions in the answer, so that "lost",
"twice" and "out of order" can be said; what they spell does not matter. Times are
counted in ticks, `TicksPerMilli` of them to a millisecond, a constant: AWS gives
hundredths of a second, but Whisper gives any fraction, and the times of one answer are whole
ticks of some size. A stamp is the nearest millisecond, except in the last half millisecond
of a second, where `formatTimestamp` writes 999 instead of carrying, and is early by anything
below a whole millisecond (`IsCut`). The arithmetic of floats is taken to be exact. Of the
providers two things are assumed: nobody speaks backwards, that is, an item starts no earlier
than the last one ended; and the times of AWS are numbers (the parser drops the error of
`ParseFloat` and would take 0).

`VideoCatalogue` and `MediaProcessing`:

| State | Code |
|---|---|
| `status`, `transcript`, `segments` | `videos.status`; the job named by the row in `transcripts`; the job whose text is in `transcript_segments`, both 0 without rows |
| `file`, `audio`, `rawOutput` | the objects at the video's `storage_key`, at `audio/<user>/<video>/audio.wav` and at `transcripts/<user>/<video>/raw_output.json`, by what is in them |
| `browser`, `request` | the progress of `handleUpload` in `UploadModal.tsx`; the locals of an API request |
| `discarded` | history: the videos for which `DeleteVideo` has begun |
| `jobVideo`, `lastJob` | what the message says of a job |
| `worker`, `scratch` | the locals of `ProcessJob`, and `/tmp/transcription-jobs/<job>` on each worker's disk |
| `cloudJob` | AWS Transcribe's job `transcription-<job>` |

| Actions | Code |
|---|---|
| `RequestUploadURL`, `CompleteUpload`, `HeadObject`, `MarkUploaded`, `DeleteVideo`, `DeleteObject`, `DeleteRow` | `internal/videos/service.go`, one action per call to database or storage |
| `PutObject` | the browser's PUT to the presigned URL (or `internal/storage/handler.go`) |
| `GetTranscript`, `GetSegments` | the two queries of `internal/transcription/repository.go` |
| `TriggerTranscription`, `CreateJob` | the check, and the writes as one outcome, whose interleavings are the core's matter |
| `TakeUpJob`, `GiveUpJob`, `FailVideo` | `processMessage`, as far as rows and the processor's start are concerned |
| `DownloadVideo` to `UploadAudio`, `PersistResults`, `StepFails` | `internal/worker/processor.go`, `pkg/ffmpeg`; a file is half written between two actions |
| `CallWhisper`, `StartCloudJob` to `FetchOutput` | `pkg/transcribe` |
| `CloudJobEnds` | AWS Transcribe itself: it writes the output object and then says so |

- **One PUT per video.** `UploadModal` asks for a new video for every attempt, so that a
  presigned URL is used once; S3 shows an object only when it is whole.
- **Disks.** Each worker has its own: the compose files and the stack give each worker a
  container. Workers that shared a host's `/tmp` could delete each other's files.
- **Languages.** Jobs of one video may differ in language, which is why it matters whose
  text is stored.
- **A text without words** has no rows in `transcript_segments`; `segments` says that the
  rows are those of a job, however many there are.
- **Faults.** A crash, and an AWS call whose answer is lost (`StartAnswerLost`,
  `PollFails`), which is also how a shutdown in the middle of polling ends, are counted.
  Errors of all other steps are not, and may happen any number of times.

`VideoLibrary` has five variables, which `MediaLibrary` reads off the service's state:

| Library | Service |
|---|---|
| `shelf` | `status`: no row yet is "unknown", "uploading" is "expected", any later status is "offered" |
| `media` | the videos with an object at their `storage_key` |
| `discards` | `discarded`: `DeleteVideo` has begun |
| `asked` | `jobVideo` |
| `text` | the rows of `transcripts` (who published it) and of `transcript_segments` (whose words) |

| Operation | Step of the service |
|---|---|
| `Expect`, `Arrive`, `Offer` | `RequestUploadURL`, `PutObject`, `MarkUploaded` of a video that was "uploading" |
| `Ask`, `Publish` | `CreateJob`, `PersistResults` that commits |
| `Discard`, `LoseFile`, `Remove` | `DeleteVideo`, `DeleteObject`, `DeleteRow` |

Everything else must stutter: the reads of requests, the changes among "uploaded",
"processing", "completed" and "failed", all files on disks, the audio and raw output
objects, and AWS.

`BrowserSession`:

| State | Code |
|---|---|
| `stored` | `access_token` and `refresh_token` in localStorage; both are always written or removed in one turn of the event loop, hence one value. A pair is known by its account and its time of issue |
| `tab[t]` | `user` of `AuthContext`; `isLoading` (phase "asking"); a location that is set and not loaded yet ("leaving"); a protected page or one for everybody |
| `call[c]` | one use of `apiClient`: at the server, or its consent on the way back, or its refresh; `originalRequest._retry` |
| `now` | the server's clock, against which tokens run out |
| `lost` | requests and answers lost so far, for the bound |
| `overlap` | history: the stored account was exchanged or removed while another tab or a call relied on it |

| Actions | Code |
|---|---|
| `Send`, `PageCall`, `Submit` | the request interceptor, and whoever calls `api` |
| `Serve`, `Unauthorized`, `Refresh` | `internal/middleware/auth.go`, `internal/auth/service.go`, `pkg/jwt` |
| `Intercept`, `Resend`, `RefreshRefused`, `RefreshLost`, `Refused`, `CallLost` | the response interceptor; what the server refuses and what is lost are actions of their own |
| `GetMeAnswered`, `SignedIn`, `Reject`, `Logout`, `LoadTab` | `AuthContext` |
| `Redirect`, `Navigate`, `Reload`, `Unload` | `ProtectedRoute`, the links, the second `UploadModal`'s reload, `window.location.href` |

- **When the server decides.** A consent can be out of date when it arrives, and is a step
  of its own. A refusal cannot: a token that has run out stays so, and nothing else makes
  the server refuse. It is one step with its handling.
- **Refusals and losses.** The interceptor treats a refresh that the server refuses and one
  that gets lost alike, and removes the tokens; a `getMe` that is lost removes them, too.
  `SessionEndsForCause` speaks of the steps in which nothing is lost. It takes the age of the
  token that a refresh was asked for with as the cause: such a refusal also removes a newer
  pair of the same account that another call has stored meanwhile.
- **Signing in.** `login` and `register` differ in nothing but their route, and whether
  the password is right is open. One attempt per tab, as the button is disabled meanwhile.
- **Routes.** The login page and the architecture page need no user, and are one view. The
  effects of React's development mode, which run twice, are not there in a build.

`DashboardPage`:

| State | Code |
|---|---|
| `row`, `retries`, `lost` | `videos.status`, as the pipeline and other pages change it; how often a completed or failed one was processed again, and how many requests were lost, for the bounds |
| `fetched`, `added` | `videos`: the cards of the last list and those that `onSuccess` put in front since, which may be two of one video |
| `asked`, `answers` | calls of `getVideos`, before and after the server made the list |
| `confirm`, `deletion`, `upload` | `deleteVideoId`; `deleting` and its request; the state and the four calls of `UploadModal` |
| `late` in `answers`, `stale`, `erased` | history: the videos of which a list on its way, or what is shown, has missed the upload, the deletion, or the leaving of a status at which polling ends; and what the page has been told is deleted |

| Actions | Code |
|---|---|
| `fetchVideos`, `Poll`, `RefreshClicked`, `ListServed`, `ListAnswered`, `ListFails` | `DashboardPage.tsx:46-77`, `ListVideos` |
| `AskDelete`, `CancelDelete`, `handleDelete`, `DeleteServed`, `DeleteAnswered`, `DeleteFails` | `DashboardPage.tsx:79-91` and the dialogue, `DeleteVideo` |
| `handleUpload` to `onSuccess` | `UploadModal.tsx:54-109`; a call that fails did its part at the server or not |
| `WorkerEnds`, `Retry`, `Elsewhere` | the pipeline and other pages; `Retry` is a start from the video's page, or the redelivery of the message of an older job, which takes "completed" back, too |

The PUT of the file passes by the rows and is part of the second call; `MediaProcessing`
has it. The text of the search field is left out: `OpenUpload` is possible whatever the
cards, as a search can hide them all. There are fewer videos than the twenty of a page.

`VideoDetailPage`:

| State | Code |
|---|---|
| `row`, `latestJob` | the two statuses that `GetVideo` and `GetJobStatus` read |
| `run`, `older` | where the worker is that has the latest job; whether an earlier job of the video, or the UPDATE of a start by another page, can still write to `row` |
| `troubles` | jobs tried again or started by other pages, and requests lost, for the bound |
| `video`, `job`, `transcript`, `loading`, `error` | the page's state, reduced to statuses |
| `loads` | calls of `loadData` on their way: which of the three requests they wait for, and what it was answered |
| `start` | the request of `handleStartTranscription`, from statement to statement |
| `mine`, `crossed`, `lateVideo`, `lateJob`, `missed` | history: this page's job is the latest and under way, or ended before its request did; another job has written to the row since; the shown statuses are older than the start; the transcript was asked for in vain |

| Actions | Code |
|---|---|
| `loadData`, `Poll`, `RefreshClicked`, `VideoServed` to `TextFails` | `VideoDetailPage.tsx:37-97` |
| `handleStartTranscription`, `StartAnswered`, `StartFails` | lines 99-113 |
| `StartChecked`, `StartInserted`, `StartMarked`, `StartUndone` | `TriggerTranscription`, one action per statement |
| `ClaimJob`, `ClaimVideo`, `Persisted`, `FailJob`, `FailVideo`, `WorkerCrashes` | `processMessage` with the latest job |
| `OlderJobWrites` | `processMessage` with an earlier one, whose message was left when it failed |
| `UploadCompleted`, `StartedElsewhere`, `MarkedElsewhere`, `Deleted` | other pages |

The server's side is the pipeline's, statement by statement, as far as one video goes: the
job is there before the row says "processing", a worker may have ended with it by then, the
row of the job and that of the video are claimed and failed one after the other, and an
earlier job may write to the row at any time. The writes of earlier jobs are not followed
through their own statements: any status may come from them, at any moment. The second
statement of a start elsewhere is followed only for the video's first job; later it is one
of the writes `OlderJobWrites` stands for.

`TranscriptPlayback`:

| State | Code |
|---|---|
| `position`, `paused` | the video element |
| `currentTime`, `segments` | the page's state |
| `currentSegment` | the cue laid over the picture, of `VideoPlayer` |
| `found`, `autoScroll` | which cues contain `searchQuery`; the button |
| `ref`, `prevActive` | `activeSegmentRef.current`, `prevActiveSeqRef.current` |
| `scrolled` | which row the container was scrolled to last |
| `clicked`, `disturbed` | history: the last click, until the time changes otherwise; rows have moved, or were highlighted together, since the last scrolling |

Times are whole numbers, since only their order matters. An action that changes what the
list is rendered from ends with `Rendered`: React's commit, which clears the refs of rows
that lost theirs and then sets the others in the order of rows (`Committed`), and then the
effect (`Remembered`, `Scrolls`). The video element does what HTML says: it keeps a time
within the video, pauses at the end, and may start over when told to play there. There is
a source; a page without one shows no player. The user's own scrolling counts only while
auto-scroll is off: with it on, it lasts until the next cue.

## 4. Runs

The first five runs use module `MCPipeline`. There, "fault" means an action that needs
`Fault(kind)`: `worker` (crash), `api` (a request dies or one of its statements fails), `db`
(a statement fails, or the answer to a COMMIT is lost), `queue` (a publish, a delete or a
lease is lost).

| Run (cfg) | Instance | Checks | Shows |
|---|---|---|---|
| `PipelineWorkers` | 1 video, 1 request slot, 2 workers, 2 jobs, limit 1, 2 receives, AWS, 1 fault of any kind | `NoOrphanRows`, `CompletedHasTranscript`, `AcknowledgedIsSettled`, `OneTranscriptionPerJob`, `LedgerSpec` | rows and transcripts stay consistent, and duplicate deliveries do no harm, however two workers, two jobs of one video, the queue, the poll and a deletion interleave |
| `PipelineLive` | 1 worker, 2 jobs, the deployed limits of 3 attempts and 3 receives, 1 fault of any kind | `TypeOK`, `CompletedIsNotReclaimed`, `NoStrandedJob`, `JobsSettle`, `ProcessingResolves`, `QueueDrains` | the deployed arrangement tolerates one fault anywhere, and everything comes to an end, but for the cases that the properties name: a fault on the last delivery, and a request that dies before it publishes |
| `PipelineLocal` | 1 worker, no shared queue, 2 jobs, 1 api fault | `JobsComplete` | the database poll alone serves local development |
| `DocAtomicCheck` | 2 workers, no fault | `CompletedIsFinal` | violated, see section 7 |
| `DocRetriesFail` | 1 worker, 1 job, the deployed limits, 1 crash of the worker | `ExhaustedJobsFail` | violated, see section 7 |
| `SubtitleSegments` | every answer of up to 5 items from either provider, segments of 2 words, 10 ticks to a millisecond, times 0, 999.4 ms, 999.9 ms, 1 s and 3599.9999 s | `TypeOK`, `EveryWordOnce`, `MarksLostOnlyBetweenSegments`, `SegmentsAreReadable`, `CuesInOrder`, `CuesMatchSpeech`, `TextHasCues` | no word is lost, segments are short and in order, and what the viewer sees is when it was said |
| `MediaProcessing` | 1 video, 2 API requests at a time, 1 worker, 2 jobs, 1 crash or lost answer, either provider | `TypeOK`, `PlayableHasFile`, `ReaderFindsSegments`, `AudioIsWhole`, `UndisturbedTextIsOfItsJob`, `LibrarySpec` (module `MediaLibrary`) | the library is implemented, rows and files agree, readers are served, half files go nowhere, and whose text is stored |
| `BrowserSession` | 2 tabs, 2 accounts, 2 calls at a time; access tokens live 1 tick, refresh tokens 2, of 2; 1 lost request | `ExecutedOnce`, `ShowsOwnAccount`, `SessionEndsForCause` | sessions survive concurrent refreshes, logouts, reloads and lost answers, in every order |
| `BrowserSessionLive` | 1 tab, 1 account, 2 calls, the same lives, 1 lost request | `CallsEnd`, `DeadSessionEnds` | no call hangs in the interceptor, and a dead session leads to the login page |
| `Dashboard` | 1 video, there already or to be uploaded, 2 lists on their way, 1 retry, 1 lost request | `DeletedStaysGone`, `UploadOutcome`, `CardsCatchUp`, `DialoguesComeFree` | what is shown comes right, and is told right |
| `VideoDetail` | 1 load at a time; 2 troubles: a write of an older job, a job tried again or started elsewhere, or a lost request | `PollsUntilTheEnd`, `NoSecondStart`, `ResultArrives`, `ErrorPasses` | neither an old answer nor an older job alone keeps the page from asking for its job, and the result comes |
| `Playback` | 4 cues: one after another, one touching, one overlapping; 8 seconds, skips of -2 and 3 | `ScrollFollows`, `ClickShowsCue` | the list is where the speech is |

Why these bounds. Two workers are the fewest that can race; two jobs of one video are the
fewest that can overwrite each other's transcript and statuses, with one request slot creating
them one after the other (the first request may die at any statement and leave its job behind,
so the jobs do overlap). One video suffices because operations on different videos touch
different rows, and a message names one job. A limit of 1 with 2 receives lets a message be
retried, given up and redriven; the deployed limits of `PipelineLive` have the retries, but no
delivery on which the worker gives up. In `PipelineWorkers` ffmpeg does not fail by itself
(`MediaFails = FALSE`), to make room for a fault of any kind: runs fail there because AWS
refuses a name, because the rows are gone, or by the fault. It has one request slot, so that
two concurrent completions of an upload are left to the theorems, which have any number of
requests and faults, as are several faults on two workers. The runs with one fault show
tolerance of any single fault at any place, which is what they claim. Those with more are not
claimed: two faults, a lost publish and a failed undo for instance, do leave jobs behind.
`CHECK_DEADLOCK FALSE` is set because the number of jobs is bounded: when all are done and the
video is gone, nothing is left.

For `SubtitleSegments`, two words make a full segment, so that five items hold two segments
with a mark before, between or after them, or a rest that only the last flush takes. The times
are those where a stamp can go wrong: fractions on both sides of where rounding reaches the
whole second, the second itself, the last moment of an hour, and zero, which is not the
sentinel. Ten ticks to a millisecond make the error of the cut larger than any error of
rounding; the theorem has any number of ticks. The run stops at the end of the answer, hence
no deadlock check.

For `MediaProcessing`, two requests are the fewest that can get between each other's calls
(a completion or a reader and a deletion), and two jobs the fewest that share the keys of a
video. One worker is the one that is deployed; the theorems of section 6 have any number.
A job can be taken up again and again, so that a retry after the crash, on the files it
left, is among the behaviours. With one video no text can come to the wrong video; that this
does not happen with two is part of the theorem `LibraryRefinement`.

For the browser, two tabs, two calls and two accounts are the fewest that can exchange a token
under each other's feet; two ticks let an access token run out, its successor be issued, and
the first refresh token run out while the second lives. The liveness run has one tab because
symmetry is not sound there and each call's end depends on its own tab. Two lists
are the fewest of which one can overtake the other; together with an upload, a deletion
and a loss they meet in every order. Cards of different videos do not influence each other but
through polling, which only asks more often; the safety theorems have any number of them. The
page of a deleted video rests on its error page, hence `VideoDetail` checks no deadlock. With
one load at a time a load still overlaps the start, which is how an answer gets old, and an
older job and a loss can come on top of it. Two loads that overlap, and any number of
troubles, are left to the theorems of the two invariants; what happens in the long run depends
on what the last load has seen. Four cues are what it takes to have every pair of neighbours
that there is: apart, touching, overlapping.

Each property of a passing run has a seeded bug (the operators in the sections "Variants with
a seeded bug", paired in `PROJECT.json`) that makes the run fail: a soft delete, an INSERT
without foreign keys, a cleanup that discards transcripts, a missing early return, a fresh
provider name on every attempt, a failure that is not written down, a queue without redrive, a
retry flag that is not set, a spinner that an error leaves on, a poll that looks at one status
of two, and so on.

## 5. Fairness

`Fairness` has exactly this:

- weak fairness of each request's and each worker's next fault-free step: a goroutine
  that is not blocked runs on, and all of its calls have timeouts or end;
- weak fairness of `QueueStep`: SQS makes an abandoned message visible again and
  redrives it;
- weak fairness of `PollDatabase`: an idle worker's loop goes round every second;
- strong fairness of `Receive(w, j)`: the loop of `Start` asks the queue first on every
  iteration, before it looks at the database, so that a worker that is idle again and
  again while a message is visible again and again does receive it. Weak fairness
  would not do: the worker is not idle continuously.

Nothing makes users act, and no fault has to happen. The liveness runs use one worker
because that is what the compose files start (`container_name: transcribe-worker`).

The browser's liveness runs assume that servers answer and answers are handled: `WF` of each
call's next step in `BrowserSession`, of some list, deletion or upload step in
`DashboardPage`, of some load's step in `VideoDetailPage`; that an interval fires as long as
what it looks at says so (`WF` of `Poll`); and that an effect or a location that was set
takes place (`WF` of `Redirect`, `SF` of `Unload`: loading a page needs one of the bounded
call slots, which other calls free again and again). A request may always be lost instead of
answered, up to the bound. Users need not act, and workers need not end: what depends on
them is not claimed.

## 6. Proofs

`PipelineEffects` and `PipelineProofs` prove, for any sets of videos, requests and
workers and any bounds on jobs, attempts, receives and faults (the assumptions
`BoundsAssumption` and `EnvironmentAssumption` of `TranscriptionPipeline` say no more
than that the bounds are numbers, the first three positive, and the switches are Booleans):

| Theorem | States |
|---|---|
| `TypeCorrect` | `Spec => []TypeOK` |
| `OrphanFreedom` | `Spec => []NoOrphanRows` |
| `CompletionTruth` | `Spec => []CompletedHasTranscript` |
| `SettledDeletion` | `Spec => []AcknowledgedIsSettled` |
| `TranscriptionExclusion` | `Spec => []OneTranscriptionPerJob` |
| `SingleWorkerNeverReclaims` | with at most one worker and any faults, `Spec => []CompletedIsNotReclaimed` |
| `LedgerRefinement` | `Spec => LedgerSpec` |
| `OneFaultInvariance`, `NoJobStranded` | with at most one worker and at most one fault of any kind, and any limits, `Spec => []OneFaultInv` and `Spec => []NoStrandedJob` |

The inductive invariant `IndInv` adds to the properties themselves:

- `KnownJobs`: only inserted jobs have a video, a row or a message. Without it
  `TriggerCreate` could reuse a number that a message or a transcript still names.
- `WorkersHaveJobs`: a busy worker's job is inserted and its receipt is no newer than
  its message's. Type correctness depends on it (the job indexes `cloudJobs` and
  `attempts`), and so does the step from "my count exceeds the limit" to "so many
  deliveries were made".
- `RequestsHaveVideos`: a request past `TriggerCreate` publishes the job it inserted.
- `WorkersSettle`: a worker with a real receipt that gives up has used a delivery
  beyond the limit, and one about to delete the message has a settled job. This is
  what makes `AcknowledgedIsSettled` inductive: the deletion happens one or two
  steps, and possibly another worker's delivery, after the decision.
- `CloudJobsKnown`: a worker that waits for AWS Transcribe waits for a job that exists,
  so a second start is refused.

The argument. `EffectStep` reduces the 27 actions to a few effects on workers,
requests, rows, queue and cloud jobs. Each part of `IndInv` is then preserved by case
analysis over the effects it can see: for instance `Settled` is stable
(`SettledStays`) because rows do not come back, transcripts disappear only together
with the job rows of their video, and receive counts grow; and only three actions
lead a worker to "ack", each from a settled job. For the refinement, status changes
leave `storedVideos` alone (`SetVideo` changes no row's existence), and the four
remaining operations are the ledger's `Store`, `Ask`, `Answer` and `Remove`.

`NoStrandedJob` bounds the faults instead of excluding them, and `OneFaultInv` therefore has
two sides.

- Before the fault (`FaultFree`) everything is where it belongs: a job is "processing" only
  while it is run, "queued" only while its first delivery is still to come or with a worker
  that has not claimed it yet, and a worker's receipt is the newest of a message that is still
  in flight.
- After it (`AfterFault`) less is needed, as there will not be another: what is "processing"
  is at work, about to be taken up again, or `Deliverable`, which is to say that its message
  has a delivery left or waits in the queue with a count that is not used up; or it is
  `Expiring`: the last delivery is `Spent` and the message on its way to the dead letter queue.
- The fault leads from the one to the other (`FaultEffect`, `FaultMoveStep`). One of a
  request or of the queue leaves the worker at work. One of the worker finds a delivery that
  is still due or the last one spent (`RedeliveryDue`): the run began within the retry limit
  (`RunsWithinLimit`) and the worker's count is the newest; or the job came from the
  poll and its message was never delivered. For the second case no job may be published
  twice (`PublishedOnce`).

The limits are arbitrary, and what they decide is in the property: if the queue delivers once
more than the worker tries (`MaxAttempts < MaxReceives`), nothing is ever `Spent` and no job
is left behind. With the deployed 3 and 3 a crash on the last delivery leaves the job
"processing" with its message in the dead letter queue, and `NoStrandedJob` has this as its
one exception. The other hypotheses cannot be dropped: two faults leave jobs behind with any
limits, and a second worker may take a job out of "completed" again (section 7).

A lost answer to COMMIT is why `CompletedIsNotReclaimed` speaks of "failJob" with a condition.
The worker then writes "failed" over a job whose transcript is stored, and the next delivery
transcribes it again; but it does so knowing of a failed job, and never takes up one that says
"completed".

`SubtitleProofs` proves, for any segment length, any resolution and set of times, and any
number of items (`SegmentsAssumption`: limit and resolution are positive, times are natural
numbers):

| Theorem | States |
|---|---|
| `SegmentTypeCorrect` | `Spec => []TypeOK` |
| `WordsKept` | `Spec => []EveryWordOnce` |
| `MarksKept` | `Spec => []MarksLostOnlyBetweenSegments` |
| `CuesOrdered` | `Spec => []CuesInOrder` |
| `CuesAccurate` | `Spec => []CuesMatchSpeech` |
| `ReadableInvariance` | `Spec => []ReadableInv` |
| `SegmentsReadable` | `Spec => []SegmentsAreReadable` |
| `CuesForEveryText` | `Spec => []TextHasCues` |

Its inductive invariant `SegmentsInv` says that the flushed segments tile the answer in
position and in time (`SegmentsTile`), that the open segment fits behind them
(`Fits`), and that the loops' counters agree with what was appended (`CountersAgree`).
`Fits` is what the properties lack: they speak of finished segments only, and a
finished segment is right because the open one was right at every item. The proof says so
in this order: a word or a mark leaves a segment that fits (`WithWordFits`,
`WithMarkFits`), and one that fits may be kept (`KeepStep`) or flushed (`FlushStep`); the
Whisper loop is the case of a word that is flushed at once. The theorems about cues add
`StampAccurate`, that rounding costs at most half a millisecond and the cut at 999 less than
a whole one, and `StampMonotone`, that a later time has no earlier stamp in spite of it.

That AWS's segments are short, begin with a word and end with the sentence is again a matter
of the open segment, which the property does not mention: `ReadableInv` says that it has as
many words as `wordCount` says, fewer than the limit, and no full stop, since either would
have flushed it. Appending a word adds one to the number of words and a mark adds none
(`WithWordReadable`, `WithMarkReadable`), which is the cardinality of a set of positions.
Before the answer ends no segment is empty; the only empty one is the fallback that
`EndOfItems` makes of a text without items, and a text has a cue because of it.

`MediaProofs` proves, for any sets of videos, requests and workers and any number of jobs
and faults (`CatalogueAssumption`, `ProcessingAssumption`: bounds are numbers, there are
finitely many workers, and no video is called "none"):

| Theorem | States |
|---|---|
| `MediaTypes` | `Spec => []TypeOK` |
| `FilesBehindRows` | `Spec => []PlayableHasFile` |
| `ReadersServed` | `Spec => []ReaderFindsSegments` |
| `WholeAudio` | `Spec => []AudioIsWhole` |
| `OwnTexts` | `Spec => []UndisturbedTextIsOfItsJob` |
| `LibraryInvariance` | `Spec => []LibraryInv` |
| `LibraryRefinement` | `Spec => LibrarySpec` |

The properties speak of rows; what keeps them true is what requests and workers have seen
before they write. The inductive invariant `MediaInv` says so: `RequestsKnow` (a request
about to write "uploaded" has seen the file, one about to delete the row has been asked to,
one about to create a job has seen a row that was uploaded), `TextsExist` and
`FilesAreWhole` (a worker about to read a text or a file can rely on it),
`RowsFollowFiles` and `JobsHaveVideos` (rows know their past), and `UndisturbedAttention`
(as long as nothing was lost, the only worker polls the only cloud job that runs, so nobody
else can write to the shared output key). The argument is one of facts that last:
`FilesLast`, `StatusLasts`, `WordsLast`, `JobsLast` and `OutputsLast` say that no step of
anybody takes away what a request or worker may have seen, unless the video is discarded;
what it has seen then still holds when it writes. Steps on disk leave the catalogue alone
(`DiskOnly`).

The refinement needs more than `MediaInv`. All jobs of a video share one output key, and
after a lost answer a worker may be given the words of another job; the library allows that
as long as both jobs were asked for the same video. `WordsStayWithVideo` is why: the words at
the key of a video, and the words a worker has got, were heard in that video (`WordsStayStep`).
Statuses lead from "uploading" only forwards, and a later status only to a later one, so that
most writes of a status leave the shelves alone (`RowStatus`, `ShelvesStay`). What remains
are the operations of the table in section 3, `CatalogueMoves` and `RowMoves`.

The browser's theorems hold for any sets of tabs, calls, accounts, videos and cues and any
bounds (`SessionAssumption`, `DashboardAssumption`, `DetailAssumption`: lives and bounds are
numbers; `PlaybackAssumption`: a cue ends no earlier than it begins, within the video):

| Module | Theorem | States |
|---|---|---|
| `SessionProofs` | `TypeCorrect`, `AtMostOnce`, `OwnAccount`, `EndsForCause` | `TypeOK`, `ExecutedOnce`, `ShowsOwnAccount` always; `SessionEndsForCause` |
| `DashboardProofs` | `TypeCorrect`, `DeletedGone`, `OutcomeTold` | `TypeOK`, `DeletedStaysGone`, `UploadOutcome` always |
| `VideoDetailProofs` | `TypeCorrect`, `KeepsPolling`, `StartedOnce` | `TypeOK`, `PollsUntilTheEnd`, `NoSecondStart` always |
| `PlaybackProofs` | `Follows`, `ClickShows` | `ScrollFollows` always; `ClickShowsCue` |

Each module names its inductive invariant `IInv`, and proves one lemma per action.

- Session: `CallsOK` says that the server has done nothing for a call that may be sent
  again, from which `ExecutedOnce` follows; `AccountsOK` extends `ShowsOwnAccount` from tabs
  to the tokens that calls carry, since a tab learns its account from a call and a refresh
  stores what a call has carried. `EndsForCause` then looks at the steps that remove tokens
  without a loss. It is the server's part that matters: `RefreshToken` looks at the age of a
  token and not at whether it was used before, so that refreshes that cross each other all
  succeed. A server that rotated its refresh tokens would violate the property (this is its
  seeded bug), and the interceptor would then sign everybody out.
- Dashboard: `ListsOK` extends `DeletedStaysGone` from the cards to the lists on their way;
  `AbsentUnknown` and `DeletionOK` say that a confirmed deletion is final and that no list
  knows a video before its upload begins; `UploadOK` follows the upload's row through the
  calls.
- Video page: while its own job is the latest and under way (`mine = "busy"`) the rows say so,
  the video's unless another job has written to it or the start is not done yet (`Busy`); so
  does every answer given since (`AnswersTell`), and every status shown that is not late
  (`PageKnows`). Of the job nothing but the page's own worker can take this away, since later
  jobs end `mine`; of the video any earlier job can, which `crossed` records.
- Playback: unless disturbed, at most one cue is highlighted, the ref object has it, and the
  list is at the cue the effect remembers (`ListOK`); a click's position lasts until the time
  is changed otherwise (`ClickOK`). Touching and overlapping cues, and searches, are excluded
  by `disturbed` until the list is scrolled again. `TypeOK` is not proved here: that the
  maximum of a finite set is in it needs induction over the set. `Types` has what the argument
  needs.

Only model-checked: the liveness properties, for which the prover has no ENABLED and no
fairness rules that would serve, and the violations of section 7. Every invariant and action
property of the passing runs, and both refinements, are stated by a theorem above. The other
way round, `TypeOK` of session, dashboard and video page is left to the proofs, as no run
could say more about it.

## 7. Where the code and its documentation disagree

- README: "Workers verify job states atomically before processing". The check is a
  SELECT, the claim a later unconditional UPDATE, and the poll locks nothing. With
  two workers a completed job is taken out of "completed" again (`DocAtomicCheck`).
  What survives even then is proved: no transcript is lost or misattributed.
- README: "Jobs exceeding 3 retries are safely failed". The worker fails a job on the
  fourth delivery; the deployed queue redrives after the third. If the worker crashes during the
  third, nobody fails the job: it and its video stay "processing" (`DocRetriesFail`). In
  `PipelineLive` this is the exception `Abandoned`; one delivery more would remove it.

Others can be had from the same models by changing a constant or checking one formula more;
no run is kept for them:

- AI/plan.md promises an "interactive video player synchronized with clickable transcript
  timestamps and auto-scrolling highlights". Where one cue ends as the next begins both are
  highlighted at that moment, and when the first lets go of the shared ref the second has
  none: it is highlighted, and the list stays where it was. The formula
  `autoScroll /\ found = Cues /\ Highlighted # {} => scrolled \in Highlighted` is violated in
  `Playback`; `ScrollFollows` leaves such cues out (`disturbed`).
- deploy/aws/README: "automated 3x retry policy". With AWS Transcribe the retry after a
  crash cannot succeed, because the name of the cloud job is taken: `JobsComplete` is
  violated with `CloudProvider = TRUE`, `MediaFails = FALSE` and one crash.
- `ErrVideoAlreadyProcessing`, "video is already being transcribed": the request's own
  late write can leave that status on a video whose transcription is over. This is why
  `ProcessingResolves` is content with a transcript; and if the request dies before it
  publishes, and the one run that the poll gave the job had failed by then, even a video
  without one stays so (`NeverSent`).
- provider.go: "polls until completion, and downloads/parses the result". A single poll
  without an answer ends the polling, the cloud job goes on, and as the output key has the
  video's name only, the next job may be given the earlier job's output: `TextIsOfItsJob` is
  violated by one fault "answer" in `MediaProcessing`. `OwnTexts` says that this takes a lost
  answer, a crash or a second worker.

By reading, not by a run: `DashboardPage.tsx` promises that deleting a video removes all
extracted audio and transcripts, but no code deletes the audio and raw output objects;
README promises that scratch directories are always wiped, but a crash leaves them until
the same job is retried on that host; `GetByVideoID` does not ask for the error that
may have ended its loop over the segments, so that a broken connection looks like the end
of the transcript; and every status written by the worker sets the video's size to 0 and
its content type to "".

What a user of the frontend may notice, and where the model has it. But for the
auto-scroll above no document was found that says otherwise; the properties name these cases as
their exceptions.

- Dashboard: polling rests on "completed" and "failed" although a redelivery may be processing
  the video again, and a list made before an upload that arrives after `onSuccess` hides the
  new card for good if no other card causes polling (`CardsCatchUp` allows both, `stale`); a
  list that could not be had reads "No videos found"; a confirmed deletion closes whichever
  dialogue is open by then (`DeleteAnswered`); no pill shows failed videos alone (`Filters`);
  the list ends with the twentieth video.
- Video page: an older job of the video that is delivered again and fails writes "failed" over
  the row while the page's own job is queued, and "Transcribe" is offered again (`crossed` in
  `NoSecondStart`); the late UPDATE of a start leaves "processing" on a video whose job is
  completed, and its transcript is not asked for (`ResultArrives` promises nothing of a row
  that does not come to rest as "completed"); a refused "Transcribe" replaces player and
  transcript by "Video Unavailable" (`StartFails`); when one of two overlapping loads fails
  after the other has begun and the other ends with a final status, that page stays
  (`ErrorPasses` speaks of a page that still polls); every load brings a new playback URL,
  which restarts the player (`NewSource`); going from one video's page to another's through
  the history keeps the first one's state until the second is loaded.
- Player: a click on a cue that touches the one before shows the one before (the last condition
  of `ClickShowsCue`). A search moves rows without scrolling again (`disturbed`).
- Session: a wrong password, too, is a 401 and spends a refresh if old tokens are stored
  (`Unauthorized`); a logout does not stop a refresh on its way, whose answer stores tokens
  again (`Resend`); a refresh that the server judges after its token has run out signs out a
  session that another call has renewed meanwhile (`RefreshRefused`).

## 8. What is not modelled

Server wiring, health checks, configuration, logging, CORS, panic recovery, the
connection pool and the migrator have no state of their own that a property could be
about. In the frontend, the architecture pages (a third of its lines) are text and
drawings, `ThemeContext` is one flag, and `ExportDropdown`, the copy buttons, the skip pill,
progress figures and all layout influence nothing else. Passwords, the users table and its
unique address are left out of `BrowserSession`, where signing in succeeds or not. The
in-memory queue is modelled only by what local development does with it. The heartbeat is
modelled by its effect and not by its ticks. Sizes and content types are in no model.
`PROJECT.json` lists every component with its status, and every hazard with the properties
that cover it or the reason why none does.

## 9. Plan

Done: the core (`TranscriptionPipeline`) with its abstract specification, the subtitle path
(`SubtitleSegments`), rows and files (`VideoCatalogue`, `MediaProcessing`) with theirs, and
the browser (`BrowserSession`, `DashboardPage`, `VideoDetailPage`, `TranscriptPlayback`), each
with its runs and theorems. What could follow, the most consequential first:

1. `HeartbeatLease`: ticks of 20 s against 60 s and 300 s visibility; replaces
   the assumption behind `LoseLease` by an invariant with its margins.
2. The metadata of `VideoCatalogue`: size and content type as `CompleteUpload` learns them
   and worker and trigger overwrite them, and the paged listing.
3. The two pages as readers of the library: what they show is what `VideoLibrary` has, or
   had a moment ago.
4. `MemoryQueue`: the in-memory queue against the queue interface that the worker relies
   on.
5. More proofs: what a second worker adds to `NoStrandedJob`, whose invariant speaks of one
   newest receipt.
