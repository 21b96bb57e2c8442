-------------------------- MODULE VideoDetailProofs --------------------------
(***************************************************************************)
(* That the safety properties of VideoDetailPage hold for any number of    *)
(* loads and of troubles.                                                  *)
(***************************************************************************)
EXTENDS VideoDetailPage, TLAPS

\* The job of this page is under way.  Its row says so unless an earlier job has written
\* to it, or the start has not done so yet.
Busy ==
  /\ latestJob \in {"queued", "processing"} /\ run \in {"none", "claimed", "working"}
  /\ row = "processing" \/ crossed \/ start = "inserted"
  /\ start # "undoing"

\* So does what the server has said since the start.
AnswersTell ==
  \A l \in DOMAIN loads : ~loads[l].old =>
    /\ loads[l].pc = "jobServed" => loads[l].seen \in {"queued", "processing"}
    /\ loads[l].pc = "videoServed" /\ ~crossed /\ start # "inserted" => loads[l].seen = "processing"

\* The page knows from the answer to the start, and from every answer that is not late.
PageKnows ==
  start = "idle" =>
    /\ ~lateVideo /\ ~crossed => video = "processing"
    /\ ~lateJob => job \in {"queued", "processing"}

Claimed == Busy /\ AnswersTell /\ PageKnows

IInv == TypeOK /\ (mine = "busy" => Claimed)

\* The parts of the type invariant that claim nothing.
ServerOK ==
  /\ row \in VideoStatus \cup {"deleted"}
  /\ latestJob \in JobStatus \cup {None}
  /\ run \in {"none", "claimed", "working", "failing", "failed"}
  /\ older \in {"nobody", "start", "job"}
  /\ troubles \in 0 .. MaxTroubles

PageOK ==
  /\ video \in VideoStatus \cup {None}
  /\ job \in JobStatus \cup {None}
  /\ start \in {"idle", "sent", "checked", "inserted", "marked", "undoing", "refused"}
  /\ transcript \in BOOLEAN /\ loading \in BOOLEAN /\ error \in BOOLEAN /\ missed \in BOOLEAN

StatusesOK ==
  /\ ServerOK
  /\ video \in VideoStatus \cup {None}
  /\ job \in JobStatus \cup {None}
  /\ start \in {"idle", "sent", "checked", "inserted", "marked", "undoing", "refused"}
  /\ mine \in {"none", "busy", "ended"}

FlagsOK ==
  /\ transcript \in BOOLEAN /\ loading \in BOOLEAN /\ error \in BOOLEAN
  /\ crossed \in BOOLEAN /\ lateVideo \in BOOLEAN /\ lateJob \in BOOLEAN /\ missed \in BOOLEAN

\* A trouble is within the bound.
LEMMA TroubleCounts == ASSUME TypeOK, Trouble \/ UNCHANGED troubles PROVE troubles' \in 0 .. MaxTroubles
BY DetailAssumption DEF TypeOK, Trouble

-----------------------------------------------------------------------------
(* Loads                                                                   *)

\* The loads under way are a sequence of loads.
LEMMA LoadsAreLoads ==
  ASSUME TypeOK
  PROVE  /\ Len(loads) \in Nat /\ DOMAIN loads = 1 .. Len(loads)
         /\ \A l \in DOMAIN loads : loads[l] \in LoadState
BY DEF TypeOK

\* One of them may change.
LEMMA LoadChanges ==
  ASSUME TypeOK, NEW l \in DOMAIN loads, NEW load \in LoadState, loads' = [loads EXCEPT ![l] = load]
  PROVE  /\ loads' \in Seq(LoadState) /\ DOMAIN loads' = DOMAIN loads /\ loads'[l] = load
         /\ \A k \in DOMAIN loads \ {l} : loads'[k] = loads[k]
BY DEF TypeOK

\* A load that ends leaves the others.
LEMMA EndLoadKeeps ==
  ASSUME TypeOK, NEW l \in DOMAIN loads, EndLoad(l)
  PROVE  /\ loads' \in Seq(LoadState) /\ loading' = FALSE
         /\ \A k \in DOMAIN loads' : \E m \in DOMAIN loads : loads'[k] = loads[m]
<1> DEFINE rest == [k \in 1 .. Len(loads) - 1 |-> IF k < l THEN loads[k] ELSE loads[k + 1]]
<1>1. Len(loads) \in Nat /\ l \in 1 .. Len(loads) /\ DOMAIN loads = 1 .. Len(loads) /\ Len(loads) - 1 \in Nat
  BY LoadsAreLoads
<1>2. \A k \in 1 .. Len(loads) - 1 : k \in DOMAIN loads /\ k + 1 \in DOMAIN loads
  BY <1>1
<1>3. rest \in [1 .. Len(loads) - 1 -> LoadState]
  BY <1>2, LoadsAreLoads
<1>4. rest \in Seq(LoadState) /\ DOMAIN rest = 1 .. Len(loads) - 1
  BY <1>1, <1>3
<1>5. \A k \in DOMAIN rest : \E m \in DOMAIN loads : rest[k] = loads[m]
  BY <1>2, <1>4
<1>6. loads' = rest /\ loading' = FALSE
  BY DEF EndLoad
<1> QED BY <1>4, <1>5, <1>6

\* A load may become old, or young again.
LEMMA AgeIsLoad ==
  ASSUME NEW load \in LoadState, NEW old \in BOOLEAN
  PROVE  /\ [load EXCEPT !.old = old] \in LoadState
         /\ [load EXCEPT !.old = old].old = old
         /\ [load EXCEPT !.old = old].pc = load.pc
         /\ [load EXCEPT !.old = old].seen = load.seen
BY DEF LoadState, LoadIn

\* Some of them may.
LEMMA AgedKeeps ==
  ASSUME TypeOK, NEW stages, Aged(stages)
  PROVE  /\ loads' \in Seq(LoadState) /\ DOMAIN loads' = DOMAIN loads
         /\ \A l \in DOMAIN loads :
              /\ loads'[l].pc = loads[l].pc /\ loads'[l].seen = loads[l].seen
              /\ ~loads'[l].old => ~loads[l].old /\ loads[l].pc \notin stages
<1> DEFINE age(l) == loads[l].old \/ loads[l].pc \in stages
           after == [l \in DOMAIN loads |-> [loads[l] EXCEPT !.old = age(l)]]
<1>1. Len(loads) \in Nat /\ DOMAIN loads = 1 .. Len(loads)
  BY LoadsAreLoads
<1>2. \A l \in DOMAIN loads : loads[l] \in LoadState /\ age(l) \in BOOLEAN
  BY LoadsAreLoads DEF LoadState, LoadIn
<1>3. loads' = after
  BY <1>2 DEF Aged, LoadState, LoadIn
<1>4. \A l \in DOMAIN loads : ~age(l) => ~loads[l].old /\ loads[l].pc \notin stages
  OBVIOUS
<1>5. \A l \in DOMAIN loads : after[l] = [loads[l] EXCEPT !.old = age(l)]
  OBVIOUS
<1>6. after = [l \in 1 .. Len(loads) |-> after[l]]
  BY <1>1
<1> HIDE DEF age, after
<1>7. ASSUME NEW l \in DOMAIN loads
      PROVE  /\ after[l] \in LoadState /\ after[l].old = age(l)
             /\ after[l].pc = loads[l].pc /\ after[l].seen = loads[l].seen
  <2>1. loads[l] \in LoadState /\ age(l) \in BOOLEAN
    BY <1>2
  <2>2. after[l] = [loads[l] EXCEPT !.old = age(l)]
    BY <1>5
  <2> QED BY <2>1, <2>2, AgeIsLoad
<1>8. loads' \in Seq(LoadState) /\ DOMAIN loads' = DOMAIN loads
  <2>1. after \in [1 .. Len(loads) -> LoadState]
    BY <1>1, <1>6, <1>7
  <2> QED BY <1>1, <1>3, <2>1
<1> QED BY <1>3, <1>4, <1>7, <1>8

\* Nothing is claimed of a job that has ended, or is not the page's.
LEMMA ForgetKeeps ==
  ASSUME IInv, NEW fate \in {"none", "ended"}, Forget(fate), ServerOK', PageOK'
  PROVE  IInv'
<1> DEFINE after == [l \in DOMAIN loads |-> [loads[l] EXCEPT !.old = FALSE]]
<1>1. Len(loads) \in Nat /\ DOMAIN loads = 1 .. Len(loads)
  BY LoadsAreLoads DEF IInv
<1>2. \A l \in DOMAIN loads : after[l] \in LoadState
  BY LoadsAreLoads, AgeIsLoad DEF IInv
<1>3. loads' = after /\ after = [l \in 1 .. Len(loads) |-> after[l]]
  BY <1>1 DEF Forget
<1> HIDE DEF after
<1>4. loads' \in Seq(LoadState)
  <2>1. after \in [1 .. Len(loads) -> LoadState]
    BY <1>1, <1>2, <1>3
  <2> QED BY <1>1, <1>3, <2>1
<1>5. TypeOK'
  BY <1>4 DEF TypeOK, ServerOK, PageOK, Forget
<1> QED BY <1>5 DEF IInv, Forget

\* Where nothing that the page has or hears of is touched, the row and the job decide.
LEMMA ServerKeeps ==
  ASSUME IInv, ServerOK', UNCHANGED <<loads, mine, lateVideo, lateJob>>, Outside, crossed' \in BOOLEAN,
         mine = "busy" => Busy' /\ (crossed => crossed')
  PROVE  IInv'
<1>1. TypeOK'
  BY DEF IInv, TypeOK, ServerOK, Outside, page
<1>2. mine' = "busy" => AnswersTell' /\ PageKnows'
  BY DEF IInv, TypeOK, Claimed, AnswersTell, PageKnows, Outside, page
<1> QED BY <1>1, <1>2 DEF IInv, Claimed

-----------------------------------------------------------------------------
(* The server                                                              *)

\* A job that is claimed is under way.
LEMMA ClaimJobKeeps == ASSUME IInv, ClaimJob PROVE IInv'
<1>1. ServerOK'
  BY TroubleCounts DEF IInv, TypeOK, ServerOK, ClaimJob, JobStatus
<1> QED BY <1>1, ServerKeeps DEF IInv, TypeOK, Claimed, Busy, ClaimJob, claims, Outside

LEMMA ClaimVideoKeeps == ASSUME IInv, ClaimVideo PROVE IInv'
<1>1. ServerOK'
  BY DEF IInv, TypeOK, ServerOK, ClaimVideo, VideoStatus
<1> QED BY <1>1, ServerKeeps DEF IInv, TypeOK, Claimed, Busy, ClaimVideo, claims, Outside

\* The end of a job is the end of what is claimed of it.
LEMMA JobEndsKeeps ==
  ASSUME IInv, NEW status \in JobStatus, JobEnds(status), ServerOK', PageOK'
  PROVE  IInv'
<1>1. CASE mine = "busy"
  BY <1>1, ForgetKeeps DEF JobEnds
<1>2. CASE mine # "busy"
  BY <1>2 DEF IInv, TypeOK, ServerOK, PageOK, JobEnds, claims
<1> QED BY <1>1, <1>2

LEMMA PersistedKeeps == ASSUME IInv, Persisted PROVE IInv'
<1>1. ServerOK' /\ PageOK'
  BY DEF IInv, TypeOK, ServerOK, PageOK, Persisted, JobEnds, Outside, page, VideoStatus, JobStatus
<1> QED BY <1>1, JobEndsKeeps DEF Persisted, Outside, JobStatus

LEMMA FailJobKeeps == ASSUME IInv, FailJob PROVE IInv'
<1>1. troubles' \in 0 .. MaxTroubles
  BY TroubleCounts DEF IInv, FailJob
<1>2. ServerOK' /\ PageOK'
  BY <1>1 DEF IInv, TypeOK, ServerOK, PageOK, FailJob, JobEnds, Outside, page, JobStatus
<1> QED BY <1>2, JobEndsKeeps DEF FailJob, Outside, JobStatus

\* Where a job has failed, nothing is claimed of the latest any more.
LEMMA FailVideoKeeps == ASSUME IInv, FailVideo PROVE IInv'
<1>1. ServerOK'
  BY DEF IInv, TypeOK, ServerOK, FailVideo, VideoStatus
<1> QED BY <1>1, ServerKeeps DEF IInv, TypeOK, Claimed, Busy, FailVideo, claims, Outside

LEMMA WorkerCrashesKeeps == ASSUME IInv, WorkerCrashes PROVE IInv'
<1>1. ServerOK'
  BY DEF IInv, TypeOK, ServerOK, WorkerCrashes
<1> QED BY <1>1, ServerKeeps DEF IInv, TypeOK, Claimed, Busy, WorkerCrashes, claims, Outside

\* An earlier job that writes to the row takes only the row from what is claimed.
LEMMA OlderJobWritesKeeps == ASSUME IInv, OlderJobWrites PROVE IInv'
<1>1. ServerOK'
  BY TroubleCounts DEF IInv, TypeOK, ServerOK, OlderJobWrites, VideoStatus
<1> QED BY <1>1, ServerKeeps DEF IInv, TypeOK, Claimed, Busy, OlderJobWrites, Outside

\* An upload that was not completed had no row to mark.
LEMMA UploadCompletedKeeps == ASSUME IInv, UploadCompleted PROVE IInv'
<1>1. ServerOK'
  BY DEF IInv, TypeOK, ServerOK, UploadCompleted, VideoStatus
<1> QED BY <1>1, ServerKeeps DEF IInv, TypeOK, Claimed, Busy, UploadCompleted, claims, Outside

\* A job that is started elsewhere is not the page's, and a mark is "processing" whoever sets it.
LEMMA ElsewhereKeeps == ASSUME IInv, StartedElsewhere \/ MarkedElsewhere PROVE IInv'
<1>1. CASE StartedElsewhere
  <2>1. ServerOK' /\ PageOK'
    BY <1>1, TroubleCounts
       DEF IInv, TypeOK, ServerOK, PageOK, StartedElsewhere, NewJob, Outside, page, JobStatus
  <2> QED BY <1>1, <2>1, ForgetKeeps DEF StartedElsewhere
<1>2. CASE MarkedElsewhere
  <2>1. ServerOK'
    BY <1>2 DEF IInv, TypeOK, ServerOK, MarkedElsewhere, VideoStatus
  <2> QED BY <1>2, <2>1, ServerKeeps DEF IInv, TypeOK, Claimed, Busy, MarkedElsewhere, claims, Outside
<1> QED BY <1>1, <1>2

\* The end of the video is the end of its jobs.
LEMMA DeletedKeeps == ASSUME IInv, Deleted PROVE IInv'
<1>1. ServerOK' /\ PageOK'
  BY DEF IInv, TypeOK, ServerOK, PageOK, Deleted, Outside, page
<1> QED BY <1>1, ForgetKeeps DEF Deleted

-----------------------------------------------------------------------------
(* loadData                                                                *)

\* A new load knows nothing.
LEMMA loadDataKeeps == ASSUME IInv, loadData PROVE IInv'
<1>1. NewLoad \in LoadState
  BY DEF NewLoad, LoadState, LoadIn
<1>2. /\ loads' \in Seq(LoadState) /\ Len(loads') = Len(loads) + 1
      /\ loads'[Len(loads) + 1] = NewLoad
      /\ \A l \in DOMAIN loads : loads'[l] = loads[l]
  BY <1>1, LoadsAreLoads DEF IInv, TypeOK, loadData
<1>3. TypeOK'
  <2>1. loads' \in Seq(LoadState)
    BY <1>2
  <2>2. StatusesOK'
    BY DEF IInv, TypeOK, StatusesOK, ServerOK, loadData, server, history, claims
  <2>3. FlagsOK'
    BY Zenon DEF IInv, TypeOK, FlagsOK, loadData, history, claims
  <2> QED BY <2>1, <2>2, <2>3 DEF TypeOK, StatusesOK, ServerOK, FlagsOK
<1>4. \A l \in DOMAIN loads' : l \in DOMAIN loads \/ loads'[l].pc = "video"
  BY <1>2, LoadsAreLoads DEF IInv, NewLoad
<1>5. mine = "busy" => Claimed'
  BY <1>2, <1>4 DEF IInv, Claimed, Busy, AnswersTell, PageKnows, loadData, server, history, claims
<1> QED BY <1>3, <1>5 DEF IInv, loadData, history, claims

\* What the server says of a load is what it is busy with by then.
LEMMA ServedKeeps ==
  ASSUME IInv, NEW l \in DOMAIN loads, VideoServed(l) \/ JobServed(l)
  PROVE  IInv'
<1> DEFINE pc == IF loads[l].pc = "video" THEN "videoServed" ELSE "jobServed"
           seen == IF loads[l].pc = "video" THEN (IF Exists THEN row ELSE "missing")
                   ELSE IF latestJob # None THEN latestJob ELSE "missing"
           load == [loads[l] EXCEPT !.pc = pc, !.seen = seen]
<1>1. loads[l] \in LoadState
  BY LoadsAreLoads DEF IInv
<1>2. \/ pc = "videoServed" /\ seen \in VideoStatus \cup {"missing"}
      \/ pc = "jobServed" /\ seen \in JobStatus \cup {"missing"}
  BY DEF IInv, TypeOK, Exists
<1>3. loads' = [loads EXCEPT ![l].pc = pc, ![l].seen = seen]
  BY DEF VideoServed, JobServed, See
<1>4. UNCHANGED <<server, troubles, page, start, history>>
  BY DEF VideoServed, JobServed
<1>5. mine = "busy" =>
        IF pc = "videoServed" THEN crossed \/ start = "inserted" \/ seen = "processing"
        ELSE seen \in {"queued", "processing"}
  BY DEF IInv, Claimed, Busy, Exists, VideoStatus, None
<1> HIDE DEF pc, seen
<1>6. loads' = [loads EXCEPT ![l] = load]
  BY <1>3 DEF IInv, TypeOK
<1>7. load \in LoadState /\ load.pc = pc /\ load.seen = seen
  <2>1. load.pc = pc /\ load.seen = seen
    BY <1>1 DEF LoadState, LoadIn
  <2>2. CASE pc = "videoServed" BY <1>1, <1>2, <2>2 DEF LoadState, LoadIn
  <2>3. CASE pc = "jobServed" BY <1>1, <1>2, <2>3 DEF LoadState, LoadIn
  <2> QED BY <1>2, <2>1, <2>2, <2>3
<1> HIDE DEF load
<1>8. TypeOK'
  BY <1>4, <1>6, <1>7, LoadChanges DEF IInv, TypeOK, server, page, history, claims
<1>9. mine' = "busy" => Claimed'
  <2>1. \A k \in DOMAIN loads' : IF k = l THEN loads'[k] = load ELSE k \in DOMAIN loads /\ loads'[k] = loads[k]
    BY <1>6, <1>7, LoadChanges DEF IInv
  <2> QED BY <1>2, <1>4, <1>5, <1>7, <2>1
          DEF IInv, Claimed, Busy, AnswersTell, PageKnows, server, page, history, claims
<1> QED BY <1>8, <1>9 DEF IInv

\* Answers that have been handled tell nothing any more.
LEMMA AnswersStay ==
  ASSUME AnswersTell, UNCHANGED <<crossed, start>>,
         \A k \in DOMAIN loads' :
           (\E m \in DOMAIN loads : loads'[k] = loads[m]) \/ loads'[k].pc \in {"job", "text"}
  PROVE  AnswersTell'
BY DEF AnswersTell

\* What a load goes on with is a load.
LEMMA NextLoad ==
  /\ \A completed \in BOOLEAN :
       /\ [NewLoad EXCEPT !.pc = "job", !.completed = completed] \in LoadState
       /\ [NewLoad EXCEPT !.pc = "job", !.completed = completed].pc = "job"
  /\ [NewLoad EXCEPT !.pc = "text"] \in LoadState
  /\ [NewLoad EXCEPT !.pc = "text"].pc = "text"
BY DEF NewLoad, LoadState, LoadIn

\* A status served is one of a video or of a job.
LEMMA SeenIsStatus ==
  ASSUME TypeOK, NEW l \in DOMAIN loads
  PROVE  /\ loads[l].pc = "videoServed" /\ loads[l].seen # "missing" => loads[l].seen \in VideoStatus
         /\ loads[l].pc = "jobServed" /\ loads[l].seen # "missing" => loads[l].seen \in JobStatus
BY LoadsAreLoads DEF LoadState, LoadIn

\* A video that is not late is the one the server is busy with.
LEMMA VideoAnsweredKeeps == ASSUME IInv, NEW l \in DOMAIN loads, VideoAnswered(l) PROVE IInv'
<1> DEFINE load == [NewLoad EXCEPT !.pc = "job", !.completed = Completed(loads[l].seen)]
<1>1. load \in LoadState /\ load.pc = "job"
  BY NextLoad DEF Completed
<1>2. loads' = [loads EXCEPT ![l] = load]
  BY DEF VideoAnswered
<1> HIDE DEF load
<1>3. loads[l] \in LoadState
  BY LoadsAreLoads DEF IInv
<1>4. video' \in VideoStatus \cup {None} /\ lateVideo' \in BOOLEAN
  <2>1. video' \in VideoStatus \cup {None}
    BY SeenIsStatus DEF IInv, VideoAnswered
  <2>2. lateVideo' \in BOOLEAN
    BY DEF VideoAnswered
  <2> QED BY <2>1, <2>2
<1>5. TypeOK'
  BY <1>1, <1>2, <1>4, LoadChanges DEF IInv, TypeOK, VideoAnswered, server
<1>6. mine = "busy" => AnswersTell'
  BY <1>1, <1>2, LoadChanges, AnswersStay DEF IInv, Claimed, VideoAnswered
<1>7. mine = "busy" => Busy' /\ PageKnows'
  BY DEF IInv, Claimed, Busy, AnswersTell, PageKnows, Started, VideoAnswered, server
<1> QED BY <1>5, <1>6, <1>7 DEF IInv, Claimed, VideoAnswered

\* A load that fails changes neither video nor job.
LEMMA VideoFailsKeeps == ASSUME IInv, NEW l \in DOMAIN loads, VideoFails(l) PROVE IInv'
<1>1. TypeOK'
  <2>1. troubles' \in 0 .. MaxTroubles
    BY TroubleCounts DEF IInv, VideoFails
  <2>2. loads' \in Seq(LoadState) /\ loading' \in BOOLEAN
    BY EndLoadKeeps DEF IInv, VideoFails
  <2> QED BY <2>1, <2>2 DEF IInv, TypeOK, VideoFails, server, history, claims
<1>2. mine = "busy" => AnswersTell'
  BY EndLoadKeeps, AnswersStay DEF IInv, Claimed, VideoFails, history, claims
<1>3. mine = "busy" => Busy' /\ PageKnows'
  BY DEF IInv, Claimed, Busy, PageKnows, VideoFails, server, history, claims
<1> QED BY <1>1, <1>2, <1>3 DEF IInv, Claimed, VideoFails, history, claims

\* After the job the load ends or asks for the transcript.
LEMMA AfterJobKeeps ==
  ASSUME TypeOK, NEW l \in DOMAIN loads, AfterJob(l), UNCHANGED <<crossed, start>>
  PROVE  /\ loads' \in Seq(LoadState) /\ loading' \in BOOLEAN
         /\ AnswersTell => AnswersTell'
<1>1. CASE loads[l].completed
  <2>1. loads' = [loads EXCEPT ![l] = [NewLoad EXCEPT !.pc = "text"]] /\ loading' = loading
    BY <1>1 DEF AfterJob
  <2> QED BY <2>1, NextLoad, LoadChanges, AnswersStay DEF TypeOK
<1>2. CASE ~loads[l].completed
  BY <1>2, EndLoadKeeps, AnswersStay DEF AfterJob
<1> QED BY <1>1, <1>2

\* A job that is not late is the one the server is busy with.
LEMMA JobAnsweredKeeps == ASSUME IInv, NEW l \in DOMAIN loads, JobAnswered(l) PROVE IInv'
<1>1. job' \in JobStatus \cup {None} /\ lateJob' \in BOOLEAN
  BY SeenIsStatus DEF IInv, JobAnswered
<1>2. TypeOK'
  BY <1>1, AfterJobKeeps DEF IInv, TypeOK, JobAnswered, server
<1>3. mine = "busy" => AnswersTell'
  BY AfterJobKeeps DEF IInv, Claimed, JobAnswered
<1>4. mine = "busy" => Busy' /\ PageKnows'
  BY DEF IInv, Claimed, Busy, AnswersTell, PageKnows, Started, JobAnswered, server
<1> QED BY <1>2, <1>3, <1>4 DEF IInv, Claimed, JobAnswered

\* A job that is not answered leaves the page's job.
LEMMA JobFailsKeeps == ASSUME IInv, NEW l \in DOMAIN loads, JobFails(l) PROVE IInv'
<1>1. TypeOK'
  <2>1. troubles' \in 0 .. MaxTroubles
    BY TroubleCounts DEF IInv, JobFails
  <2> QED BY <2>1, AfterJobKeeps DEF IInv, TypeOK, JobFails, server, history, claims
<1>2. mine = "busy" => AnswersTell'
  BY AfterJobKeeps DEF IInv, Claimed, JobFails, history, claims
<1>3. mine = "busy" => Busy' /\ PageKnows'
  BY DEF IInv, Claimed, Busy, PageKnows, JobFails, server, history, claims
<1> QED BY <1>1, <1>2, <1>3 DEF IInv, Claimed, JobFails, history, claims

\* The transcript says nothing of the job.
LEMMA TextKeeps == ASSUME IInv, NEW l \in DOMAIN loads, TextAnswered(l) \/ TextFails(l) PROVE IInv'
<1>1. /\ EndLoad(l)
      /\ UNCHANGED <<row, latestJob, run, older, video, job, start, mine, crossed, lateVideo, lateJob>>
  BY DEF TextAnswered, TextFails, server, claims
<1>2. transcript' \in BOOLEAN /\ missed' \in BOOLEAN /\ troubles' \in 0 .. MaxTroubles /\ error' = error
  <2>1. troubles' \in 0 .. MaxTroubles /\ error' = error
    BY TroubleCounts DEF IInv, TextAnswered, TextFails
  <2>2. transcript' \in BOOLEAN /\ missed' \in BOOLEAN
    BY DEF IInv, TypeOK, TextAnswered, TextFails
  <2> QED BY <2>1, <2>2
<1>3. TypeOK'
  <2>1. loads' \in Seq(LoadState) /\ loading' \in BOOLEAN
    BY <1>1, EndLoadKeeps DEF IInv
  <2> QED BY <1>1, <1>2, <2>1 DEF IInv, TypeOK
<1>4. mine = "busy" => AnswersTell'
  BY <1>1, EndLoadKeeps, AnswersStay DEF IInv, Claimed
<1>5. mine = "busy" => Busy' /\ PageKnows'
  BY <1>1 DEF IInv, Claimed, Busy, PageKnows, server
<1> QED BY <1>1, <1>3, <1>4, <1>5 DEF IInv, Claimed, claims

-----------------------------------------------------------------------------
(* Starting the transcription                                              *)

\* Asking changes nothing yet, nor does the first look at the row.
LEMMA AskedKeeps == ASSUME IInv, handleStartTranscription \/ StartChecked PROVE IInv'
<1>1. /\ UNCHANGED <<server, troubles, page, loads, history>>
      /\ start' \in {"sent", "checked", "refused"} /\ start \in {"idle", "sent"}
  BY DEF handleStartTranscription, StartChecked
<1>2. TypeOK'
  BY <1>1 DEF IInv, TypeOK, server, page, history, claims
<1>3. mine = "busy" => Claimed'
  BY <1>1 DEF IInv, Claimed, Busy, AnswersTell, PageKnows, server, page, history, claims
<1> QED BY <1>1, <1>2, <1>3 DEF IInv, history, claims

\* A job that is queued is under way, and makes every answer about jobs old.
LEMMA StartInsertedKeeps == ASSUME IInv, StartInserted PROVE IInv'
<1>1. Aged({"jobServed"})
  BY DEF StartInserted
<1>2. TypeOK'
  BY <1>1, AgedKeeps DEF IInv, TypeOK, StartInserted, NewJob, page, JobStatus
<1>3. AnswersTell'
  BY <1>1, AgedKeeps DEF IInv, AnswersTell, StartInserted
<1>4. Busy' /\ PageKnows'
  BY DEF Busy, PageKnows, StartInserted, NewJob
<1> QED BY <1>2, <1>3, <1>4 DEF IInv, Claimed

\* A row that is marked says so, and makes every answer about it old.
LEMMA StartMarkedKeeps == ASSUME IInv, StartMarked PROVE IInv'
<1>1. Aged({"videoServed"})
  BY DEF StartMarked
<1>2. TypeOK'
  <2>1. loads' \in Seq(LoadState)
    BY <1>1, AgedKeeps DEF IInv
  <2>2. StatusesOK'
    BY DEF IInv, TypeOK, StatusesOK, ServerOK, StartMarked, page, VideoStatus
  <2>3. FlagsOK'
    BY Zenon DEF IInv, TypeOK, FlagsOK, StartMarked, page
  <2> QED BY <2>1, <2>2, <2>3 DEF TypeOK, StatusesOK, ServerOK, FlagsOK
<1>3. mine = "busy" => AnswersTell'
  BY <1>1, AgedKeeps DEF IInv, Claimed, AnswersTell, StartMarked
<1>4. mine = "busy" => Busy' /\ PageKnows'
  BY DEF IInv, Claimed, Busy, PageKnows, StartMarked
<1> QED BY <1>2, <1>3, <1>4 DEF IInv, Claimed, StartMarked

\* A job that could not be published has ended.
LEMMA StartUndoneKeeps == ASSUME IInv, StartUndone PROVE IInv'
<1>1. troubles' \in 0 .. MaxTroubles
  BY TroubleCounts DEF IInv, StartUndone
<1>2. CASE start = "marked"
  <2>1. \/ mine = "none" /\ UNCHANGED <<latestJob, claims, loads>>
        \/ JobEnds("failed")
    BY <1>2 DEF StartUndone
  <2>2. ServerOK' /\ PageOK'
    BY <1>1, <1>2, <2>1 DEF IInv, TypeOK, ServerOK, PageOK, StartUndone, JobEnds, page, JobStatus
  <2>3. CASE mine = "none" /\ UNCHANGED <<latestJob, claims, loads>>
    BY <2>2, <2>3 DEF IInv, TypeOK, ServerOK, PageOK, claims
  <2>4. CASE JobEnds("failed")
    BY <2>2, <2>4, JobEndsKeeps DEF JobStatus
  <2> QED BY <2>1, <2>3, <2>4
<1>3. CASE start = "undoing"
  <2>1. TypeOK'
    BY <1>3 DEF IInv, TypeOK, StartUndone, Exists, VideoStatus, page, claims
  <2>2. ~(mine = "busy")'
    BY <1>3 DEF IInv, Claimed, Busy, StartUndone, claims
  <2> QED BY <2>1, <2>2 DEF IInv
<1> QED BY <1>2, <1>3 DEF StartUndone

\* The answer to the start is what the page knows from then on.
LEMMA StartAnsweredKeeps == ASSUME IInv, StartAnswered PROVE IInv'
<1>1. TypeOK'
  <2>1. loads' \in Seq(LoadState)
    BY DEF IInv, TypeOK, StartAnswered
  <2>2. StatusesOK'
    BY DEF IInv, TypeOK, StatusesOK, ServerOK, StartAnswered, server, VideoStatus, JobStatus
  <2>3. FlagsOK'
    BY Zenon DEF IInv, TypeOK, FlagsOK, StartAnswered
  <2> QED BY <2>1, <2>2, <2>3 DEF TypeOK, StatusesOK, ServerOK, FlagsOK
<1>2. mine = "busy" => Claimed'
  BY DEF IInv, Claimed, Busy, AnswersTell, PageKnows, StartAnswered, server
<1> QED BY <1>1, <1>2 DEF IInv, StartAnswered

\* A start that failed is nothing to count on.
LEMMA StartFailsKeeps == ASSUME IInv, StartFails PROVE IInv'
<1>1. troubles' \in 0 .. MaxTroubles
  BY TroubleCounts DEF IInv, StartFails
<1>2. ServerOK' /\ PageOK'
  BY <1>1 DEF IInv, TypeOK, ServerOK, PageOK, StartFails, server
<1> QED BY <1>2, ForgetKeeps DEF StartFails

-----------------------------------------------------------------------------
(* The invariant                                                           *)

\* It holds at first.
LEMMA InitHolds == Init => IInv
<1> SUFFICES ASSUME Init PROVE IInv
  OBVIOUS
<1>1. NewLoad \in LoadState
  BY DEF NewLoad, LoadState, LoadIn
<1>2. TypeOK
  <2>1. loads \in Seq(LoadState) /\ troubles \in 0 .. MaxTroubles
    BY <1>1, DetailAssumption DEF Init
  <2>2. row \in VideoStatus \cup {"deleted"} /\ latestJob \in JobStatus \cup {None}
    BY DEF Init, VideoStatus, JobStatus
  <2> QED BY <2>1, <2>2 DEF Init, TypeOK
<1> QED BY <1>2 DEF IInv, Init

\* Every step keeps it.
LEMMA StepKeeps == IInv /\ [Next]_vars => IInv'
<1> SUFFICES ASSUME IInv, [Next]_vars PROVE IInv'
  OBVIOUS
<1>1. ASSUME NEW l \in DOMAIN loads, LoadStep(l) PROVE IInv'
  BY <1>1, ServedKeeps, VideoAnsweredKeeps, JobAnsweredKeeps, TextKeeps, VideoFailsKeeps, JobFailsKeeps
     DEF LoadStep, LoadServed, LoadAnswered, LoadFails
<1>2. CASE WorkerStep
  BY <1>2, ClaimJobKeeps, ClaimVideoKeeps, PersistedKeeps, FailJobKeeps, FailVideoKeeps, WorkerCrashesKeeps
     DEF WorkerStep
<1>3. CASE OtherStep
  BY <1>3, OlderJobWritesKeeps, UploadCompletedKeeps, ElsewhereKeeps, DeletedKeeps DEF OtherStep
<1>4. CASE StartStep
  BY <1>4, AskedKeeps, StartInsertedKeeps, StartMarkedKeeps, StartUndoneKeeps, StartAnsweredKeeps, StartFailsKeeps
     DEF StartStep, StartServed
<1>5. CASE UNCHANGED vars
  BY <1>5 DEF vars, IInv, TypeOK, Claimed, Busy, AnswersTell, PageKnows
<1> QED BY <1>1, <1>2, <1>3, <1>4, <1>5, loadDataKeeps, AskedKeeps DEF Next, Poll, RefreshClicked

\* The inductive invariant holds.
THEOREM Invariance == Spec => []IInv
<1> QED BY InitHolds, StepKeeps, PTL DEF Spec

\* Every variable stays in its set.
THEOREM TypeCorrect == Spec => []TypeOK
<1>1. IInv => TypeOK BY DEF IInv
<1> QED BY <1>1, Invariance, PTL

\* The page polls until the job it has started has ended, however many loads overlap and
\* whatever other jobs of the video do, unless it is wrong about the job and the video.
THEOREM KeepsPolling == Spec => []PollsUntilTheEnd
<1>1. IInv => PollsUntilTheEnd
  BY DEF IInv, Claimed, PageKnows, PollsUntilTheEnd, Started, isProcessing
<1> QED BY <1>1, Invariance, PTL

\* Meanwhile it offers another start only after a late answer or the write of an earlier job.
THEOREM StartedOnce == Spec => []NoSecondStart
<1>1. IInv => NoSecondStart
  BY DEF IInv, Claimed, PageKnows, NoSecondStart, Started, TranscribeOffered
<1> QED BY <1>1, Invariance, PTL
=============================================================================
