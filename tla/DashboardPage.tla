--------------------------- MODULE DashboardPage ----------------------------
(***************************************************************************)
(* One visit to the dashboard: the list of videos, which is asked for on   *)
(* arrival, by a button and every three seconds while a card is active,    *)
(* the dialogue that deletes a video and the one that uploads one.  No     *)
(* request waits for another, so that answers arrive in any order; what    *)
(* happens to the videos meanwhile is up to the pipeline and other pages.  *)
(*                                                                         *)
(* Every list on its way, and the cards shown, are marked with the videos  *)
(* of which they have missed something: history, unknown to the page.      *)
(***************************************************************************)
EXTENDS Naturals, SequencesExt

CONSTANTS
  Videos,      \* ids of videos, fewer than the twenty of a page of the list
  MaxLists,    \* bound: how many list requests can be on their way at a time
  MaxRetries,  \* bound: how often videos are processed again
  MaxLost      \* bound: how many requests fail for no reason of their own

None == "none"
Status == {"uploading", "uploaded", "processing", "completed", "failed"}
RowStatus == Status \cup {"absent", "deleted"}
CardStatus == Status \cup {None}

ASSUME DashboardAssumption ==
  /\ MaxLists \in Nat \ {0}
  /\ MaxRetries \in Nat
  /\ MaxLost \in Nat
  /\ None \notin Videos

VARIABLES
  row,       \* videos.status of each video's row; "absent" before INSERT, "deleted" after DELETE
  retries,   \* videos processed again so far
  lost,      \* requests that failed for no reason of their own so far
  fetched,   \* videos: the cards of the last list
  added,     \* videos: the cards that onSuccess put in front since
  loading,
  asked,     \* how many list requests the server has yet to serve
  answers,   \* the lists on their way back, oldest first
  confirm,   \* deleteVideoId
  deletion,  \* the request of handleDelete, which is what deleting says
  upload,    \* the upload dialogue and handleUpload
  stale,     \* history: the videos of which the cards shown have missed something
  erased     \* history: the videos whose deletion this page has been told of

vars == <<row, retries, lost, fetched, added, loading, asked, answers, confirm, deletion, upload,
          stale, erased>>
page == <<fetched, added, loading, erased>>
cards == <<page, stale>>
lists == <<asked, answers>>
dialogues == <<confirm, deletion, upload>>

Exists(v) == row[v] \in Status
NoCards == [v \in Videos |-> None]
NoDeletion == [pc |-> "idle", video |-> None]
Closed == [pc |-> "closed", video |-> None, reply |-> None, started |-> FALSE, error |-> FALSE]

\* What the page does not watch: without a card, or with one that causes no polling.
Unwatched == {"absent", "completed", "failed"}

MarkLate(v) == answers' = [i \in DOMAIN answers |-> [answers[i] EXCEPT !.late = @ \cup {v}]]

\* Cards and lists from before a row leaves such a status have missed it.
SetRow(v, status) ==
  /\ row' = [row EXCEPT ![v] = status]
  /\ IF row[v] \in Unwatched /\ status # row[v]
     THEN stale' = stale \cup {v} /\ MarkLate(v)
     ELSE UNCHANGED <<stale, answers>>

Init ==
  /\ row \in [Videos -> Status \cup {"absent"}]
  /\ retries = 0 /\ lost = 0
  /\ fetched = NoCards /\ added = NoCards
  /\ loading = TRUE
  /\ asked = 1 /\ answers = <<>>
  /\ confirm = None
  /\ deletion = NoDeletion
  /\ upload = Closed
  /\ stale = Videos
  /\ erased = {}

-----------------------------------------------------------------------------
(* What the page shows                                                     *)

Shown(v) == {fetched[v], added[v]} \ {None}
HasCard(v) == Shown(v) # {}

\* The four pills; what the search field hides besides is left out.
Filters == {"all", "completed", "processing", "uploaded"}
filteredVideos(categoryFilter) ==
  {v \in Videos :
     CASE categoryFilter = "completed" -> "completed" \in Shown(v)
       [] categoryFilter = "processing" -> {"processing", "uploading"} \cap Shown(v) # {}
       [] categoryFilter = "uploaded" -> "uploaded" \in Shown(v)
       [] OTHER -> HasCard(v)}

Active(v) == Shown(v) \cap {"processing", "uploading", "uploaded"} # {}

\* Variant with a seeded bug, like those below: polling takes the pill's idea of processing.
hasActiveAsPill == \E v \in Videos : v \in filteredVideos("processing")

hasActive == \E v \in Videos : Active(v)

uploading == upload.pc \notin {"closed", "open"}
NoDialogue == confirm = None /\ upload.pc = "closed"

-----------------------------------------------------------------------------
(* Variants with a seeded bug. No action uses them: each stands for a      *)
(* plausible slip in the operation it is named after.                      *)

\* Only the first card of the video is taken out.
DeleteAnsweredFirst ==
  LET v == deletion.video IN
  /\ deletion.pc = "done"
  /\ fetched' = IF added[v] = None THEN [fetched EXCEPT ![v] = None] ELSE fetched
  /\ added' = [added EXCEPT ![v] = None]
  /\ erased' = erased \cup {v}
  /\ confirm' = None
  /\ deletion' = NoDeletion
  /\ stale' = stale \ {v}
  /\ MarkLate(v)
  /\ UNCHANGED <<row, retries, lost, loading, asked, upload>>

\* The attempt to start the transcription is not in a try of its own.
ErrorsOfAllCalls == {"url", "complete", "start"}

\* setUploading(false) is left to the case that all went well.
AttemptFailsLocked(begun) == upload' = [upload EXCEPT !.error = TRUE]

-----------------------------------------------------------------------------
(* The pipeline and other pages                                            *)

\* A worker ends with the video, for good or not.
WorkerEnds(v) ==
  /\ row[v] = "processing"
  /\ \E status \in {"completed", "failed"} : SetRow(v, status)
  /\ UNCHANGED <<retries, lost, page, asked, dialogues>>

\* A video is processed again, from its own page or by the redelivery of the message of a
\* job: the one that failed, or an older one whose transcript a later one has brought.
Retry(v) ==
  /\ row[v] \in {"completed", "failed"}
  /\ retries < MaxRetries
  /\ retries' = retries + 1
  /\ SetRow(v, "processing")
  /\ UNCHANGED <<lost, page, asked, dialogues>>

\* Another page starts the transcription of an uploaded video, or deletes one.
Elsewhere(v) ==
  /\ \/ row[v] = "uploaded" /\ SetRow(v, "processing")
     \/ Exists(v) /\ SetRow(v, "deleted")
  /\ UNCHANGED <<retries, lost, page, asked, dialogues>>

-----------------------------------------------------------------------------
(* The list                                                                *)

fetchVideos ==
  /\ asked + Len(answers) < MaxLists
  /\ asked' = asked + 1
  /\ UNCHANGED <<row, retries, lost, cards, answers, dialogues>>

RefreshClicked == NoDialogue /\ fetchVideos
Poll == hasActive /\ fetchVideos

ListServed ==
  /\ asked > 0
  /\ asked' = asked - 1
  /\ answers' = Append(answers,
       [cards |-> [v \in Videos |-> IF Exists(v) THEN row[v] ELSE None], late |-> {}])
  /\ UNCHANGED <<row, retries, lost, cards, dialogues>>

\* The list replaces whatever is shown, cards of uploads included.
ListAnswered(i) ==
  /\ fetched' = answers[i].cards
  /\ added' = NoCards
  /\ loading' = FALSE
  /\ stale' = answers[i].late
  /\ answers' = RemoveAt(answers, i)
  /\ UNCHANGED <<row, retries, lost, asked, dialogues, erased>>

\* An error is logged, and the cards stay as they are.
ListFails ==
  /\ lost < MaxLost
  /\ lost' = lost + 1
  /\ loading' = FALSE
  /\ \/ asked > 0 /\ asked' = asked - 1 /\ UNCHANGED answers
     \/ \E i \in DOMAIN answers : answers' = RemoveAt(answers, i) /\ UNCHANGED asked
  /\ UNCHANGED <<row, retries, fetched, added, stale, erased, dialogues>>

-----------------------------------------------------------------------------
(* Deleting                                                                *)

\* "Delete Video" in the menu of a card that some pill shows.
AskDelete(v) ==
  /\ NoDialogue
  /\ ~loading
  /\ \E categoryFilter \in Filters : v \in filteredVideos(categoryFilter)
  /\ confirm' = v
  /\ UNCHANGED <<row, retries, lost, cards, lists, deletion, upload>>

\* Nothing keeps the user from closing the dialogue while the request is on its way.
CancelDelete ==
  /\ confirm # None
  /\ confirm' = None
  /\ UNCHANGED <<row, retries, lost, cards, lists, deletion, upload>>

\* The button is disabled while it shows that it is loading.
handleDelete ==
  /\ confirm # None
  /\ deletion = NoDeletion
  /\ deletion' = [pc |-> "sent", video |-> confirm]
  /\ UNCHANGED <<row, retries, lost, cards, lists, confirm, upload>>

DeleteServed ==
  /\ deletion.pc = "sent"
  /\ IF Exists(deletion.video)
     THEN SetRow(deletion.video, "deleted") /\ deletion' = [deletion EXCEPT !.pc = "done"]
     ELSE deletion' = [deletion EXCEPT !.pc = "refused"] /\ UNCHANGED <<row, stale, answers>>
  /\ UNCHANGED <<retries, lost, page, asked, confirm, upload>>

\* The card goes, and whichever dialogue is open by now closes.
DeleteAnswered ==
  LET v == deletion.video IN
  /\ deletion.pc = "done"
  /\ fetched' = [fetched EXCEPT ![v] = None]
  /\ added' = [added EXCEPT ![v] = None]
  /\ erased' = erased \cup {v}
  /\ confirm' = None
  /\ deletion' = NoDeletion
  /\ stale' = stale \ {v}
  /\ MarkLate(v)
  /\ UNCHANGED <<row, retries, lost, loading, asked, upload>>

\* An error leaves the dialogue open and the card in place, even if the video is gone.
DeleteFails ==
  /\ \/ deletion.pc = "refused" /\ UNCHANGED lost
     \/ deletion.pc \in {"sent", "done"} /\ lost < MaxLost /\ lost' = lost + 1
  /\ deletion' = NoDeletion
  /\ UNCHANGED <<row, retries, cards, lists, confirm, upload>>

-----------------------------------------------------------------------------
(* Uploading: four calls in a row, each sent when the one before is answered. *)

\* The button appears when the pill and the search leave no card, as some search always does.
OpenUpload ==
  /\ NoDialogue
  /\ ~loading
  /\ upload' = [Closed EXCEPT !.pc = "open"]
  /\ UNCHANGED <<row, retries, lost, cards, lists, confirm, deletion>>

\* Neither the backdrop nor "Cancel" closes the dialogue during an upload.
CloseUpload ==
  /\ upload.pc = "open"
  /\ upload' = Closed
  /\ UNCHANGED <<row, retries, lost, cards, lists, confirm, deletion>>

\* A file has been chosen.  Every attempt asks for a video of its own.
handleUpload(v) ==
  /\ upload.pc = "open"
  /\ row[v] = "absent"
  /\ upload' = [Closed EXCEPT !.pc = "url", !.video = v]
  /\ UNCHANGED <<row, retries, lost, cards, lists, confirm, deletion>>

\* What a call makes of the video: the completion changes only a row that is still
\* "uploading", and the transcription is refused for one that is or is processed.
RowAfter(pc, status) ==
  CASE pc = "url" -> "uploading"
    [] pc = "complete" /\ status = "uploading" -> "uploaded"
    [] pc = "start" /\ status \in {"uploaded", "completed", "failed"} -> "processing"
    [] OTHER -> status

Executed ==
  /\ SetRow(upload.video, RowAfter(upload.pc, row[upload.video]))
  /\ upload.pc \in {"url", "complete", "start"}

Starts == upload.pc = "start" /\ row[upload.video] # row'[upload.video]

\* The file itself passes by the API, between the first call and the second.
RequestUploadURL ==
  /\ upload.pc = "url" /\ Executed
  /\ upload' = [upload EXCEPT !.pc = "complete"]
  /\ UNCHANGED <<retries, lost, page, asked, confirm, deletion>>

CompleteUpload ==
  /\ upload.pc = "complete" /\ Executed
  /\ Exists(upload.video)
  /\ upload' = [upload EXCEPT !.pc = "start", !.reply = row'[upload.video]]
  /\ UNCHANGED <<retries, lost, page, asked, confirm, deletion>>

\* 404 and 409 are errors, too, and errors of this call are only logged.
StartTranscription ==
  /\ upload.pc = "start" /\ Executed
  /\ upload' = [upload EXCEPT !.pc = "ready", !.started = Starts]
  /\ UNCHANGED <<retries, lost, page, asked, confirm, deletion>>

\* An error of the calls before is shown, and the file stays chosen for another attempt.
ErrorsShown == {"url", "complete"}

AttemptFails(begun) ==
  upload' = [upload EXCEPT !.pc = IF @ \in ErrorsShown THEN "open" ELSE "ready",
                           !.error = upload.pc \in ErrorsShown, !.started = begun]

\* The video has been deleted meanwhile.
CompletionRefused ==
  /\ upload.pc = "complete"
  /\ ~Exists(upload.video)
  /\ AttemptFails(FALSE)
  /\ UNCHANGED <<row, retries, lost, cards, lists, confirm, deletion>>

\* Any call, or the transfer of the file, fails: before the server did its part or after.
UploadLost ==
  /\ upload.pc \in {"url", "complete", "start"}
  /\ lost < MaxLost
  /\ lost' = lost + 1
  /\ UNCHANGED <<row, stale, answers>> \/ Executed
  /\ AttemptFails(Starts)
  /\ UNCHANGED <<retries, page, asked, confirm, deletion>>

\* After 700 ms onSuccess puts the video in front, as it was before the last call.
onSuccess ==
  /\ upload.pc = "ready"
  /\ added' = [added EXCEPT ![upload.video] = upload.reply]
  /\ upload' = Closed
  /\ stale' = IF upload.reply \in Unwatched THEN stale ELSE stale \ {upload.video}
  /\ UNCHANGED <<row, retries, lost, fetched, loading, erased, lists, confirm, deletion>>

-----------------------------------------------------------------------------

ListStep == ListServed \/ \E i \in DOMAIN answers : ListAnswered(i)
DeleteStep == DeleteServed \/ DeleteAnswered \/ DeleteFails
UploadStep ==
  \/ RequestUploadURL \/ CompleteUpload \/ StartTranscription
  \/ CompletionRefused \/ UploadLost \/ onSuccess
UserStep ==
  \/ RefreshClicked \/ CancelDelete \/ handleDelete \/ OpenUpload \/ CloseUpload
  \/ \E v \in Videos : AskDelete(v) \/ handleUpload(v)

Next ==
  \/ \E v \in Videos : WorkerEnds(v) \/ Retry(v) \/ Elsewhere(v)
  \/ Poll \/ ListStep \/ ListFails
  \/ DeleteStep
  \/ UploadStep
  \/ UserStep

Spec == Init /\ [][Next]_vars

\* The interval fires, requests are served and answers handled, the timer runs out.
\* Nothing makes a user act, a worker end, or a request fail.
Fairness ==
  /\ WF_vars(Poll)
  /\ WF_vars(ListStep)
  /\ WF_vars(DeleteStep)
  /\ WF_vars(UploadStep)

FairSpec == Spec /\ Fairness

-----------------------------------------------------------------------------
(* Properties                                                              *)

CardsOf == [Videos -> CardStatus]

\* Every variable stays in its set.
TypeOK ==
  /\ row \in [Videos -> RowStatus]
  /\ retries \in 0 .. MaxRetries /\ lost \in 0 .. MaxLost
  /\ fetched \in CardsOf /\ added \in CardsOf
  /\ loading \in BOOLEAN /\ stale \in SUBSET Videos
  /\ asked \in Nat
  /\ answers \in Seq([cards : CardsOf, late : SUBSET Videos])
  /\ confirm \in Videos \cup {None}
  /\ deletion \in [pc : {"idle", "sent", "done", "refused"}, video : Videos \cup {None}]
  /\ upload \in [pc : {"closed", "open", "url", "complete", "start", "ready"},
                 video : Videos \cup {None}, reply : CardStatus, started : BOOLEAN, error : BOOLEAN]
  /\ erased \in SUBSET Videos

\* A card whose deletion was confirmed comes back only with a list from before the
\* confirmation: neither a second card that an upload has left, nor a dialogue closed too
\* early, nor a deletion asked for twice brings it back.
DeletedStaysGone == \A v \in erased \ stale : ~HasCard(v)

\* "Success! Ready." is said of a video whose upload is complete (or that somebody has
\* deleted), and an error of an upload that was not handed to the workers: trying again
\* does not make a second transcript of the same file.
UploadOutcome ==
  /\ upload.pc = "ready" => row[upload.video] \notin {"absent", "uploading"}
  /\ upload.error => ~upload.started

\* In the long run the page shows every video once and as it is, no matter how lists
\* overtake each other and what else changes the videos. It comes to rest on anything else
\* only when no card causes polling any more and the cards shown are of before the video
\* was uploaded, left a status at which polling ends, or was deleted here: so a list from
\* before an upload that arrives after it hides the new card for good.
Twice(v) == fetched[v] # None /\ added[v] # None
Right(v) == ~Twice(v) /\ Shown(v) = IF Exists(v) THEN {row[v]} ELSE {}
CardsCatchUp == \A v \in Videos : <>[](Right(v) \/ (v \in stale /\ ~hasActive))

\* Every upload and every deletion gives its dialogue back to the user, who cannot close
\* the one during an upload nor press the button of the other.
DialoguesComeFree ==
  /\ uploading ~> ~uploading
  /\ deletion # NoDeletion ~> deletion = NoDeletion
=============================================================================
