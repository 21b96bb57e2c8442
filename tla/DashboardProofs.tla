--------------------------- MODULE DashboardProofs ---------------------------
(***************************************************************************)
(* That the safety properties of DashboardPage hold for any number of      *)
(* videos, list requests, retries and lost requests.                       *)
(***************************************************************************)
EXTENDS DashboardPage, TLAPS

\* A deletion that was confirmed is final; one on its way has a video.
DeletionOK ==
  /\ deletion.pc # "idle" => deletion.video \in Videos
  /\ deletion.pc = "done" => row[deletion.video] = "deleted"
  /\ \A v \in erased : row[v] = "deleted"

\* Nothing is known of a video that does not exist yet.
AbsentUnknown ==
  \A v \in Videos : row[v] = "absent" =>
    /\ fetched[v] = None /\ added[v] = None
    /\ \A i \in DOMAIN answers : answers[i].cards[v] = None
    /\ confirm # v /\ deletion.video # v

\* The upload's video is new, comes into being by its first call, is complete after its
\* second, and cannot be deleted here before onSuccess.
UploadOK ==
  /\ upload.pc # "closed" => confirm = None
  /\ uploading =>
       /\ ~upload.error
       /\ upload.video \in Videos \ erased
       /\ deletion.video # upload.video
       /\ (upload.pc = "url") = (row[upload.video] = "absent")
       /\ upload.pc \in {"start", "ready"} => row[upload.video] # "uploading"
  /\ upload.error => ~upload.started

\* A list that has what is erased has missed that, and so have the cards shown.
ListsOK ==
  /\ \A i \in DOMAIN answers : \A v \in erased \ answers[i].late : answers[i].cards[v] = None
  /\ \A v \in erased \ stale : fetched[v] = None /\ added[v] = None

IInv == TypeOK /\ DeletionOK /\ AbsentUnknown /\ UploadOK /\ ListsOK

Answer == [cards : CardsOf, late : SUBSET Videos]

\* The lists on their way are a sequence of answers.
LEMMA AnswersAreAnswers ==
  ASSUME TypeOK
  PROVE  /\ Len(answers) \in Nat /\ DOMAIN answers = 1 .. Len(answers)
         /\ \A i \in DOMAIN answers : answers[i] \in Answer
<1>1. answers \in Seq(Answer)
  BY DEF TypeOK, Answer
<1> QED BY <1>1

\* An answer may miss something.
LEMMA LateIsAnswer ==
  ASSUME NEW answer \in Answer, NEW late \in SUBSET Videos
  PROVE  /\ [answer EXCEPT !.late = late] \in Answer
         /\ [answer EXCEPT !.late = late].cards = answer.cards
         /\ [answer EXCEPT !.late = late].late = late
BY DEF Answer

\* What marking a video does to the lists on their way.
LEMMA MarkLateMarks ==
  ASSUME TypeOK, NEW v \in Videos, MarkLate(v)
  PROVE  /\ answers' \in Seq(Answer) /\ DOMAIN answers' = DOMAIN answers
         /\ \A i \in DOMAIN answers : /\ answers'[i].cards = answers[i].cards
                                     /\ answers'[i].late = answers[i].late \cup {v}
<1> DEFINE after == [i \in DOMAIN answers |-> [answers[i] EXCEPT !.late = @ \cup {v}]]
<1>1. Len(answers) \in Nat /\ DOMAIN answers = 1 .. Len(answers)
  BY AnswersAreAnswers
<1>2. \A i \in DOMAIN answers :
        /\ after[i] \in Answer /\ after[i].cards = answers[i].cards
        /\ after[i].late = answers[i].late \cup {v}
  <2> TAKE i \in DOMAIN answers
  <2> DEFINE late == answers[i].late \cup {v}
  <2>1. after[i] = [answers[i] EXCEPT !.late = late] /\ answers[i] \in Answer
    BY AnswersAreAnswers
  <2>2. late \in SUBSET Videos
    BY <2>1 DEF Answer
  <2> HIDE DEF late, after
  <2>3. after[i] \in Answer /\ after[i].cards = answers[i].cards /\ after[i].late = late
    BY <2>1, <2>2, LateIsAnswer
  <2> QED BY <2>3 DEF late
<1>3. answers' = after /\ after = [i \in 1 .. Len(answers) |-> after[i]]
  BY <1>1 DEF MarkLate
<1> HIDE DEF after
<1>4. after \in [1 .. Len(answers) -> Answer]
  BY <1>1, <1>2, <1>3
<1>5. after \in Seq(Answer) /\ DOMAIN after = DOMAIN answers
  BY <1>1, <1>4
<1> QED BY <1>2, <1>3, <1>5

\* A row that changes takes no mark away.
LEMMA SetRowMarks ==
  ASSUME TypeOK, NEW v \in Videos, NEW status,
         SetRow(v, status) \/ UNCHANGED <<row, stale, answers>>
  PROVE  /\ stale' \in SUBSET Videos /\ stale \subseteq stale'
         /\ answers' \in Seq(Answer) /\ DOMAIN answers' = DOMAIN answers
         /\ \A i \in DOMAIN answers : /\ answers'[i].cards = answers[i].cards
                                     /\ answers[i].late \subseteq answers'[i].late
<1>1. stale \in SUBSET Videos /\ answers \in Seq(Answer)
  BY DEF TypeOK, Answer
<1>2. CASE SetRow(v, status) /\ row[v] \in Unwatched /\ status # row[v]
  BY <1>1, <1>2, MarkLateMarks DEF SetRow
<1>3. CASE UNCHANGED <<stale, answers>>
  BY <1>1, <1>3
<1> QED BY <1>2, <1>3 DEF SetRow

-----------------------------------------------------------------------------
(* Steps of others                                                         *)

\* More marks leave less to know.
LEMMA ListsKept ==
  ASSUME ListsOK, UNCHANGED <<fetched, added, erased>>, stale \subseteq stale',
         DOMAIN answers' = DOMAIN answers,
         \A i \in DOMAIN answers : /\ answers'[i].cards = answers[i].cards
                                 /\ answers[i].late \subseteq answers'[i].late
  PROVE  ListsOK'
BY DEF ListsOK

\* The row of a video that exists changes, to what no upload waits for.
LEMMA RowKeeps ==
  ASSUME IInv, NEW v \in Videos, Exists(v), NEW status \in {"processing", "completed", "failed", "deleted"},
         SetRow(v, status), UNCHANGED <<page, asked, confirm, upload>>,
         UNCHANGED deletion \/ (deletion.video = v /\ status = "deleted" /\ deletion' = [deletion EXCEPT !.pc = "done"]),
         retries' \in 0 .. MaxRetries, lost' = lost
  PROVE  IInv'
<1>0. /\ stale' \in SUBSET Videos /\ stale \subseteq stale'
      /\ answers' \in Seq(Answer) /\ DOMAIN answers' = DOMAIN answers
      /\ \A i \in DOMAIN answers : /\ answers'[i].cards = answers[i].cards
                                  /\ answers[i].late \subseteq answers'[i].late
  BY SetRowMarks DEF IInv
<1>1. TypeOK'
  BY <1>0 DEF IInv, TypeOK, SetRow, RowStatus, Status, page, Answer
<1>2. DeletionOK' /\ AbsentUnknown' /\ ListsOK'
  <2>1. DeletionOK'
    BY DEF IInv, TypeOK, DeletionOK, SetRow, Exists, Status, page
  <2>2. AbsentUnknown'
    BY <1>0 DEF IInv, TypeOK, DeletionOK, AbsentUnknown, SetRow, Exists, Status, page
  <2>3. ListsOK'
    BY <1>0 DEF IInv, TypeOK, ListsOK, page
  <2> QED BY <2>1, <2>2, <2>3
<1>3. UploadOK'
  BY DEF IInv, TypeOK, UploadOK, uploading, SetRow, Exists, Status, page
<1> QED BY <1>1, <1>2, <1>3 DEF IInv

-----------------------------------------------------------------------------
(* The list                                                                *)

\* A list that is asked for changes nothing yet.
LEMMA fetchVideosKeeps ==
  ASSUME IInv, fetchVideos
  PROVE  IInv'
<1>1. TypeOK'
  BY DashboardAssumption DEF IInv, TypeOK, fetchVideos, cards, page, lists, dialogues
<1>2. DeletionOK' /\ AbsentUnknown' /\ ListsOK'
  BY DashboardAssumption DEF IInv, TypeOK, DeletionOK, AbsentUnknown, ListsOK, fetchVideos, cards, page, lists, dialogues
<1>3. UploadOK'
  BY DashboardAssumption DEF IInv, TypeOK, DeletionOK, AbsentUnknown, UploadOK, uploading, fetchVideos, cards, page, lists, dialogues
<1> QED BY <1>1, <1>2, <1>3 DEF IInv

\* A list that is served knows no erased video, and none to come.
LEMMA ListServedKeeps ==
  ASSUME IInv, ListServed
  PROVE  IInv'
<1>1. TypeOK'
  BY DashboardAssumption DEF IInv, TypeOK, ListServed, Exists, CardsOf, CardStatus, Status, RowStatus, cards, page, lists, dialogues
<1>2. DeletionOK' /\ AbsentUnknown' /\ ListsOK'
  BY DashboardAssumption DEF IInv, TypeOK, DeletionOK, AbsentUnknown, ListsOK, ListServed, Exists, CardsOf, CardStatus, Status, RowStatus, cards, page, lists, dialogues
<1>3. UploadOK'
  BY DashboardAssumption DEF IInv, TypeOK, DeletionOK, AbsentUnknown, UploadOK, uploading, ListServed, Exists, CardsOf, CardStatus, Status, RowStatus, cards, page, lists, dialogues
<1> QED BY <1>1, <1>2, <1>3 DEF IInv

\* What is left of a sequence was there before.
LEMMA RemoveAtRange ==
  ASSUME NEW S, NEW s \in Seq(S), NEW i \in DOMAIN s
  PROVE  /\ RemoveAt(s, i) \in Seq(S)
         /\ \A k \in DOMAIN RemoveAt(s, i) : \E m \in DOMAIN s : RemoveAt(s, i)[k] = s[m]
<1> DEFINE before == SubSeq(s, 1, i - 1)
           after == SubSeq(s, i + 1, Len(s))
<1>1. i \in 1 .. Len(s) /\ Len(s) \in Nat
  OBVIOUS
<1>2. /\ before \in Seq(S) /\ Len(before) = i - 1
      /\ \A k \in 1 .. i - 1 : before[k] = s[k]
  BY <1>1
<1>3. /\ after \in Seq(S) /\ Len(after) = Len(s) - i
      /\ \A k \in 1 .. Len(s) - i : after[k] = s[i + k]
  BY <1>1
<1>4. RemoveAt(s, i) = before \o after
  BY DEF RemoveAt
<1> HIDE DEF before, after
<1>5. before \o after \in Seq(S) /\ Len(before \o after) = Len(s) - 1
  BY <1>1, <1>2, <1>3
<1>6. \A k \in 1 .. Len(s) - 1 : (before \o after)[k] = IF k < i THEN s[k] ELSE s[k + 1]
  <2> TAKE k \in 1 .. Len(s) - 1
  <2>1. CASE k < i BY <1>1, <1>2, <1>3, <2>1
  <2>2. CASE ~(k < i)
    <3>1. (before \o after)[k] = after[k - Len(before)] BY <1>1, <1>2, <1>3, <2>2
    <3>2. k - Len(before) \in 1 .. Len(s) - i /\ i + (k - Len(before)) = k + 1 BY <1>1, <1>2, <2>2
    <3> QED BY <1>3, <2>2, <3>1, <3>2
  <2> QED BY <2>1, <2>2
<1>7. DOMAIN (before \o after) = 1 .. Len(s) - 1 /\ \A k \in 1 .. Len(s) - 1 : {k, k + 1} \subseteq DOMAIN s
  BY <1>1, <1>5
<1> QED BY <1>4, <1>5, <1>6, <1>7

\* A list that is shown knows no erased video, or has missed that.
LEMMA ListAnsweredKeeps ==
  ASSUME IInv, NEW i \in DOMAIN answers, ListAnswered(i)
  PROVE  IInv'
<1>0. /\ answers[i] \in Answer /\ answers' \in Seq(Answer)
      /\ \A k \in DOMAIN answers' : \E m \in DOMAIN answers : answers'[k] = answers[m]
  BY AnswersAreAnswers, RemoveAtRange DEF IInv, TypeOK, Answer, ListAnswered
<1>1. TypeOK'
  <2>1. answers[i].cards \in CardsOf /\ answers[i].late \in SUBSET Videos /\ NoCards \in CardsOf
    BY <1>0 DEF Answer, CardsOf, CardStatus, NoCards
  <2> QED BY <1>0, <2>1 DEF IInv, TypeOK, Answer, ListAnswered, dialogues
<1>2. DeletionOK' /\ AbsentUnknown' /\ ListsOK'
  <2>1. DeletionOK'
    BY DEF IInv, DeletionOK, ListAnswered, dialogues
  <2>2. AbsentUnknown'
    BY <1>0 DEF IInv, AbsentUnknown, ListAnswered, NoCards, dialogues
  <2>3. /\ fetched' = answers[i].cards /\ stale' = answers[i].late /\ erased' = erased
        /\ \A v \in erased : added'[v] = None
    BY DEF IInv, TypeOK, ListAnswered, NoCards
  <2>4. ListsOK'
    BY <1>0, <2>3 DEF IInv, ListsOK
  <2> QED BY <2>1, <2>2, <2>4
<1>3. UploadOK'
  BY DEF IInv, UploadOK, uploading, ListAnswered, dialogues
<1> QED BY <1>1, <1>2, <1>3 DEF IInv

\* A list that gets lost leaves the page as it is.
LEMMA ListFailsKeeps ==
  ASSUME IInv, ListFails
  PROVE  IInv'
<1>1. TypeOK'
  <2>1. answers' \in Seq(Answer) /\ asked' \in Nat
    BY RemoveAtRange DEF IInv, TypeOK, Answer, ListFails
  <2>2. lost' \in 0 .. MaxLost /\ loading' = FALSE /\ UNCHANGED <<row, retries, fetched, added, stale, erased, dialogues>>
    BY DashboardAssumption DEF IInv, TypeOK, ListFails
  <2> QED BY <2>1, <2>2 DEF IInv, TypeOK, Answer, dialogues
<1>2. DeletionOK' /\ AbsentUnknown' /\ ListsOK'
  <2>1. \A i \in DOMAIN answers' : \E k \in DOMAIN answers : answers'[i] = answers[k]
    BY RemoveAtRange DEF IInv, TypeOK, ListFails
  <2> QED BY <2>1 DEF IInv, DeletionOK, AbsentUnknown, ListsOK, ListFails, dialogues
<1>3. UploadOK'
  BY DashboardAssumption DEF IInv, TypeOK, DeletionOK, AbsentUnknown, UploadOK, uploading, ListFails, cards, page, lists, dialogues
<1> QED BY <1>1, <1>2, <1>3 DEF IInv

-----------------------------------------------------------------------------
(* Deleting                                                                *)

\* Only what has a card can be deleted.
LEMMA AskDeleteKeeps ==
  ASSUME IInv, NEW v \in Videos, AskDelete(v)
  PROVE  IInv'
<1>1. TypeOK'
  BY DashboardAssumption DEF IInv, TypeOK, AskDelete, filteredVideos, Filters, HasCard, Shown, NoDialogue, cards, page, lists, dialogues
<1>2. DeletionOK' /\ AbsentUnknown' /\ ListsOK'
  BY DashboardAssumption DEF IInv, TypeOK, DeletionOK, AbsentUnknown, ListsOK, AskDelete, filteredVideos, Filters, HasCard, Shown, NoDialogue, cards, page, lists, dialogues
<1>3. UploadOK'
  BY DashboardAssumption DEF IInv, TypeOK, DeletionOK, AbsentUnknown, UploadOK, uploading, AskDelete, filteredVideos, Filters, HasCard, Shown, NoDialogue, cards, page, lists, dialogues
<1> QED BY <1>1, <1>2, <1>3 DEF IInv

\* Closing the dialogue cancels nothing.
LEMMA CancelDeleteKeeps ==
  ASSUME IInv, CancelDelete
  PROVE  IInv'
<1>1. TypeOK'
  BY DashboardAssumption DEF IInv, TypeOK, CancelDelete, cards, page, lists, dialogues
<1>2. DeletionOK' /\ AbsentUnknown' /\ ListsOK'
  BY DashboardAssumption DEF IInv, TypeOK, DeletionOK, AbsentUnknown, ListsOK, CancelDelete, cards, page, lists, dialogues
<1>3. UploadOK'
  BY DashboardAssumption DEF IInv, TypeOK, DeletionOK, AbsentUnknown, UploadOK, uploading, CancelDelete, cards, page, lists, dialogues
<1> QED BY <1>1, <1>2, <1>3 DEF IInv

\* The video asked about is the one deleted.
LEMMA handleDeleteKeeps ==
  ASSUME IInv, handleDelete
  PROVE  IInv'
<1>1. TypeOK'
  BY DashboardAssumption DEF IInv, TypeOK, handleDelete, NoDeletion, cards, page, lists, dialogues
<1>2. DeletionOK' /\ AbsentUnknown' /\ ListsOK'
  BY DashboardAssumption DEF IInv, TypeOK, DeletionOK, AbsentUnknown, ListsOK, handleDelete, NoDeletion, cards, page, lists, dialogues
<1>3. UploadOK'
  BY DashboardAssumption DEF IInv, TypeOK, DeletionOK, AbsentUnknown, UploadOK, uploading, handleDelete, NoDeletion, cards, page, lists, dialogues
<1> QED BY <1>1, <1>2, <1>3 DEF IInv

\* No card of an erased video is left, and the lists that have one have missed that.
LEMMA DeleteAnsweredKeeps ==
  ASSUME IInv, DeleteAnswered
  PROVE  IInv'
<1>0. deletion.video \in Videos /\ row[deletion.video] = "deleted" /\ None \notin Videos
  BY DashboardAssumption DEF IInv, DeletionOK, DeleteAnswered
<1>1. /\ answers' \in Seq(Answer)
      /\ DOMAIN answers' = DOMAIN answers
      /\ \A i \in DOMAIN answers : /\ answers'[i].cards = answers[i].cards
                                  /\ answers'[i].late = answers[i].late \cup {deletion.video}
  BY <1>0, MarkLateMarks DEF IInv, DeleteAnswered
<1>2. /\ fetched'[deletion.video] = None /\ added'[deletion.video] = None
      /\ \A v \in Videos \ {deletion.video} : fetched'[v] = fetched[v] /\ added'[v] = added[v]
  BY <1>0 DEF IInv, TypeOK, CardsOf, DeleteAnswered
<1>3. TypeOK'
  <2>1. fetched' \in CardsOf /\ added' \in CardsOf
    BY DEF IInv, TypeOK, DeleteAnswered, CardsOf, CardStatus
  <2> QED BY <1>0, <1>1, <2>1 DEF IInv, TypeOK, Answer, DeleteAnswered, NoDeletion
<1>4. DeletionOK'
  BY <1>0 DEF IInv, TypeOK, DeletionOK, DeleteAnswered, NoDeletion
<1>5. AbsentUnknown'
  BY <1>0, <1>1, <1>2 DEF IInv, AbsentUnknown, DeleteAnswered, NoDeletion
<1>6. ListsOK'
  <2>1. \A i \in DOMAIN answers' : \A v \in erased' \ answers'[i].late : answers'[i].cards[v] = None
    BY <1>1 DEF IInv, ListsOK, DeleteAnswered
  <2>2. \A v \in erased' \ stale' : fetched'[v] = None /\ added'[v] = None
    BY <1>2 DEF IInv, TypeOK, ListsOK, DeleteAnswered
  <2> QED BY <2>1, <2>2 DEF ListsOK
<1>7. UploadOK'
  BY DashboardAssumption DEF IInv, UploadOK, uploading, DeleteAnswered, NoDeletion
<1> QED BY <1>3, <1>4, <1>5, <1>6, <1>7 DEF IInv

\* A failed deletion erases nothing for this page.
LEMMA DeleteFailsKeeps ==
  ASSUME IInv, DeleteFails
  PROVE  IInv'
<1>1. TypeOK'
  BY DashboardAssumption DEF IInv, TypeOK, DeleteFails, NoDeletion, cards, page, lists, dialogues
<1>2. DeletionOK' /\ AbsentUnknown' /\ ListsOK'
  BY DashboardAssumption DEF IInv, TypeOK, DeletionOK, AbsentUnknown, ListsOK, DeleteFails, NoDeletion, cards, page, lists, dialogues
<1>3. UploadOK'
  BY DashboardAssumption DEF IInv, TypeOK, DeletionOK, AbsentUnknown, UploadOK, uploading, DeleteFails, NoDeletion, cards, page, lists, dialogues
<1> QED BY <1>1, <1>2, <1>3 DEF IInv

-----------------------------------------------------------------------------
(* Uploading                                                               *)

\* The dialogue opens alone.
LEMMA OpenUploadKeeps ==
  ASSUME IInv, OpenUpload
  PROVE  IInv'
<1>1. TypeOK'
  BY DashboardAssumption DEF IInv, TypeOK, OpenUpload, Closed, NoDialogue, CardStatus, cards, page, lists, dialogues
<1>2. DeletionOK' /\ AbsentUnknown' /\ ListsOK'
  BY DashboardAssumption DEF IInv, TypeOK, DeletionOK, AbsentUnknown, ListsOK, OpenUpload, Closed, NoDialogue, CardStatus, cards, page, lists, dialogues
<1>3. UploadOK'
  BY DashboardAssumption DEF IInv, TypeOK, DeletionOK, AbsentUnknown, UploadOK, uploading, OpenUpload, Closed, NoDialogue, CardStatus, cards, page, lists, dialogues
<1> QED BY <1>1, <1>2, <1>3 DEF IInv

\* The dialogue closes.
LEMMA CloseUploadKeeps ==
  ASSUME IInv, CloseUpload
  PROVE  IInv'
<1>1. TypeOK'
  BY DashboardAssumption DEF IInv, TypeOK, CloseUpload, Closed, CardStatus, cards, page, lists, dialogues
<1>2. DeletionOK' /\ AbsentUnknown' /\ ListsOK'
  BY DashboardAssumption DEF IInv, TypeOK, DeletionOK, AbsentUnknown, ListsOK, CloseUpload, Closed, CardStatus, cards, page, lists, dialogues
<1>3. UploadOK'
  BY DashboardAssumption DEF IInv, TypeOK, DeletionOK, AbsentUnknown, UploadOK, uploading, CloseUpload, Closed, CardStatus, cards, page, lists, dialogues
<1> QED BY <1>1, <1>2, <1>3 DEF IInv

\* The upload's video does not exist yet.
LEMMA handleUploadKeeps ==
  ASSUME IInv, NEW v \in Videos, handleUpload(v)
  PROVE  IInv'
<1>1. TypeOK'
  BY DashboardAssumption DEF IInv, TypeOK, handleUpload, Closed, CardStatus, cards, page, lists, dialogues
<1>2. DeletionOK' /\ AbsentUnknown' /\ ListsOK'
  BY DashboardAssumption DEF IInv, TypeOK, DeletionOK, AbsentUnknown, ListsOK, handleUpload, Closed, CardStatus, cards, page, lists, dialogues
<1>3. UploadOK'
  BY DashboardAssumption DEF IInv, TypeOK, DeletionOK, AbsentUnknown, UploadOK, uploading, handleUpload, Closed, CardStatus, cards, page, lists, dialogues
<1> QED BY <1>1, <1>2, <1>3 DEF IInv

\* What a call of an upload does to its row, if it reaches the server.
LEMMA ExecutedRow ==
  ASSUME IInv, Executed
  PROVE  /\ row' \in [Videos -> RowStatus] /\ upload.video \in Videos
         /\ \A v \in Videos \ {upload.video} : row'[v] = row[v]
         /\ row'[upload.video] # "absent"
         /\ row[upload.video] = "deleted" <=> row'[upload.video] = "deleted"
         /\ upload.pc # "url" => row'[upload.video] # "uploading"
         /\ upload.video \notin erased /\ deletion.video # upload.video
         /\ stale' \in SUBSET Videos /\ stale \subseteq stale'
         /\ answers' \in Seq(Answer) /\ DOMAIN answers' = DOMAIN answers
         /\ \A i \in DOMAIN answers : /\ answers'[i].cards = answers[i].cards
                                     /\ answers[i].late \subseteq answers'[i].late
<1>1. upload.video \in Videos
  BY DEF IInv, UploadOK, uploading, Executed
<1>2. row' = [row EXCEPT ![upload.video] = RowAfter(upload.pc, row[upload.video])]
  BY DEF Executed, SetRow
<1>3. row[upload.video] \in RowStatus
  BY <1>1 DEF IInv, TypeOK
<1>4. /\ RowAfter(upload.pc, row[upload.video]) \in RowStatus \ {"absent"}
      /\ row[upload.video] = "deleted" <=> RowAfter(upload.pc, row[upload.video]) = "deleted"
      /\ upload.pc # "url" => RowAfter(upload.pc, row[upload.video]) # "uploading"
  BY <1>1, <1>3 DEF IInv, UploadOK, uploading, Executed, RowAfter, RowStatus, Status
<1>5. upload.video \notin erased /\ deletion.video # upload.video
  BY DEF IInv, UploadOK, uploading, Executed
<1>6. /\ stale' \in SUBSET Videos /\ stale \subseteq stale'
      /\ answers' \in Seq(Answer) /\ DOMAIN answers' = DOMAIN answers
      /\ \A i \in DOMAIN answers : /\ answers'[i].cards = answers[i].cards
                                  /\ answers[i].late \subseteq answers'[i].late
  BY <1>1, SetRowMarks DEF IInv, Executed
<1> QED BY <1>1, <1>2, <1>4, <1>5, <1>6 DEF IInv, TypeOK

\* The first call makes the video.
LEMMA RequestUploadURLKeeps ==
  ASSUME IInv, RequestUploadURL
  PROVE  IInv'
<1> USE DEF RequestUploadURL
<1>1. TypeOK'
  BY ExecutedRow DEF IInv, TypeOK, Answer, page
<1>2. DeletionOK' /\ AbsentUnknown' /\ ListsOK'
  <2>1. DeletionOK'
    BY ExecutedRow DEF IInv, TypeOK, DeletionOK, page
  <2>2. AbsentUnknown'
    BY ExecutedRow DEF IInv, TypeOK, AbsentUnknown, page
  <2>3. ListsOK'
    BY ExecutedRow, ListsKept DEF IInv, page
  <2> QED BY <2>1, <2>2, <2>3
<1>3. UploadOK'
  BY ExecutedRow DEF IInv, TypeOK, UploadOK, uploading, page
<1> QED BY <1>1, <1>2, <1>3 DEF IInv

\* The second ends its upload.
LEMMA CompleteUploadKeeps ==
  ASSUME IInv, CompleteUpload
  PROVE  IInv'
<1> USE DEF CompleteUpload
<1>1. TypeOK'
  <2>1. row'[upload.video] \in CardStatus
    BY ExecutedRow DEF Exists, RowStatus, CardStatus, Status
  <2> QED BY <2>1, ExecutedRow DEF IInv, TypeOK, Answer, page
<1>2. DeletionOK' /\ AbsentUnknown' /\ ListsOK'
  <2>1. DeletionOK'
    BY ExecutedRow DEF IInv, TypeOK, DeletionOK, page
  <2>2. AbsentUnknown'
    BY ExecutedRow DEF IInv, TypeOK, AbsentUnknown, page
  <2>3. ListsOK'
    BY ExecutedRow, ListsKept DEF IInv, page
  <2> QED BY <2>1, <2>2, <2>3
<1>3. UploadOK'
  BY ExecutedRow DEF IInv, TypeOK, UploadOK, uploading, page
<1> QED BY <1>1, <1>2, <1>3 DEF IInv

\* The third may start its transcription.
LEMMA StartTranscriptionKeeps ==
  ASSUME IInv, StartTranscription
  PROVE  IInv'
<1> USE DEF StartTranscription
<1>1. TypeOK'
  BY ExecutedRow DEF IInv, TypeOK, Answer, page, Starts
<1>2. DeletionOK' /\ AbsentUnknown' /\ ListsOK'
  <2>1. DeletionOK'
    BY ExecutedRow DEF IInv, TypeOK, DeletionOK, page
  <2>2. AbsentUnknown'
    BY ExecutedRow DEF IInv, TypeOK, AbsentUnknown, page
  <2>3. ListsOK'
    BY ExecutedRow, ListsKept DEF IInv, page
  <2> QED BY <2>1, <2>2, <2>3
<1>3. UploadOK'
  BY ExecutedRow DEF IInv, TypeOK, UploadOK, uploading, page
<1> QED BY <1>1, <1>2, <1>3 DEF IInv

\* An upload whose video is gone fails.
LEMMA CompletionRefusedKeeps ==
  ASSUME IInv, CompletionRefused
  PROVE  IInv'
<1>1. TypeOK'
  BY DashboardAssumption DEF IInv, TypeOK, CompletionRefused, AttemptFails, ErrorsShown, cards, page, lists, dialogues
<1>2. DeletionOK' /\ AbsentUnknown' /\ ListsOK'
  BY DashboardAssumption DEF IInv, TypeOK, DeletionOK, AbsentUnknown, ListsOK, CompletionRefused, AttemptFails, ErrorsShown, cards, page, lists, dialogues
<1>3. UploadOK'
  BY DashboardAssumption DEF IInv, TypeOK, DeletionOK, AbsentUnknown, UploadOK, uploading, CompletionRefused, AttemptFails, ErrorsShown, cards, page, lists, dialogues
<1> QED BY <1>1, <1>2, <1>3 DEF IInv

UploadState ==
  [pc : {"closed", "open", "url", "complete", "start", "ready"},
   video : Videos \cup {None}, reply : CardStatus, started : BOOLEAN, error : BOOLEAN]

\* A failed attempt leaves the dialogue as it may be.
LEMMA AttemptFailsType ==
  ASSUME TypeOK, NEW begun \in BOOLEAN, AttemptFails(begun)
  PROVE  upload' \in UploadState
<1> DEFINE shown == upload.pc \in ErrorsShown
<1>1. upload \in UploadState
  BY DEF TypeOK, UploadState
<1>2. CASE shown
  <2>1. upload' = [upload EXCEPT !.pc = "open", !.error = TRUE, !.started = begun]
    BY <1>2 DEF AttemptFails
  <2> QED BY <1>1, <2>1 DEF UploadState
<1>3. CASE ~shown
  <2>1. upload' = [upload EXCEPT !.pc = "ready", !.error = FALSE, !.started = begun]
    <3>1. (upload.pc \in ErrorsShown) = FALSE
      BY <1>3
    <3> QED BY <3>1 DEF AttemptFails
  <2> QED BY <1>1, <2>1 DEF UploadState
<1> QED BY <1>2, <1>3

\* A call that gets lost may have done its part.
LEMMA UploadLostKeeps ==
  ASSUME IInv, UploadLost
  PROVE  IInv'
<1> USE DEF UploadLost, AttemptFails, ErrorsShown, Starts
<1>1. upload.video \in Videos
  BY DEF IInv, UploadOK, uploading
<1>2. TypeOK'
  <2>1. /\ row' \in [Videos -> RowStatus] /\ lost' \in 0 .. MaxLost
        /\ stale' \in SUBSET Videos /\ answers' \in Seq(Answer)
    BY ExecutedRow, DashboardAssumption DEF IInv, TypeOK, Answer
  <2>2. AttemptFails(FALSE) \/ AttemptFails(TRUE)
    BY DEF UploadLost
  <2>3. upload' \in UploadState
    BY <2>2, AttemptFailsType DEF IInv
  <2> QED BY <2>1, <2>3 DEF IInv, TypeOK, UploadState, page, Answer
<1>3. DeletionOK' /\ AbsentUnknown' /\ ListsOK'
  <2>1. DeletionOK'
    BY ExecutedRow DEF IInv, TypeOK, DeletionOK, page
  <2>2. AbsentUnknown'
    BY ExecutedRow DEF IInv, TypeOK, AbsentUnknown, page
  <2>3. ListsOK'
    BY ExecutedRow, ListsKept DEF IInv, page
  <2> QED BY <2>1, <2>2, <2>3
<1>4. UploadOK'
  BY <1>1, ExecutedRow DEF IInv, TypeOK, UploadOK, uploading, page
<1> QED BY <1>2, <1>3, <1>4 DEF IInv

\* The card of an upload is of a video that is not erased.
LEMMA onSuccessKeeps ==
  ASSUME IInv, onSuccess
  PROVE  IInv'
<1>1. TypeOK'
  BY DashboardAssumption DEF IInv, TypeOK, onSuccess, Closed, CardsOf, CardStatus, cards, page, lists, dialogues
<1>2. DeletionOK' /\ AbsentUnknown' /\ ListsOK'
  BY DashboardAssumption DEF IInv, TypeOK, DeletionOK, AbsentUnknown, UploadOK, uploading, ListsOK, onSuccess, Closed, CardsOf, CardStatus, cards, page, lists, dialogues
<1>3. UploadOK'
  BY DashboardAssumption DEF IInv, TypeOK, DeletionOK, AbsentUnknown, UploadOK, uploading, onSuccess, Closed, CardsOf, CardStatus, cards, page, lists, dialogues
<1> QED BY <1>1, <1>2, <1>3 DEF IInv

-----------------------------------------------------------------------------
(* The invariant                                                           *)

\* It holds at first.
LEMMA InitHolds == Init => IInv
<1> SUFFICES ASSUME Init PROVE IInv
  OBVIOUS
<1>1. row \in [Videos -> RowStatus]
  BY DEF Init, RowStatus
<1>2. TypeOK
  <2>1. NoCards \in CardsOf /\ Closed \in UploadState
    BY DEF NoCards, CardsOf, CardStatus, Closed, UploadState
  <2>2. answers \in Seq(Answer) /\ 0 \in 0 .. MaxRetries /\ 0 \in 0 .. MaxLost
    BY DashboardAssumption DEF Init
  <2> QED BY <1>1, <2>1, <2>2 DEF Init, TypeOK, Answer, UploadState, NoDeletion
<1>3. DeletionOK /\ AbsentUnknown /\ UploadOK /\ ListsOK
  BY DashboardAssumption
  DEF Init, DeletionOK, AbsentUnknown, UploadOK, ListsOK, uploading, NoCards, NoDeletion, Closed
<1> QED BY <1>2, <1>3 DEF IInv

\* What others do to a video keeps it.
LEMMA OthersKeep ==
  ASSUME IInv, NEW v \in Videos, WorkerEnds(v) \/ Retry(v) \/ Elsewhere(v)
  PROVE  IInv'
<1>1. row[v] \in RowStatus /\ retries \in 0 .. MaxRetries /\ MaxRetries \in Nat
  BY DashboardAssumption DEF IInv, TypeOK
<1>2. Exists(v) /\ \E status \in {"processing", "completed", "failed", "deleted"} : SetRow(v, status)
  BY DEF WorkerEnds, Retry, Elsewhere, Exists, Status
<1>3. /\ UNCHANGED <<page, asked, confirm, upload, deletion, lost>>
      /\ retries' \in 0 .. MaxRetries
  BY <1>1 DEF WorkerEnds, Retry, Elsewhere, dialogues
<1> QED BY <1>2, <1>3, RowKeeps

\* A deletion that is served is that of a video that exists.
LEMMA DeleteServedKeeps ==
  ASSUME IInv, DeleteServed
  PROVE  IInv'
<1>1. deletion.video \in Videos /\ retries \in 0 .. MaxRetries
  BY DEF IInv, TypeOK, DeletionOK, DeleteServed
<1>2. CASE Exists(deletion.video)
  BY <1>1, <1>2, RowKeeps DEF DeleteServed, page
<1>3. CASE ~Exists(deletion.video)
  BY <1>1, <1>3 DEF DeleteServed, IInv, TypeOK, DeletionOK, AbsentUnknown, UploadOK, ListsOK, uploading, page
<1> QED BY <1>2, <1>3

\* Every step keeps it.
LEMMA StepKeeps == IInv /\ [Next]_vars => IInv'
<1> SUFFICES ASSUME IInv, [Next]_vars PROVE IInv'
  OBVIOUS
<1>1. CASE Poll \/ ListStep \/ ListFails
  BY <1>1, fetchVideosKeeps, ListServedKeeps, ListAnsweredKeeps, ListFailsKeeps DEF Poll, ListStep
<1>2. CASE DeleteStep
  BY <1>2, DeleteServedKeeps, DeleteAnsweredKeeps, DeleteFailsKeeps DEF DeleteStep
<1>3. CASE UploadStep
  BY <1>3, RequestUploadURLKeeps, CompleteUploadKeeps, StartTranscriptionKeeps, CompletionRefusedKeeps,
     UploadLostKeeps, onSuccessKeeps DEF UploadStep
<1>4. CASE UserStep
  BY <1>4, fetchVideosKeeps, CancelDeleteKeeps, handleDeleteKeeps, OpenUploadKeeps, CloseUploadKeeps,
     AskDeleteKeeps, handleUploadKeeps DEF UserStep, RefreshClicked
<1>5. CASE UNCHANGED vars
  BY <1>5 DEF vars, IInv, TypeOK, DeletionOK, AbsentUnknown, UploadOK, ListsOK, uploading
<1> QED BY <1>1, <1>2, <1>3, <1>4, <1>5, OthersKeep DEF Next

\* The inductive invariant holds.
THEOREM Invariance == Spec => []IInv
<1> QED BY InitHolds, StepKeeps, PTL DEF Spec

\* Every variable stays in its set.
THEOREM TypeCorrect == Spec => []TypeOK
<1>1. IInv => TypeOK BY DEF IInv
<1> QED BY <1>1, Invariance, PTL

\* What was deleted comes back with a late list only.
THEOREM DeletedGone == Spec => []DeletedStaysGone
<1>1. IInv => DeletedStaysGone BY DEF IInv, TypeOK, ListsOK, DeletedStaysGone, HasCard, Shown
<1> QED BY <1>1, Invariance, PTL

\* The upload dialogue tells success and failure apart.
THEOREM OutcomeTold == Spec => []UploadOutcome
<1>1. IInv => UploadOutcome BY DEF IInv, UploadOK, UploadOutcome, uploading
<1> QED BY <1>1, Invariance, PTL
=============================================================================
