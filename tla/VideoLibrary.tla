---------------------------- MODULE VideoLibrary ----------------------------
(***************************************************************************)
(* What the service promises to the owner of a video, without requests,    *)
(* statuses, workers or providers: a video is offered once its file has    *)
(* arrived, its file and its place are lost only when the owner has        *)
(* discarded it, and the text under it always is one whole text that was   *)
(* made of this video, published by a job that was asked for it.           *)
(***************************************************************************)
CONSTANTS Videos, Jobs, NoVideo, NoJob

VARIABLES
  shelf,     \* "unknown", "expected", "offered" or "removed", for each video
  media,     \* the videos whose file is there
  discards,  \* the videos that their owner has discarded
  asked,     \* the video each job was asked for, or NoVideo
  text       \* the job that published each video's text, and the job whose words it has

libraryVars == <<shelf, media, discards, asked, text>>

NoText == [job |-> NoJob, words |-> NoJob]

Init ==
  /\ shelf = [v \in Videos |-> "unknown"]
  /\ media = {}
  /\ discards = {}
  /\ asked = [j \in Jobs |-> NoVideo]
  /\ text = [v \in Videos |-> NoText]

Expect(v) ==
  /\ shelf[v] = "unknown"
  /\ shelf' = [shelf EXCEPT ![v] = "expected"]
  /\ UNCHANGED <<media, discards, asked, text>>

\* A file may still arrive when its video has been removed; it is then not offered.
Arrive(v) ==
  /\ shelf[v] # "unknown"
  /\ v \notin media
  /\ media' = media \cup {v}
  /\ UNCHANGED <<shelf, discards, asked, text>>

Offer(v) ==
  /\ shelf[v] = "expected"
  /\ v \in media \cup discards
  /\ shelf' = [shelf EXCEPT ![v] = "offered"]
  /\ UNCHANGED <<media, discards, asked, text>>

Ask(j, v) ==
  /\ shelf[v] = "offered"
  /\ asked[j] = NoVideo
  /\ asked' = [asked EXCEPT ![j] = v]
  /\ UNCHANGED <<shelf, media, discards, text>>

\* Publisher and words are replaced together; the words may be those of another job, but
\* only of one that was asked for the same video.
Publish(v, j, words) ==
  /\ shelf[v] = "offered"
  /\ asked[j] = v
  /\ asked[words] = v
  /\ text' = [text EXCEPT ![v] = [job |-> j, words |-> words]]
  /\ UNCHANGED <<shelf, media, discards, asked>>

Discard(v) ==
  /\ shelf[v] \in {"expected", "offered"}
  /\ discards' = discards \cup {v}
  /\ UNCHANGED <<shelf, media, asked, text>>

LoseFile(v) ==
  /\ v \in discards
  /\ media' = media \ {v}
  /\ UNCHANGED <<shelf, discards, asked, text>>

Remove(v) ==
  /\ v \in discards
  /\ shelf[v] \in {"expected", "offered"}
  /\ shelf' = [shelf EXCEPT ![v] = "removed"]
  /\ text' = [text EXCEPT ![v] = NoText]
  /\ UNCHANGED <<media, discards, asked>>

Next ==
  \E v \in Videos :
    \/ Expect(v) \/ Arrive(v) \/ Offer(v) \/ Discard(v) \/ LoseFile(v) \/ Remove(v)
    \/ \E j \in Jobs : Ask(j, v) \/ \E words \in Jobs : Publish(v, j, words)

Spec == Init /\ [][Next]_libraryVars
=============================================================================
