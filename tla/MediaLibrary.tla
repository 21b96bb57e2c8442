---------------------------- MODULE MediaLibrary ----------------------------
(***************************************************************************)
(* Catalogue and processing implement the video library: a row in status   *)
(* "uploading" is an expected video, one in any later status an offered    *)
(* one; an object with content is its file; the rows in transcripts and    *)
(* transcript_segments are its text. What requests hold between two calls, *)
(* and everything on disk, at AWS and under the audio and raw output keys  *)
(* must be a stuttering step.                                              *)
(***************************************************************************)
EXTENDS MediaProcessing

shelves ==
  [v \in Videos |-> CASE status[v] = "absent"    -> "unknown"
                      [] status[v] = "uploading" -> "expected"
                      [] status[v] = "removed"   -> "removed"
                      [] OTHER                   -> "offered"]

mediaFiles == {v \in Videos : file[v] = "media"}

texts == [v \in Videos |-> [job |-> transcript[v], words |-> segments[v]]]

Library == INSTANCE VideoLibrary
             WITH NoVideo <- "none", NoJob <- 0, shelf <- shelves, media <- mediaFiles,
                  discards <- discarded, asked <- jobVideo, text <- texts

\* However requests, workers and AWS overtake each other, crash and lose answers, a video is
\* offered, given whole texts made of itself, and lost, only as the library says.
LibrarySpec == Library!Spec

-----------------------------------------------------------------------------
(* The inductive strengthening of the refinement, besides MediaInv         *)

\* A browser that was given a URL has a row.
UploadsHaveRows == \A v \in Videos : browser[v] # "start" => status[v] # "absent"

\* The jobs still to be created have no video.
JobsAreNew == \A j \in Jobs : j > lastJob => jobVideo[j] = "none"

\* Although the jobs of a video share one output key, what lies there, and what a worker has
\* got, was heard in that video.
WordsStayWithVideo ==
  /\ \A v \in Videos : rawOutput[v] # 0 => jobVideo[rawOutput[v]] = v
  /\ \A w \in Workers : worker[w].text # 0 =>
       worker[w].pc # "idle" /\ jobVideo[worker[w].text] = VideoOf(w)

LibraryInv == UploadsHaveRows /\ JobsAreNew /\ WordsStayWithVideo
=============================================================================
