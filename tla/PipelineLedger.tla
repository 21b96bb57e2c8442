--------------------------- MODULE PipelineLedger ---------------------------
(***************************************************************************)
(* The pipeline implements the transcript ledger: a video row of any       *)
(* status is a stored video, an inserted job row is a request, and         *)
(* persistResults is the answer. Everything the queue, the workers and the *)
(* status columns do in between must be a stuttering step.                 *)
(***************************************************************************)
EXTENDS TranscriptionPipeline

storedVideos ==
  [v \in Videos |-> IF video[v] \in VideoStatus THEN "stored" ELSE video[v]]

Ledger == INSTANCE TranscriptLedger
            WITH Jobs <- JobIds, stored <- storedVideos,
                 requested <- jobVideo, ledger <- transcript

\* Whatever workers, deliveries and faults do, each video's transcript evolves as the
\* ledger says: answers to requests for that video only, never lost, never resurrected.
LedgerSpec == Ledger!Spec
=============================================================================
