\* Two workers and AWS Transcribe; two jobs of one video; one fault of any kind.
SPECIFICATION Spec
CONSTANTS
  Videos = {v1}
  Requests = {r1}
  Workers = {w1, w2}
  MaxJobs = 2
  MaxAttempts = 1
  MaxReceives = 2
  MaxFaults = 1
  FaultKinds = {"worker", "queue", "api", "db"}
  MediaFails = FALSE
  CloudProvider = TRUE
  SharedQueue = TRUE
SYMMETRY ProcessSymmetry
INVARIANTS
  NoOrphanRows
  CompletedHasTranscript
  AcknowledgedIsSettled
  OneTranscriptionPerJob
PROPERTIES
  LedgerSpec
\* Bounded jobs: once they are done and the video is deleted, nothing is left to do.
CHECK_DEADLOCK FALSE
