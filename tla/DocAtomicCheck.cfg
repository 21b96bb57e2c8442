\* Two workers, no fault at all.
SPECIFICATION Spec
CONSTANTS
  Videos = {v1}
  Requests = {r1}
  Workers = {w1, w2}
  MaxJobs = 1
  MaxAttempts = 3
  MaxReceives = 3
  MaxFaults = 0
  FaultKinds = {}
  MediaFails = TRUE
  CloudProvider = FALSE
  SharedQueue = TRUE
PROPERTIES
  CompletedIsFinal
\* Bounded jobs: once they are done and the video is deleted, nothing is left to do.
CHECK_DEADLOCK FALSE
