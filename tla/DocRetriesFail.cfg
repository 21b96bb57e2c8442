\* One worker, one job, the deployed limits; one crash of the worker.
SPECIFICATION FairSpec
CONSTANTS
  Videos = {v1}
  Requests = {r1}
  Workers = {w1}
  MaxJobs = 1
  MaxAttempts = 3
  MaxReceives = 3
  MaxFaults = 1
  FaultKinds = {"worker"}
  MediaFails = TRUE
  CloudProvider = FALSE
  SharedQueue = TRUE
PROPERTIES
  ExhaustedJobsFail
\* Bounded jobs: once they are done and the video is deleted, nothing is left to do.
CHECK_DEADLOCK FALSE
