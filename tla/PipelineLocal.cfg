\* Local development: in-memory queues that the processes do not share.
SPECIFICATION FairSpec
CONSTANTS
  Videos = {v1}
  Requests = {r1}
  Workers = {w1}
  MaxJobs = 2
  MaxAttempts = 2
  MaxReceives = 3
  MaxFaults = 1
  FaultKinds = {"api"}
  MediaFails = FALSE
  CloudProvider = FALSE
  SharedQueue = FALSE
PROPERTIES
  JobsComplete
\* Bounded jobs: once they are done and the video is deleted, nothing is left to do.
CHECK_DEADLOCK FALSE
