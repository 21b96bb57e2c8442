\* One worker; the deployed limits of three attempts and three deliveries; one fault.
SPECIFICATION FairSpec
CONSTANTS
  Videos = {v1}
  Requests = {r1}
  Workers = {w1}
  MaxJobs = 2
  MaxAttempts = 3
  MaxReceives = 3
  MaxFaults = 1
  FaultKinds = {"worker", "db", "queue", "api"}
  MediaFails = TRUE
  CloudProvider = FALSE
  SharedQueue = TRUE
INVARIANTS
  TypeOK
  CompletedIsNotReclaimed
  NoStrandedJob
PROPERTIES
  JobsSettle
  ProcessingResolves
  QueueDrains
\* Bounded jobs: once they are done and the video is deleted, nothing is left to do.
CHECK_DEADLOCK FALSE
