\* One worker, two jobs of one video, two requests at a time; one crash or lost answer.
SPECIFICATION Spec
CONSTANTS
  Videos = {v1}
  Requests = {r1, r2}
  MaxJobs = 2
  Workers = {w1}
  MaxFaults = 1
  FaultKinds = {"crash", "answer"}
INVARIANTS
  TypeOK
  PlayableHasFile
  ReaderFindsSegments
  AudioIsWhole
  UndisturbedTextIsOfItsJob
PROPERTIES
  LibrarySpec
\* Uploads and jobs are bounded: when the video is gone nothing is left to do.
CHECK_DEADLOCK FALSE
