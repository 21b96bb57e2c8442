\* One load at a time, and two troubles: an older job may write, or a job be tried again,
\* and a request be lost as well.
SPECIFICATION FairSpec
CONSTANTS
  MaxLoads = 1
  MaxTroubles = 2
INVARIANTS
  PollsUntilTheEnd
  NoSecondStart
PROPERTIES
  ResultArrives
  ErrorPasses
\* The error page of a deleted video asks for nothing any more.
CHECK_DEADLOCK FALSE
