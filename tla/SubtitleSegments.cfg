SPECIFICATION Spec
CONSTANTS
  MaxWords = 2
  TicksPerMilli = 10
  Times = {0, 9994, 9999, 10000, 35999999}
  MaxItems = 5
INVARIANTS
  TypeOK
  EveryWordOnce
  MarksLostOnlyBetweenSegments
  SegmentsAreReadable
  CuesInOrder
  CuesMatchSpeech
  TextHasCues
CHECK_DEADLOCK FALSE
