SPECIFICATION Spec
CONSTANTS
  Starts = 3
  Counts <- MCCounts
  Word = 8
INVARIANTS
  OneSender
  StoppedIsOver
  ZeroOnlyAtFirst
PROPERTIES
  StopEnds
CHECK_DEADLOCK FALSE
