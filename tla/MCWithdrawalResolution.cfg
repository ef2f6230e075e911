SPECIFICATION FairResolutionSpec
CONSTANTS
  Height = {0, 1, 2, 3, 4, 5, 6}
  Remaining = {0, 1}
  EventHeight = {0, 1, 2, 3, 4, 5, 6}
  EventAmount = {0, 1, 2}
  MaxEvents = 4
INVARIANTS ProbeIsInside AnswerIsRight
PROPERTY ResolutionEnds
CHECK_DEADLOCK FALSE
