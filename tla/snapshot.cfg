CONSTANTS
  MaxRequests = 4
  Null = Null
SPECIFICATION Spec
INVARIANTS TypeOK ReleasedOnce RightAnswer
PROPERTIES EverythingEnds
CHECK_DEADLOCK FALSE
