SPECIFICATION Spec
CONSTANTS
  Requests <- MCFewRequests
  Capacity = 2
  MaxRequests = 3
  InFlight = 3
  SeqModulus = 1
PROPERTIES Answered HangupEnds
CHECK_DEADLOCK FALSE
