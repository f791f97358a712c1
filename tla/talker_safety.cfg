SPECIFICATION Spec
CONSTANTS
  Requests <- MCManyRequests
  Capacity = 2
  MaxRequests = 4
  InFlight = 3
  SeqModulus = 1
INVARIANTS TypeOK RtcpHasClient SetupWhole TornDown NothingLost
PROPERTIES AnswersInOrder PlayAfterReply
CHECK_DEADLOCK FALSE
