SPECIFICATION Spec
CONSTANTS
  Requests <- MCFewRequests
  Capacity = 2
  MaxRequests = 3
  InFlight = 3
  SeqModulus = 1
INVARIANTS ReadAsSent
CHECK_DEADLOCK FALSE
