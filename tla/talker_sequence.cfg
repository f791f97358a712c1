SPECIFICATION Spec
CONSTANTS
  Requests <- MCPlayRequests
  Capacity = 2
  MaxRequests = 3
  InFlight = 3
  SeqModulus = 4
INVARIANTS AnnouncedSequence
CHECK_DEADLOCK FALSE
