CONSTANTS
  Buffers = {b1, b2, b3}
  NoBuffer = NoBuffer
  Size = 2
  Starts = {0, 2, 4, 7}
  FileLen = 9
  SegLen = 4
  HeaderLen = 1
  MaxStrays = 2
SPECIFICATION Spec
INVARIANTS TypeOK Accounted NoLostWakeUp AlwaysOrdered
PROPERTIES FramesInOrder ImplementsQueue PlaysOn
CHECK_DEADLOCK FALSE
