CONSTANTS
  Buffers = {b1, b2, b3}
  NoBuffer = NoBuffer
  Size = 2
  Starts = {0, 2, 4, 7}
  FileLen = 9
  SegLen = 4
  HeaderLen = 1
  MaxStrays = 0
SPECIFICATION Spec
PROPERTY EveryFrame
CHECK_DEADLOCK FALSE
