SPECIFICATION Spec
CONSTANTS
  Clients = {c1, c2}
  PacketSize = 2
  MaxFrame = 5
SYMMETRY Symmetry
INVARIANTS TypeOK FrameComplete HeadersFit EndBitAlmost PictureMarked
           KeyFramesWhole WholeAtOneLevel
