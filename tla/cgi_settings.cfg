SPECIFICATION Spec
CONSTANTS
  Axes = {h}
  Rates = {25, 30}
  Fps = {25, 30}
  Devices = {d1, d2}
  RoiCount = 2
  Rects = {inside, border}
  Edge = {border}
  DefaultRate = 30
  DefaultFps = 30
  DefaultDevice = d1
INVARIANTS
  TypeOK
  Preserved
  CameraFollows
  FailedStartHeals
CONSTRAINTS OneTrouble Apart
