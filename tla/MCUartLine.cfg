SPECIFICATION FairSpec
CONSTANTS
  Size = 3
  NumFrames <- Numbers
  Alias <- Disguised
  SemMax = 2
  RingSize = 3
  MaxChunk = 3
  LossyDevices = {"ibus", "flow", "imu", "action"}
  MaxLost = 1
INVARIANTS IInv OnlyWhole
PROPERTIES  InStep
CHECK_DEADLOCK TRUE
