SPECIFICATION Spec
CONSTANTS
  DJ_M_NUM = 2
  LowGroup <- Motor0
  LowOr <- NoMotor
  CalCount = 2
  Ready = 9
  Counts = 4
  FifoSize = 1
  Torques = {0, 1}
  Turning <- Motor0
  MaxStep = 1
  MaxTurn = 1
INVARIANTS TypeOK TurnsCounted StopHolds
CHECK_DEADLOCK TRUE
