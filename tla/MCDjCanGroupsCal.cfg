SPECIFICATION Spec
CONSTANTS
  DJ_M_NUM = 2
  LowGroup <- Motor0
  LowOr <- NoMotor
  CalCount = 2
  Ready = 9
  Counts = 2
  FifoSize = 2
  Torques = {0, 1}
  Turning <- NoMotor
  MaxStep = 0
  MaxTurn = 0
INVARIANT EveryMotorCalibrated
CHECK_DEADLOCK TRUE
