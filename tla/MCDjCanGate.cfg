SPECIFICATION FairSpec
CONSTANTS
  DJ_M_NUM = 2
  LowGroup <- Motors01
  LowOr <- NoMotor
  CalCount = 2
  Ready = 9
  Counts = 2
  FifoSize = 2
  Torques = {0, 1}
  Turning <- NoMotor
  MaxStep = 0
  MaxTurn = 0
INVARIANTS LowCalibrated DrivenOnlyCalibrated HeardBeforeRetry IInv
PROPERTY StopReached
CHECK_DEADLOCK TRUE
