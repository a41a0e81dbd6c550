SPECIFICATION Spec
CONSTANTS
  Threads <- OneThread
  Prio <- PrioOne
  Values = {"v1", "v2"}
  Level = 1
  RatioPos = 3
  RatioSpeed = 2
  CurveSteps = 3
  Curves = 1
INVARIANTS TypeOK StopHeld CommandReached 
CHECK_DEADLOCK TRUE
