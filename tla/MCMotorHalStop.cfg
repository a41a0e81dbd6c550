SPECIFICATION Spec
CONSTANTS
  Threads <- TwoThreads
  Prio <- PrioTwo
  Values = {"v1", "v2"}
  Level = 1
  RatioPos = 3
  RatioSpeed = 2
  CurveSteps = 3
  Curves = 0
INVARIANTS StopHeld
CHECK_DEADLOCK TRUE
