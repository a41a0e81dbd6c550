SPECIFICATION FairSpec
CONSTANTS
  Ways <- FarAndBack
  Given <- AutoOnly
  StepPos = 3
  Plans = 3
  Burst <- BurstOnFar
INVARIANTS TypeOK  Arrived ModeHasFunction
PROPERTIES  CurveEnds
CHECK_DEADLOCK TRUE
