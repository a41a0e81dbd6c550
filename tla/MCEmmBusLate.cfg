SPECIFICATION Spec
CONSTANTS
  t1 = t1  t2 = t2  m1 = m1  m2 = m2
  Threads = {t1, t2}
  Steppers = {m1, m2}
  Cmds <- VelOther
  NoOne = NoOne
  Timely = FALSE
  Lossy = FALSE
  SemMax = 2
  MaxLate = 6
SYMMETRY Alike
INVARIANT OwnMotor
CHECK_DEADLOCK TRUE
