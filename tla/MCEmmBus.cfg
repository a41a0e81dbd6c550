SPECIFICATION FairSpec
CONSTANTS
  t1 = t1  t2 = t2  m1 = m1  m2 = m2
  Threads = {t1, t2}
  Steppers = {m1, m2}
  Cmds <- VelOther
  NoOne = NoOne
  Timely = TRUE
  Lossy = TRUE
  SemMax = 2
  MaxLate = 0
INVARIANTS IInv MutexBalanced NoLostWakeup  CleanStart
PROPERTIES TimeoutOnlyIfLost CallReturns
CHECK_DEADLOCK TRUE
