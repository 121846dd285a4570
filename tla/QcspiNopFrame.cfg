\* A sender with data of odd length beside a receiver, on a working link.
SPECIFICATION Spec
CONSTANTS
  t1 = t1
  t2 = t2
  alone = alone
  NoThread = NoThread
  Thread = {t1, t2}
  Jobs <- MixedJobs
  Addr = {0, 1, 2, 3, 4, 5, 6, 7, 8, 9, 10, 11}
  MaxCalls = 2
  MaxTries = 3
  Faults = FALSE
INVARIANT FrameIntact
CHECK_DEADLOCK FALSE
