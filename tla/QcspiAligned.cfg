\* Two callers with whole-word transfers, or one caller with other ranges, at every
\* alignment; transfers may fail.
SPECIFICATION ApartSpec
CONSTANTS
  t1 = t1
  t2 = t2
  alone = alone
  NoThread = NoThread
  Thread = {t1, t2, alone}
  Jobs <- AlignedJobs
  Addr = {0, 1, 2, 3, 4, 5, 6, 7, 8, 9, 10, 11}
  MaxCalls = 2
  MaxTries = 3
  Faults = TRUE
INVARIANTS TypeOK FrameIntact MutexNotLeaked OkIsWritten NeighboursKept InterruptReachesSlave
PROPERTY CallsReturn
CHECK_DEADLOCK FALSE
