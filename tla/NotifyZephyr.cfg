\* Zephyr, three rings, a status shell and failing transfers.
SPECIFICATION FairSpec
CONSTANTS
  NumRings = 3
  Os = "zephyr"
  QueueLimit = 1
  RingCap = 2
  MaxSends = 5
  StatusShell = TRUE
  LinkFaults = TRUE
INVARIANTS
  TypeOK
  StrandedOnlyAfterError
PROPERTIES
  DrainedUnlessAborted
CHECK_DEADLOCK FALSE
