\* The status command makes the callback give up with messages left.
SPECIFICATION FairSpec
CONSTANTS
  NumRings = 1
  Os = "zephyr"
  QueueLimit = 1
  RingCap = 2
  MaxSends = 2
  StatusShell = TRUE
  LinkFaults = FALSE
PROPERTIES
  Drained
CHECK_DEADLOCK FALSE
