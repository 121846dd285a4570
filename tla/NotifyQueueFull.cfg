\* FreeRTOS with two rings: a queue full of one ring's items drops the other's.
SPECIFICATION Spec
CONSTANTS
  NumRings = 2
  Os = "freertos"
  QueueLimit = 16
  RingCap = 1
  MaxSends = 24
  StatusShell = FALSE
  LinkFaults = FALSE
INVARIANT
  NoneStranded
CHECK_DEADLOCK FALSE
