\* Two host threads, one with a finite lock timeout, three descriptors, and
\* transfers that may fail at every step.
SPECIFICATION FairSpec
CONSTANTS
  N = 3
  StartIdx = {2}
  None = None
  Thread = {t1, t2}
  Impatient = {t2}
  MaxSends = 4
  LinkFaults = TRUE
INVARIANTS
  TypeOK
  IndexOrder
  PublishedIntact
  OkIsVisible
  LockNotLeaked
PROPERTIES
  SlaveCopyStable
  ImplementsChannel
  OkIsDelivered
CHECK_DEADLOCK FALSE
