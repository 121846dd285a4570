\* A blocking reader beside the callback on a link that fails; on a link that works,
\* the callers the applications have, none of which waits, or two blocking readers.
SPECIFICATION FairSpec
CONSTANTS
  N = 3
  StartIdx = {2}
  None = None
  worker = worker
  waiter = waiter
  status = status
  Thread = {worker, waiter, status}
  Settings <- ReceiveSettings
  Long = {2}
  MaxSends = 4
  MaxCalls = 4
INVARIANTS
  TypeOK
  BacklogIntact
  PollingFindsData
  AvailIsTrue
  NotWedged
PROPERTIES
  ImplementsChannel
  NoLostWakeup
CHECK_DEADLOCK FALSE
