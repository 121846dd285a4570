\* A stale semaphore token lets a blocking reader read an empty ring.
SPECIFICATION Spec
CONSTANTS
  N = 3
  StartIdx = {2}
  None = None
  worker = worker
  waiter = waiter
  status = status
  Thread = {worker, waiter}
  Settings <- WaitSettings
  Long = {}
  MaxSends = 2
  MaxCalls = 3
INVARIANT
  EmptyIsNoError
CHECK_DEADLOCK FALSE
