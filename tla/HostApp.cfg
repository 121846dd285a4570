\* Start-up on both systems, then sends, bursts, stops and resets.
SPECIFICATION BoundedSpec
CONSTANTS
  Burst = {b1, b2}
  Shell = shell
  None = None
  MaxGen = 2
  MaxCommands = 3
  MaxPackets = 2
  MaxRetries = 1
  MaxMessages = 2
  MaxEvents = 3
INVARIANTS TypeOK Serialised LockHasLivingOwner
PROPERTIES MessagesRead BurstTerminates
CHECK_DEADLOCK FALSE
