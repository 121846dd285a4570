\* An acceptance after the running trial was accepted and another was uploaded.
SPECIFICATION Spec
CONSTANTS
  MemBlocks = 14
  SizeLimit = 1048576
  BlockUnits = 2
  MaxRank = 2
  FactoryEntries <- MCFactoryEntries
  v1 = v1
  v2 = v2
  Version = {v1}
  Factory = v0
  HeaderLen = 3
  Images <- MCImages
  PacketLen = {2}
  CarefulErase = TRUE
PROPERTY AcceptOnlyRunning
