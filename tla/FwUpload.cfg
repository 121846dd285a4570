\* Uploads of two files, cut anywhere, with failures and power loss.
SPECIFICATION Spec
CONSTANTS
  MemBlocks = 14
  SizeLimit = 1048576
  BlockUnits = 2
  MaxRank = 2
  FactoryEntries <- MCFactoryEntries
  v1 = v1
  v2 = v2
  Version <- MCVersion
  Factory = v0
  HeaderLen = 3
  Images <- MCImages
  PacketLen = {2}
  CarefulErase = TRUE
SYMMETRY FileSymmetry
INVARIANTS
  TypeOK
  BootableIsWhole
  FallbackKept
  FsKept
PROPERTIES
  ImplementsStore
