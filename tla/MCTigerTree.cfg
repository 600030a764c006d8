SPECIFICATION FairSpec
CONSTANTS
  BlockSize = 3
  StackSize = 5
  MaxBlocks = 15
  MaxBytes = 45
  Chunks <- MCChunks
  Tiger <- MCTiger
  NoHash <- MCNoHash
INVARIANTS
  StackFits
  JoinsNeighbours
  Tiling
PROPERTIES
  ImplementsTreeHash
  DigestDelivered
CHECK_DEADLOCK FALSE
