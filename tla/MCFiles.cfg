SPECIFICATION Spec
CONSTANTS
  Inodes = {1, 2}
  MaxFiles = 2
  MaxCalls = 2
INVARIANTS
  OpenedAsSeen
  DescriptorsClosed
CHECK_DEADLOCK FALSE
