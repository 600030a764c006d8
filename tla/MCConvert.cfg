SPECIFICATION ConvertSpec
CONSTANTS
  RawSize = 10
  Arguments <- MCArguments
  Garbage <- MCGarbage
  Behind <- MCBehind
INVARIANTS
  SameBits
  BadNoticed
CHECK_DEADLOCK FALSE
