SPECIFICATION ConvertSpec
CONSTANTS
  RawSize = 10
  Arguments <- MCArguments
  Garbage <- MCGarbage
  Behind <- MCBehind
INVARIANT
  PrintedFromArgument
CHECK_DEADLOCK FALSE
