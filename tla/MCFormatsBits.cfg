SPECIFICATION Spec
CONSTANTS
  Bytes = {1, 126, 201}
  MaxLen = 6
  Values = {0, 2571, 65535}
  Ports = {80, 65535}
  MaxText = 1
  MaxPath = 1
  MaxLine = 1
  MaxData = 1
  MaxPrime = 2
  MaxMessage = 1
INVARIANT
  EveryBitEncoded
CHECK_DEADLOCK FALSE
