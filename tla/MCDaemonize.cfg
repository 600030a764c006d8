SPECIFICATION Spec
CONSTANTS
  Pids = {1, 2, 3, 4}
  First = 1
  Shell = 0
  MaxCalls = 2
INVARIANTS
  DaemonDetached
  OneReturns
PROPERTY
  DaemonizeEnds
CHECK_DEADLOCK FALSE
