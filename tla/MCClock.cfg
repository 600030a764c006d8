SPECIFICATION ClockSpec
CONSTANTS
  Micro = 2
  PerSecond = 2
  Limit = 2
  MaxTime = 11
INVARIANTS
  KeepsPace
  HighestOfDay
PROPERTIES
  NeverBackwards
