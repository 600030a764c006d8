SPECIFICATION Spec
CONSTANTS
  Capacities <- MCCapacities
  MaxCalls = 3
  Chars <- MCChars
  Texts <- MCTexts
  Numbers <- MCNumbers
  Wide <- MCWide
  Scaled <- MCScaled
  DateText <- MCDateText
  Octal = {"o"}
  Quoted = {"q", "e"}
  NUL = "0"
  Backslash = "e"
  Digit = "7"
  Blank = " "
  Dot = "."
  Unit = "B"
  Unset = "-"
  Null = Null
  Base = 1000
INVARIANTS
  InBounds
  TerminatedPrefix
  FilledPrefix
  StringsTerminated
  EscapesWhole
PROPERTIES
  TextStays
CHECK_DEADLOCK FALSE
