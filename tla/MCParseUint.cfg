SPECIFICATION Spec
CONSTANTS
  Modulus = 64
  Bases = {2, 3, 10, 16, 36}
  Other = Other
  Characters = {0, 1, 3, 4, 6, 9, 15, 35}
  MaxLen = 3
  Texts <- MCTexts
INVARIANTS
  ExactRange
  PrintsBack
CHECK_DEADLOCK FALSE
