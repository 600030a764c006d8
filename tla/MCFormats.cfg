SPECIFICATION Spec
CONSTANTS
  Bytes = {1, 126, 201}
  MaxLen = 6
  Values = {0, 2571, 65535}
  Ports = {80, 65535}
  MaxText = 5
  MaxPath = 7
  MaxLine = 6
  MaxData = 5
  MaxPrime = 150
  MaxMessage = 140
INVARIANTS
  EncodesBits
  DecodesBack
  PrintsCanonically
  ParsesWhatItSays
  PrefixBits
  DatesReadBack
  PathsCanonical
  UrlTaken
  LinesTokenized
  Finds
  SeesPadded
CHECK_DEADLOCK FALSE
