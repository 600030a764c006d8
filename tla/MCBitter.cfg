SPECIFICATION FairSpec
CONSTANTS
  f1 = f1
  f2 = f2
  Files <- MCFiles
  Stdin = Stdin
  NoName = NoName
  Unset = Unset
  MaxOptions = 2
  MaxArgs = 2
  MaxSize = 3
  BufSize = 2
  MaxChunk = 1
  FdLimit = 4
INVARIANTS
  PrintedDigests
  HalvesAgree
  OneDescriptor
  ModeFollowsOptions
  SuccessCoversAll
PROPERTY
  Terminates
CHECK_DEADLOCK FALSE
