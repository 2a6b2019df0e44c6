SPECIFICATION Spec
CONSTANTS
  RingSize = 64
  TailSize = 32
  Slack = 4
  NearEnd = 5
  Lap = 64
  Word = 2
  ScalarPrefix = 2
  Stride = 3
  Segments <- MCSegments
  PrefixLimit = 2
  PrefixBytes = 4
  Window = 32
  WindowGap = 2
  TreeKeys = 5
  MaxComp = 6
  SearchDepth = 4
  DenseTail = 3
  SparseThreshold = 4
  SparseStride = 2
  MaxDistance = 480
  LongestWord = 20
  Chars <- MCChars
  WordItems <- MCWordItems
  WordCountBits = 2
  MaxBackward = 30
  Direct = 0
  Postfix = 0
  QueueSize = 4
  QuickStep = 11
  CmdSymbols = 704
  DistSymbols = 64
  Jobs <- MCJobs
  BlockSize = 32
  MaxMeta = 64
  MaxSymbols = 8
  MaxLenQ10 = 8
  MaxLenQ11 = 10
  StartsQ10 = 1
  StartsQ11 = 3
  ScanQ10 = 3
  ScanQ11 = 5
  LiteralPatterns <- MCPatterns
  InitialCache <- MCInitialCache
INVARIANTS HqCommandsDecode StartsFollowTheirPaths SearchFindsWhatIsThere
CHECK_DEADLOCK FALSE
