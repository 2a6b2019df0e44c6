SPECIFICATION Spec
CONSTANTS
  RingSize = 32
  TailSize = 16
  Slack = 4
  NearEnd = 5
  Lap = 32
  Word = 2
  ScalarPrefix = 2
  Stride = 3
  HashBytes = 4
  LongType = 5
  Keys = 5
  SweepStep = 2
  PartialLimit = 12
  SmallInput = 9
  CompactInput = 12
  BlockSlots = 4
  StarterSlots = 2
  CountMod = 8
  MaxGeneration = 2
  DenseLimit = 40
  OrdinaryLimit = 12
  PromotionSlots = 6
  Banks = 2
  BankSize = 4
  ShortMod = 32
  Words <- MCWords
  WordKeys = 2
  WordBits = 1
  CutOffs <- MCCutOffs
  ProbeShare = 4
  Segments <- MCSegments
  PrefixLimit = 2
  PrefixBytes = 4
  Jobs <- MCJobs
  MaxBackward = 15
  BlockSize = 16
  MaxMeta = 32
  MaxSymbols = 12
  MaxDelayed = 13
  HeurWindow = 1
  CheckEvery = 2
  InitialCache <- MCInitialCache
  Direct = 0
  Postfix = 0
  StaticWords <- MCStaticWords
INVARIANTS MeaningIsKept TwinAgrees WindowServes
CHECK_DEADLOCK FALSE
