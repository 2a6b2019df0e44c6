SPECIFICATION Spec
CONSTANTS
  Jobs <- MCJobs
  LengthBits <- MCLengthBits
  MaxBackward = 262128
  MaxStaticCommands = 2
  MaxTypes <- MCMaxTypes
  MinBlocks <- MCMinBlocks
  MinAnalysed = 12
  MinSplit = 4
  PerHistogram = 4
  MaxHistograms = 2
  Batch = 3
  MaxBlockTypes = 2
  Iterations = 2
  Orders <- MCOrders
  Reach = 40
  Literals <- MCLiterals
  FirstSize = 36
  MergeSize = 16
  MaxMerged = 64
  TwoPassSize = 40
  SampleLimit = 30
  SampleRate = 5
  Patience = 4
  ShortInsert = 8
  RawShare = 2
  Slack = 250
  Slots = 16
INVARIANTS MetaBlocksAreWhole CodeTablesAgree PairsAreLive FragmentsAreWhole
CHECK_DEADLOCK FALSE
