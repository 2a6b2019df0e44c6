SPECIFICATION Spec
CONSTANTS
  Configs = {"q5"}
  Lens = {0, 1, 3, 5}
  SegmentSize = 2
  MinParallel = 2
  TaskCount = 2
  MaxTasks = 2
  MaxBatches = 1
  MaxVersion = 1
  MaxRetain = 0
  Policies = {"VerifyLengthAndIdentity"}
  Calls = {"poll", "wait", "timed", "vec", "writer"}
  Faults = {"read", "encode", "panic", "abandon", "meta", "write", "timeout", "cancel"}
  None = None
INVARIANTS TypeOK OriginatingError ResultIsWhole SendNeverBlocks
PROPERTIES FailureIsStable
CHECK_DEADLOCK FALSE
