SPECIFICATION Spec
SYMMETRY ConfigSymmetry
CONSTANTS
  Configs = {q5, q9}
  Lens = {3}
  SegmentSize = 2
  MinParallel = 2
  TaskCount = 2
  MaxTasks = 2
  MaxBatches = 2
  MaxVersion = 0
  MaxRetain = 1
  Policies = {"Slice"}
  Calls = {"writer"}
  Faults = {"panic"}
  None = None
INVARIANTS ReuseIsSound
CHECK_DEADLOCK FALSE
