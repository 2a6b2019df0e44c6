SPECIFICATION Spec
CONSTANTS
  Configs = {"q5"}
  Lens = {3}
  SegmentSize = 2
  MinParallel = 2
  TaskCount = 2
  MaxTasks = 2
  MaxBatches = 1
  MaxVersion = 0
  MaxRetain = 0
  Policies = {"Slice"}
  Calls = {"poll", "wait", "vec"}
  Faults = {"encode", "abandon", "cancel", "panic"}
  None = None
PROPERTIES DropNeverWaits CallsAndTasksEnd
CHECK_DEADLOCK FALSE
