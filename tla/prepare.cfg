SPECIFICATION Spec
CONSTANTS
  U64Max = 40
  UsizeMax = 32
  PartOverhead = 3
  DescriptorBytes = 2
  WorkerBase = 1
  WorkerScale = 1
  TaskBytes = 1
  ScratchBytes = 1
  Lens = {0, 1, 2, 3, 4, 5, 6, 7, 8, 9, 10, 11, 12, 13, 14, 15, 16, 17, 18, 19, 20}
  SegmentSizes = {1, 2, 3, 4, 5, 6}
  TaskCounts = {1, 2, 3, 4, 5, 6}
  MinParallels = {0, 3, 40}
  Limits = {0, 15, 24, 32}
  Retained = {0, 4}
INVARIANTS PlanHolds TasksTile
CHECK_DEADLOCK FALSE
