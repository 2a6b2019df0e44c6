SPECIFICATION Spec
CONSTANTS
  Limit = 3
  MaxInput = 4
  Chunks = {0, 1, 4}
  Rooms = {0, 1}
  Sizes = {0, 3}
  Offsets = {FALSE, TRUE}
  Ops = {"Process", "Flush", "Finish"}
  MaxSessions = 2
  Pull = 2
  LaterBlocks = 1
  Fill = 3
INVARIANTS DeliveredInOrder BlocksFollowTheInput AnswersAreTrue AdaptersKeepTheirWord
PROPERTIES AdapterCallsReturn
CHECK_DEADLOCK FALSE
