CONSTANTS
  Chunk = 3
  MinRing = 2
  Windows = {8}
  MaxText = 10
  Lengths = {10}
  Inserts = {0, 3}
  Copies = {2, 4}
  Codes = {0, 16}
  Distances = {1, 3, 6}
  Words = {0, 2}
  PrefixLens = {0, 2}
  Singles = {TRUE}
  Rooms = {1, 11}
  Limits = {9, 50}
  SmallDistance = 4
  MaxMembers = 1
SPECIFICATION DecoderSpec
INVARIANTS OutputIsTheText HistoryHolds CacheIsRecent
CHECK_DEADLOCK FALSE
