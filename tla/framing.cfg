SPECIFICATION Spec
CONSTANTS
  Radix = 8
  ChunkBytes = 2
  MaxChunks = 8
  PipeBytes = 7
  MaxFaults = 1
  SeekBuffer = 3
  MaxSeekFaults = 1
  Scripts <- MCScripts
  Pieces = {1, 3}
  Offers = {2, 7}
  Rooms = {1, 64}
  Extras <- MCExtras
  Callers = {"session", "reader", "owned", "append", "slice"}
  Menus <- MCMenus
  MostChunks = 5
  Exacts <- MCExacts
  PeerOffers = {2}
  PeerRooms = {1}
INVARIANTS
  FramesRoundTrip
  SinkGetsTheFrames
  RandomReadsAgree
  PeersAreHeldToTheGrammar
PROPERTY
  FramingCallsReturn
CHECK_DEADLOCK FALSE
