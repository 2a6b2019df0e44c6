CONSTANTS
  ByteBits = 2
  WordBytes = 4
  Wires <- MCWires
  Singles = {TRUE, FALSE}
  InLimits = {5, 1000}
  Exacts = {3, 1000}
  ReadRooms = {2}
  Buffer = 5
  WriteLens = {1, 5}
  Outbox = 2
  Slices = {2, 9}
  Chunks = {1, 4}
  Clients = {"caller", "reader", "writer", "oneshot"}
  Offers = {0, 1, 4, 9}
  Rooms = {0, 1, 3}
SPECIFICATION Spec
INVARIANTS ReservoirIsTheStream ClientsKeepTheirWord
PROPERTIES KeepsContract CallsReturn
CHECK_DEADLOCK FALSE
