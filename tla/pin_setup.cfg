\* See MCDiscover for the values; two panels plugged and one unplugged are enough.
CONSTANTS
  Boards = {"b1", "b2", "ftdi"}
  Serial <- MCSerial
  Ids <- MCIds
  Ports <- MCPorts
  Saved <- MCSaved
  Users = {"u", "v"}
  MaxMoves = 3
SPECIFICATION DevSpec
INVARIANT FailsClosed
CHECK_DEADLOCK FALSE
