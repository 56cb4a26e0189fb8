\* See MCParts for the values; two faults leave the frame parser anywhere; two
\* keyboards, a key on each.
CONSTANTS
  Files <- MCFiles
  Edits <- MCEdits
  Levels = {0, 3}
  Host <- MCHost
  InPlace = {TRUE, FALSE}
  Boards = {"b1", "b2", "ftdi"}
  Serial <- MCSerial
  Ids <- MCIds
  Ports <- MCPorts
  Saved <- MCSaved
  Users = {"u", "v"}
  MaxMoves = 4
  Units <- MCUnits
  Configs <- MCConfigs
  SLOW_POLL_TTL = 2
  SVC_COUNT = 2
  MaxTime = 4
  MaxChanges = 2
  Kb = {k1, k2}
  MaxKeys = 1
  TERM_PAYLOAD = 3
  Contents <- MCContents
  MaxFaults = 2
SPECIFICATION PartsSpec
INVARIANTS PartsTypeOK MemoryFollowsFile PinHonoured PayloadInBounds MissedAtMostOne
           GrabAgrees ReleasedUnlessExclusive DeafKeysUnread
PROPERTIES ImplementsStore SessionSettles ServicesShown InterfaceShown GrabKept
CHECK_DEADLOCK FALSE
