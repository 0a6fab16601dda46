SPECIFICATION SwarmSpec
CONSTANTS
  PieceLength = 2
  Length = 4
  PieceCount = 2
  SizeMax = 1000
  LongMax = 500
  PeerCount = 3
  BlockSize = 2
  UInt32Max = 100
  Corrupt = Corrupt
  Unset = Unset
  Hole = Hole
  Profiles <- WithEmpty
  MaxChokes = 0
PROPERTIES
  PeerLeft
CHECK_DEADLOCK FALSE
