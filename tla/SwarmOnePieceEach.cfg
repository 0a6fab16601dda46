SPECIFICATION SwarmSpec
CONSTANTS
  PieceLength = 2
  Length = 4
  PieceCount = 2
  SizeMax = 1000
  LongMax = 500
  PeerCount = 2
  BlockSize = 2
  UInt32Max = 100
  Corrupt = Corrupt
  Unset = Unset
  Hole = Hole
  Profiles <- OnePieceEach
  MaxChokes = 0
INVARIANTS
  FailureMeansNobodyHas
CHECK_DEADLOCK FALSE
