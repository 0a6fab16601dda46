SPECIFICATION SwarmSpec
CONSTANTS
  PieceLength = 3
  Length = 5
  PieceCount = 2
  SizeMax = 1000
  LongMax = 500
  PeerCount = 3
  BlockSize = 2
  UInt32Max = 100
  Corrupt = Corrupt
  Unset = Unset
  Hole = Hole
  Profiles <- Responsive
  MaxChokes = 0
INVARIANTS
  HonestNeverBlamed
PROPERTIES
  SeedKept
  SeedSuffices
  Returns
CHECK_DEADLOCK FALSE
