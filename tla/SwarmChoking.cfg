SPECIFICATION SwarmSpec
CONSTANTS
  PieceLength = 2
  Length = 4
  PieceCount = 2
  SizeMax = 1000
  LongMax = 500
  PeerCount = 3
  BlockSize = 1
  UInt32Max = 100
  Corrupt = Corrupt
  Unset = Unset
  Hole = Hole
  Profiles <- ChokingToo
  MaxChokes = 2
INVARIANTS
  OneInFlight
  SeedInv
CHECK_DEADLOCK FALSE
