SPECIFICATION Spec
CONSTANTS
  PieceLength = 3
  Length = 6
  PieceCount = 4
  SizeMax = 8
  LongMax = 8
  PeerCount = 3
  BlockSize = 2
  UInt32Max = 100
  Corrupt = Corrupt
  Unset = Unset
  Hole = Hole
INVARIANTS
  FileGenuine
CHECK_DEADLOCK FALSE
