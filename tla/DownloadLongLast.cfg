SPECIFICATION Spec
CONSTANTS
  PieceLength = 3
  Length = 11
  PieceCount = 3
  SizeMax = 1000
  LongMax = 500
  PeerCount = 2
  BlockSize = 2
  UInt32Max = 100
  Corrupt = Corrupt
  Unset = Unset
  Hole = Hole
INVARIANTS
  PieceSizeRight
  RequestWindow
CHECK_DEADLOCK FALSE
