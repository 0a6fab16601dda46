SPECIFICATION OutputSpec
CONSTANTS
  PieceLength = 3
  Length = 8
  PieceCount = 3
  SizeMax = 1000
  LongMax = 500
  PeerCount = 3
  BlockSize = 2
  UInt32Max = 100
  Corrupt = Corrupt
  Unset = Unset
  Hole = Hole
INVARIANTS
  StreamInv
  CountedBytesKept
  CompleteOnDisk
PROPERTIES
  BlockCountedOnce
  Implements
CHECK_DEADLOCK FALSE
