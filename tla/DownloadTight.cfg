SPECIFICATION BytesSpec
CONSTANTS
  PieceLength = 1
  Length = 4
  PieceCount = 5
  SizeMax = 7
  LongMax = 3
  PeerCount = 2
  BlockSize = 1
  UInt32Max = 3
  BitsPerByte = 3
  WordBytes = 2
  ByteValues = 2
  Corrupt = Corrupt
  Unset = Unset
  Hole = Hole
INVARIANTS
  Represents
  RequestRead
CHECK_DEADLOCK FALSE
