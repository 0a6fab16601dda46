SPECIFICATION IntakeSpec
CONSTANTS
  SizeMax = 95
  MaxChunk = 3
  IntMax = 70000
  ItemSize = 30
  EntrySize = 22
  HashLength = 2
  IpLength = 1
  MaxAllocations = 3
  EscapedTexts = {"h", "%68"}
  AnnounceKey <- MCAnnounceKey
  InfoKey <- MCInfoKey
  NameKey <- MCNameKey
  LengthKey <- MCLengthKey
  PieceLengthKey <- MCPieceLengthKey
  PiecesKey <- MCPiecesKey
  IntervalKey <- MCIntervalKey
  PeersKey <- MCPeersKey
  IpKey <- MCIpKey
  PortKey <- MCPortKey
  Addresses <- MCAddresses
  parse_bencode_buffer <- ParseBuffer
  free_bencode_object <- FreeObject
  Torrents <- MCTorrents
  Bodies <- MCBodies
INVARIANTS
  NothingLeaks
  BorrowedAlive
  FreedOnce
  ReadsBencode
  SpansExact
  BlocksOwned
  ArraysHold
  HashedInfo
  LoopPreconditions
  WholeAnswer
  PeersFaithful
  UrlFits
PROPERTIES
  ResponseGrows
CHECK_DEADLOCK FALSE
