SPECIFICATION Spec
CONSTANTS
  Message <- MCMessage
  PrefixSize = 4
  MaxPayload = 13
  MaxPiecePayload = 10
  MaxSent = 2
INVARIANTS
  WireInv
  InSync
  OwnedOnce
PROPERTIES
  ImplementsChannel
  EveryMessageAnswered
CHECK_DEADLOCK FALSE
