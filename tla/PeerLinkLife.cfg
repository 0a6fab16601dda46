SPECIFICATION Spec
CONSTANTS
  HandshakeSize = 4
  InterestedSize = 2
  RequestSize = 3
  MaxMessages = 3
INVARIANTS
  LinkInv
  SocketOwned
  ReadyToTalk
  WholeMessages
  HandshakeFirst
PROPERTIES
  ConnectReturns
CHECK_DEADLOCK FALSE
