SPECIFICATION Spec
CONSTANTS
  MAX_CLIENTS = 2
  Sockets = {0, 1, 2, 3, 4, 5}
  Files = {1, 2}
  MaxLines = 2
  Candidates <- LowestFree
  SocketsSurviveDeinit = TRUE
  NULL = NULL
INVARIANTS
  TypeOK
  PoolConsistent
  SocketOwnership
  FileOwnership
  DataConnectionConsistent
  UnauthenticatedHoldsNothing
  RepliesOwed
PROPERTIES
  TransfersAreSerial
