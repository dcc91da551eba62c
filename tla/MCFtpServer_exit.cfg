SPECIFICATION Spec
CONSTANTS
  MAX_CLIENTS = 1
  Sockets = {0, 1, 2, 3}
  Files = {1, 2}
  MaxLines = 2
  Candidates <- LowestFree
  SocketsSurviveDeinit = TRUE
  NULL = NULL
INVARIANTS
  CleanExit
