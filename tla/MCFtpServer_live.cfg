SPECIFICATION FairSpec
CONSTANTS
  MAX_CLIENTS = 2
  Sockets = {0, 1, 2}
  Files = {1}
  MaxLines = 1
  Candidates <- AnyFree
  SocketsSurviveDeinit = FALSE
  NULL = NULL
PROPERTIES
  WaitingEnds
  ResetExits
  ListensAgain
