SPECIFICATION FairSpec
CONSTANTS
  Clients = {c1, c2}
  Bytes = {1, 2, 3, 4, 5, 6, 7, 8}
  Contents <- MCContents
  MAX_NET_BUFFER_SIZE = 4
  MIN_NET_BUFFER_SIZE = 2
  FREAD_BUFFER_SIZE = 4
  NULL = NULL
INVARIANTS
  ReadFitsBuffer
PROPERTIES
  ImplementsFileTransfer
  TransferEnds
