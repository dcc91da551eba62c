SPECIFICATION Spec
CONSTANTS
  MAXPATHLEN = 9
  VIRTUAL_PARTITIONS <- MCPartitions
  Lower <- MCLower
  Paths <- MCPaths
  NULL = NULL
INVARIANT
  CwdFits
