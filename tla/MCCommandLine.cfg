SPECIFICATION Spec
CONSTANTS
  Lower <- MCLower
  MaxLength = 7
  MAXPATHLEN = 7
  APP_DIR_PREFIX <- MCPrefix
  NULL = NULL
INVARIANTS
  SplitCorrect
  PasswordFromDirectory
