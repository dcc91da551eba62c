SPECIFICATION Spec
CONSTANTS
  insider = insider
  secret = secret
  Sessions = {insider, outsider}
  Dirs = {"/", "sub"}
  Names = {"name"}
  Home = "/"
  Addresses = {"a", "b"}
  Passwords = {secret}
  Knows <- MCKnows
  Offsets = {1}
  NULL = NULL
INVARIANTS
  LoginIsOwn
  RenameIsWhatWasNamed
  RestartUsedOnce
  DataGoesWhereAsked
