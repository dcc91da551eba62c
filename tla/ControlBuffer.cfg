SPECIFICATION Spec
CONSTANTS
  FTP_BUFFER_SIZE = 7
  Chars = {x, CR, LF, NUL}
  CR = CR
  LF = LF
  NUL = NUL
INVARIANTS
  TypeOK
  StringIsRest
  NoLineLeftBehind
PROPERTIES
  ImplementsLineStream
