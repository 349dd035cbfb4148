SPECIFICATION Spec
CONSTANTS
  Value <- MCValue
  BUFFERSIZE = {4, 5, 7}
  CHARS_PER_LINE = 8
  Junk = {165, 90}
INVARIANTS
  TypeOK
  EncodesStandard
  RoundTrip
  LinesFit
  BlocksFit
CHECK_DEADLOCK FALSE
