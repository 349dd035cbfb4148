SPECIFICATION Spec
CONSTANTS
  Value <- MCValue
  BUFFERSIZE = {4, 5, 7}
  CHARS_PER_LINE = 8
  Junk = {165, 90}
INVARIANT NoTrailingNewline
CHECK_DEADLOCK FALSE
