SPECIFICATION Spec
CONSTANTS
  Documents <- MCDocuments
  MaxDepth = 2
INVARIANTS
  CursorInText
  StackBounded
  ReadsWhatIsWritten
  CutIsNoticed
PROPERTIES
  ParsingEnds
CHECK_DEADLOCK FALSE
