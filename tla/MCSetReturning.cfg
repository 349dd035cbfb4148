SPECIFICATION Spec
CONSTANTS
  Site = {s1, s2}
  Source <- MCSource
  Row <- MCRow
  Contents <- MCContents
  CallKind <- MCCallKind
  BadRow <- Unshowable
  Unread <- Unreadable
  NullRow = NullRow
  NoAnswer = NoAnswer
  NoContext = NoContext
  Wild = Wild
  IntLimit = 8
  LongLimit = 16
  Beyond <- MCBeyond
  Text = {k1, k2, owner, empty}
  EmptyText = empty
  Byte = {a, NUL}
  NUL = NUL
  Missing = Missing
  a = a
  k1 = k1
  k2 = k2
  owner = owner
  p1 = p1
  p2 = p2
INVARIANTS TypeOK ReadsInBounds ObjectsFollowScans WholeAnswer RowsTellKeys
PROPERTIES RefinesStream MaterializeEnds
