SPECIFICATION Spec
CONSTANTS
  p1 = p1
  p2 = p2
  p6 = p6
  Peer = {p1, p2, p6}
  Colons = {p6}
  PeerLists <- MCPeerLists
  Empty = Empty
  Truncated = Truncated
  Document = Document
  Garbage = Garbage
  Nobody = Nobody
  Unasked = Unasked
  Pieces = 2
  Timeout = 2
INVARIANTS
  LeaderTextNamesPeer
