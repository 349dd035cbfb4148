--------------------------- MODULE MCStatusCalls ---------------------------
(***************************************************************************)
(* StatusCalls with two IPv4 peers and one IPv6 peer.                      *)
(***************************************************************************)
EXTENDS StatusCalls

CONSTANTS p1, p2, p6

MCPeerLists == {<<p1, p2>>, <<p2>>, <<p1, p6>>}
OneList == {<<p1, p2>>}

=============================================================================
