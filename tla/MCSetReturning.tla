--------------------------- MODULE MCSetReturning ---------------------------
(***************************************************************************)
(* KvGet on a small instance: a locked key with a NUL in its value, a plain*)
(* key, one with flags no int holds and one without a value; int is three  *)
(* bits and a sign, and uint64_t a bit wider than INT8.                    *)
(***************************************************************************)
EXTENDS KvGet

CONSTANTS a, k1, k2, owner, p1, p2

MCObject(key, flags, owned, value) ==
  [CreateIndex |-> 1, ModifyIndex |-> 3, LockIndex |-> 2, Flags |-> flags,
   Session |-> owned, Key |-> key, Value |-> value]

Locked == MCObject(k1, 0, owner, <<a, NUL, a>>)
Plain == MCObject(k2, IntLimit - 1, Missing, <<a>>)
Flagged == MCObject(k2, IntLimit + 1, Missing, <<a>>)
Valueless == MCObject(k2, 0, Missing, Missing)

MCSource == {"kv_get", "status_peers"}
MCContents == [s \in MCSource |->
  IF s = "kv_get"
  THEN {<<>>, <<Plain>>, <<Locked, Plain>>, <<Plain, Flagged>>, <<Plain, Valueless>>}
  ELSE {<<p1>>, <<p2, p1>>}]
MCRow == {Locked, Plain, Flagged, Valueless, p1, p2}
MCBeyond == -IntLimit

Kv(place, nullKey, recurse) ==
  [fn |-> "kv_get", place |-> place, nullKey |-> nullKey, recurse |-> recurse]
Peers(place) ==
  [fn |-> "status_peers", place |-> place, nullKey |-> FALSE, recurse |-> FALSE]

MCCallKind ==
  {Kv("from", FALSE, TRUE), Kv("from", FALSE, FALSE), Kv("from", TRUE, FALSE),
   Kv("targetlist", FALSE, TRUE), Peers("from"), Peers("targetlist")}
=============================================================================
