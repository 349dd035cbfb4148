-------------------------------- MODULE KvPair --------------------------------
(***************************************************************************)
(* How an object of an answer of /v1/kv becomes a row of consul_kv_get():  *)
(* KVPair::InitFromJson (include/consul/kv_pair.hpp), the strings that     *)
(* pg_consul.cpp makes of the members, and the type input functions.       *)
(*                                                                         *)
(* A number of the object goes through a double into an int, and from      *)
(* there into a 64-bit unsigned member; the row prints the member, and     *)
(* reads it as an INT8.                                                    *)
(***************************************************************************)
EXTENDS Integers, Sequences, FiniteSets

CONSTANTS
  IntLimit,   \* 2^31: int goes from -IntLimit to IntLimit - 1
  LongLimit,  \* 2^63: the same of INT8; uint64_t goes to 2 * LongLimit - 1
  Beyond,     \* what this build's conversion to int makes of a larger double
  Text,       \* the names of keys and sessions
  EmptyText,  \* ""
  Byte, NUL,
  Missing     \* an object without a member of that name, or with null there

ASSUME WidthAssumption ==
  /\ IntLimit \in Nat \ {0} /\ LongLimit \in Nat /\ IntLimit <= LongLimit
  /\ Beyond \in {-IntLimit, IntLimit - 1}

UINT64_MAX == 2 * LongLimit - 1

\* What consul sends: always the numbers and the key; Session only of a locked
\* key; null for the Value of a key that has none.
Object == [CreateIndex : 0 .. UINT64_MAX, ModifyIndex : 0 .. UINT64_MAX,
           LockIndex : 0 .. UINT64_MAX, Flags : 0 .. UINT64_MAX,
           Session : Text \cup {Missing}, Key : Text,
           Value : Seq(Byte) \cup {Missing}]

\* Json::int_value(): static_cast<int> of a double, defined for what fits.
IntValue(n) == IF n < IntLimit THEN n ELSE Beyond

\* Faulty: the cast stays in the width of int.
LexicalCastInt(i) == IF i < 0 THEN 2 * IntLimit + i ELSE i

\* boost::lexical_cast<uint64_t>(int) takes a minus sign, and wraps.
LexicalCast(i) == IF i < 0 THEN 2 * LongLimit + i ELSE i

Index(n) == LexicalCast(IntValue(n))

\* InitFromJson returns false for a member of another type than it expects.
Reads(o) == o.Value # Missing

\* Faulty: one block of InitFromJson is a copy of the one before it.
PairCopied(o) ==
  [createIndex |-> Index(o.CreateIndex), modifyIndex |-> Index(o.ModifyIndex),
   lockIndex |-> Index(o.ModifyIndex), flags |-> Index(o.Flags),
   session |-> IF o.Session = Missing THEN EmptyText ELSE o.Session,
   key |-> o.Key, value |-> o.Value]

\* The members of the KVPair.
Pair(o) ==
  [createIndex |-> Index(o.CreateIndex), modifyIndex |-> Index(o.ModifyIndex),
   lockIndex |-> Index(o.LockIndex), flags |-> Index(o.Flags),
   session |-> IF o.Session = Missing THEN EmptyText ELSE o.Session,
   key |-> o.Key, value |-> o.Value]

\* A C string ends before the first NUL.
CString(s) ==
  SubSeq(s, 1, Cardinality({i \in DOMAIN s : \A j \in 1 .. i : s[j] # NUL}))

\* values[], by the positions PG_CONSUL_KV1_GET_COUMN_*.
Values(p) == <<p.key, CString(p.value), p.flags, p.createIndex, p.modifyIndex,
               p.lockIndex, p.session>>

\* The columns as consul_kv_get declares them, and those that are INT8.
Column == [key |-> 1, value |-> 2, flags |-> 3, create_index |-> 4,
           modify_index |-> 5, lock_index |-> 6, session |-> 7]
Int8Columns == {3, 4, 5, 6}

\* BuildTupleFromCStrings: int8in refuses what is out of its range.
Fits(o) == \A c \in Int8Columns : Values(Pair(o))[c] < LongLimit
=============================================================================
