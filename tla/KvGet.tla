-------------------------------- MODULE KvGet --------------------------------
(***************************************************************************)
(* consul_kv_get() whole: the scans of SetReturning over answers made of   *)
(* the objects of KvPair.  A row a query got is named by the object it was *)
(* made of; what the query sees of it is Tuple.                            *)
(***************************************************************************)
EXTENDS SetReturning, KvPair

\* The objects of the answers of /v1/kv, and what becomes of them there.
KvRows == UNION {{c[i] : i \in DOMAIN c} : c \in Contents["kv_get"]}
Unreadable == {c \in Contents["kv_get"] : \E i \in DOMAIN c : ~Reads(c[i])}
Unshowable == {o \in KvRows : Reads(o) /\ ~Fits(o)}

ASSUME KvGetAssumption ==
  /\ Contents["kv_get"] \subseteq Seq(Object)
  /\ Unread = Unreadable /\ BadRow = Unshowable

Tuple(o) == Values(Pair(o))

\* The rows of consul_kv_get that queries have got.
Delivered ==
  UNION {{got[e][i] : i \in DOMAIN got[e]} : e \in {x \in Site : call[x].fn = "kv_get"}}

\* Whatever the width of a number and wherever a value has a NUL: a row that
\* reaches a query has in each column what the name of the column says of the
\* key, the value up to its first NUL.  A number that is lost on the way fails
\* the row (kv_pair.hpp:44-185, pg_consul.cpp:381-421, sql/pg_consul.sql:34-46).
\* That is so where a double too large for an int becomes INT_MIN, as on x86-64
\* (Beyond = -IntLimit); a build that saturates shows 2^31 - 1 for it.
TellsKey(o) ==
  LET t == Tuple(o) IN
  /\ t[Column.key] = o.Key
  /\ t[Column.flags] = o.Flags
  /\ t[Column.create_index] = o.CreateIndex
  /\ t[Column.modify_index] = o.ModifyIndex
  /\ t[Column.lock_index] = o.LockIndex
  /\ o.Session # Missing => t[Column.session] = o.Session
  /\ o.Session = Missing => t[Column.session] = EmptyText
  /\ \A i \in 1 .. Len(t[Column.value]) :
       t[Column.value][i] = o.Value[i] /\ o.Value[i] # NUL
  /\ \/ Len(t[Column.value]) = Len(o.Value)
     \/ o.Value[Len(t[Column.value]) + 1] = NUL

RowsTellKeys == \A o \in Delivered \ {NullRow} : TellsKey(o)

-----------------------------------------------------------------------------
\* The help of consul-kv has flags go from 0 to 2^64 - 1 (playground/
\* consul_kv.cpp:56-58), so that the pairs of an answer hold those of the keys.
FlagsAreKept ==
  \A e \in Site : (context[e] # NoContext /\ call[e].fn = "kv_get") =>
    \A i \in DOMAIN context[e].rows :
      Pair(context[e].rows[i]).flags = context[e].rows[i].Flags
=============================================================================
