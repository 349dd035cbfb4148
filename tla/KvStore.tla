-------------------------------- MODULE KvStore --------------------------------
(***************************************************************************)
(* The key-value store of consul as the requests of consul-kv see it:      *)
(* versions (ModifyIndex) for ?cas=, sessions for ?acquire=, subtrees for  *)
(* ?recurse.  The store is external; this is the part of it on which the   *)
(* parameters of playground/consul_kv.cpp:200-232 and the replies the tool *)
(* looks at rely.                                                          *)
(***************************************************************************)
EXTENDS Naturals, FiniteSets

CONSTANTS
  Key,
  Under,      \* Under[k]: the keys of which k is a prefix
  Session,
  NoSession,  \* no ?acquire=, or a key nobody has locked
  NoCas,      \* no ?cas=
  MaxIndex    \* bound: the store refuses changes beyond this index

ASSUME StoreAssumption ==
  /\ Under \in [Key -> SUBSET Key]
  /\ \A k \in Key : k \in Under[k]
  /\ NoSession \notin Session
  /\ NoCas \notin Nat
  /\ MaxIndex \in Nat

VARIABLES
  index,  \* the raft index of the last change
  store,  \* of each key its ModifyIndex, 0 when it is absent, and its holder
  live    \* the sessions that have not been invalidated

storeVars == <<index, store, live>>

Absent == [modify |-> 0, holder |-> NoSession]
Entry == [modify : Nat, holder : Session \cup {NoSession}]

Cas == Nat \cup {NoCas}
Op == [method : {"GET", "PUT", "DELETE"}, key : Key, cas : Cas,
       session : Session \cup {NoSession}, recurse : BOOLEAN]

\* "null" is JSON with a key in it that has no value.
Reply == [code : {0, 200, 400, 404, 500}, objects : Nat,
          text : {"true", "false", "json", "null", "cut", "odd"}]
Replied(code, text, n) == [code |-> code, text |-> text, objects |-> n]

StoreInit ==
  /\ index = 1
  /\ store \in [Key -> {Absent, [modify |-> 1, holder |-> NoSession]}]
  /\ live = Session

Present(k) == store[k].modify # 0
Targets(op) ==
  {k \in IF op.recurse THEN Under[op.key] ELSE {op.key} : Present(k)}

\* What the agent will not do at all.
Refused(op) ==
  \/ op.cas # NoCas /\ (op.session # NoSession \/ op.recurse)
  \/ op.session # NoSession /\ op.session \notin live

\* ?cas= names the version there is, ?acquire= finds no other holder.
Holds(op) ==
  /\ op.cas # NoCas => op.cas = store[op.key].modify
  /\ op.session # NoSession => store[op.key].holder \in {NoSession, op.session}

Write(op) ==
  /\ index < MaxIndex
  /\ index' = index + 1
  /\ store' = [store EXCEPT ![op.key] =
                [modify |-> index + 1,
                 holder |-> IF op.session = NoSession THEN @.holder ELSE op.session]]

Erase(op) ==
  /\ index < MaxIndex
  /\ index' = index + 1
  /\ store' = [k \in Key |-> IF k \in Targets(op) THEN Absent ELSE store[k]]

Untouched == UNCHANGED <<index, store>>

\* One request, carried out or not, and the reply to it.
Perform(op, r) ==
  /\ UNCHANGED live
  /\ \/ r = Replied(500, "json", 0) /\ Untouched
     \/ Refused(op) /\ r = Replied(400, "json", 0) /\ Untouched
     \/ /\ op.method = "GET" /\ ~Refused(op)
        /\ LET n == Cardinality(Targets(op))
           IN IF n = 0 THEN r = Replied(404, "json", 0)
              ELSE r \in {Replied(200, t, n) : t \in {"json", "null"}}
        /\ Untouched
     \/ /\ op.method \in {"PUT", "DELETE"} /\ ~Refused(op) /\ ~Holds(op)
        /\ r = Replied(200, "false", 0) /\ Untouched
     \/ /\ op.method = "PUT" /\ ~Refused(op) /\ Holds(op)
        /\ r = Replied(200, "true", 0) /\ Write(op)
     \/ /\ op.method = "DELETE" /\ ~Refused(op) /\ Holds(op)
        /\ r = Replied(200, "true", 0)
        /\ IF Targets(op) = {} THEN Untouched ELSE Erase(op)

\* A session ends, and its locks with it.
Invalidate(s) ==
  /\ s \in live
  /\ live' = live \ {s}
  /\ store' = [k \in Key |-> IF store[k].holder = s
                             THEN [store[k] EXCEPT !.holder = NoSession]
                             ELSE store[k]]
  /\ UNCHANGED index
=============================================================================
