---------------------------- MODULE ConsulKvProofs ----------------------------
(***************************************************************************)
(* Proofs about consul-kv, for any number of runs, keys and sessions and   *)
(* any command lines: two runs given the same version of a key never both  *)
(* change it, however late the agent takes up a request; the keys of a     *)
(* list are taken up in order; and what a run prints and exits with is     *)
(* true of the store: a key it says it posted was written, after a refusal *)
(* nothing was and nothing will be, and a lock it was given stays its own. *)
(*                                                                         *)
(* The argument: a run has at most one request under way, the one for the  *)
(* key it is at, and goes on only when that has been taken up; a run that  *)
(* gave up leaves its last request behind and sends no other.  The version *)
(* of a key only grows while the key is there, so that a version that was  *)
(* overwritten never comes back.  A run of a single key sends a single     *)
(* request: as long as that is under way the run has changed nothing; once *)
(* it is taken up, its reply, if there is one, tells what became of it,    *)
(* and the one text that is never taken for another is a whole "true" or   *)
(* "false".  The holder of a key gives way only to the end of its session  *)
(* and to a DELETE.                                                        *)
(***************************************************************************)
EXTENDS ConsulKv, TLAPS

(* A request under way is the one its run is at. *)
WireInv ==
  \A m \in wire : /\ m.pos = pos[m.run] /\ m.op = Request(m.run)
                  /\ tool[m.run] \in {"waiting", "exited"}
                  /\ method[m.run] # "none"

(* A reply is there once the request has been taken up, and not before. *)
ReplyInv ==
  \A p \in Run : tool[p] = "waiting" /\ reply[p] # NoReply =>
    <<p, pos[p]>> \in handled /\ \A m \in wire : m.run # p

(* A run has left the keys before the one it is at behind it. *)
OrderInv ==
  /\ \A p \in Run : tool[p] = "ready" => pos[p] = 1 /\ method[p] = "none"
  /\ \A p \in Run : method[p] # "none" =>
       \A i \in 1 .. pos[p] - 1 : <<p, i>> \in handled
  /\ NoGaps

Change == [run : Run, key : Key, over : Nat, at : Nat]

(* No version is older than the last change of its key, and none comes back.*)
VersionInv ==
  /\ \A k \in Key : store[k].modify <= index
  /\ applied \subseteq Change
  /\ \A a \in applied : /\ a.over < a.at /\ a.at <= index
                        /\ store[a.key].modify = 0 \/ a.at <= store[a.key].modify
                        /\ tool[a.run] # "ready"
  /\ \A a, b \in applied :
       a.key = b.key /\ a.over = b.over /\ a.over # 0 => a = b

(* A change that was to depend on a version replaced that version. *)
CasInv == \A a \in applied : Conditional(a.run) => a.over = args[a.run].cas

Inv == TypeOK /\ WireInv /\ ReplyInv /\ OrderInv /\ VersionInv /\ CasInv

-----------------------------------------------------------------------------
(* The requests a run makes are requests. *)
LEMMA RequestTyped ==
  ASSUME TypeOK, NEW p \in Run, method[p] # "none"
  PROVE  Request(p) \in Op
<1>1. args[p] \in Arguments /\ pos[p] \in 1 .. Len(args[p].keys)
  BY ToolAssumption DEF TypeOK
<1>2. args[p].keys \in Seq(Key) /\ args[p].keys[pos[p]] \in Key
  BY <1>1 DEF Arguments
<1> QED
  BY <1>1, <1>2 DEF TypeOK, Request, CasOf, SessionOf, Arguments, Op, Cas

(* What a request may do to the store: nothing, or a new version, or the   *)
(* end, of keys whose version was the one it named.                        *)
LEMMA PerformEffect ==
  ASSUME index \in Nat, store \in [Key -> Entry],
         NEW op \in Op, NEW r, Perform(op, r)
  PROVE  /\ index' \in Nat /\ index <= index' /\ store' \in [Key -> Entry]
         /\ \A k \in Key : store'[k] # store[k] =>
              /\ index' = index + 1 /\ store'[k].modify \in {0, index'}
              /\ op.method \in {"PUT", "DELETE"}
              /\ op.cas # NoCas => op.cas = store[k].modify
<1>1. CASE Untouched
  BY <1>1 DEF Untouched
<1>2. CASE op.method = "PUT" /\ ~Refused(op) /\ Holds(op) /\ Write(op)
  <2> DEFINE new == [modify |-> index + 1,
                     holder |-> IF op.session = NoSession
                                THEN store[op.key].holder ELSE op.session]
  <2>1. op.key \in Key /\ op.session \in Session \cup {NoSession}
    BY DEF Op
  <2>2. index + 1 \in Nat /\ store[op.key].holder \in Session \cup {NoSession}
    BY <2>1 DEF Entry
  <2>3. new \in Entry
    BY <2>1, <2>2 DEF Entry
  <2>4. store' = [store EXCEPT ![op.key] = new] /\ index' = index + 1
    BY <1>2 DEF Write
  <2>5. \A k \in Key : store'[k] # store[k] => k = op.key
    BY <2>4
  <2>6. store'[op.key].modify = index'
    BY <2>1, <2>4
  <2> QED
    BY <1>2, <2>1, <2>3, <2>4, <2>5, <2>6 DEF Holds
<1>3. CASE op.method = "DELETE" /\ ~Refused(op) /\ Holds(op) /\ Erase(op)
  <2>1. Absent \in Entry /\ Absent.modify = 0
    BY DEF Absent, Entry
  <2>2. index' = index + 1
        /\ store' = [k \in Key |-> IF k \in Targets(op) THEN Absent ELSE store[k]]
    BY <1>3 DEF Erase
  <2>3. op.cas # NoCas => Targets(op) \subseteq {op.key}
    BY <1>3 DEF Refused, Targets, Op
  <2>4. \A k \in Key : store'[k] # store[k] =>
           k \in Targets(op) /\ store'[k] = Absent
    BY <2>2
  <2> QED
    BY <1>3, <2>1, <2>2, <2>3, <2>4 DEF Holds
<1> QED
  BY <1>1, <1>2, <1>3 DEF Perform

-----------------------------------------------------------------------------
LEMMA InitInv == Init => Inv
<1> SUFFICES ASSUME Init PROVE Inv
  OBVIOUS
<1>1. TypeOK
  <2>1. Absent \in Entry /\ [modify |-> 1, holder |-> NoSession] \in Entry
    BY DEF Absent, Entry
  <2>2. NoReply \in Reply
    BY DEF NoReply, Replied, Reply
  <2>3. ASSUME NEW p \in Run PROVE 1 \in 1 .. Len(args[p].keys)
    <3>1. args[p] \in CommandLine
      BY DEF Init
    <3>2. args[p].keys \in Seq(Key) /\ args[p].keys # <<>>
      BY <3>1, ToolAssumption DEF Arguments
    <3> QED
      BY <3>2
  <2> QED
    BY <2>1, <2>2, <2>3 DEF TypeOK, Init, StoreInit
<1>2. \A k \in Key : store[k].modify <= index
  BY DEF Init, StoreInit, Absent
<1> QED
  BY <1>1, <1>2 DEF Init, Inv, WireInv, ReplyInv, OrderInv, NoGaps, VersionInv, CasInv

(* The request depends on nothing but the run's own place in its list. *)
LEMMA SameRequest ==
  ASSUME NEW p, args' = args, method'[p] = method[p], pos'[p] = pos[p]
  PROVE  Request(p)' = Request(p)
BY DEF Request, CasOf, SessionOf

(* Parsing the arguments: nothing of the run is under way yet. *)
LEMMA StartInv ==
  ASSUME Inv, NEW p \in Run, Start(p)
  PROVE  Inv'
<1> USE DEF Inv
<1>1. /\ UNCHANGED <<args, pos, succeeded, storeVars, wire, reply, handled, applied>>
      /\ \E m \in {"GET", "PUT", "DELETE", "none"}, t \in {"asking", "exited"},
            c \in {"none", "USAGE"} :
           /\ method' = [method EXCEPT ![p] = m] \/ (m = "none" /\ UNCHANGED method)
           /\ tool' = [tool EXCEPT ![p] = t]
           /\ exit' = [exit EXCEPT ![p] = c] \/ UNCHANGED exit
  <2>1. args[p].method \in {"GET", "PUT", "DELETE", "unset"}
    BY ToolAssumption DEF TypeOK, Arguments
  <2> QED
    BY <2>1 DEF Start, Exit, MethodOf
<1>2. tool[p] = "ready" /\ pos[p] = 1 /\ method[p] = "none"
  BY DEF Start, OrderInv
<1>3. PICK m \in {"GET", "PUT", "DELETE", "none"}, t \in {"asking", "exited"},
           c \in {"none", "USAGE"} :
        /\ method' = [method EXCEPT ![p] = m] \/ (m = "none" /\ UNCHANGED method)
        /\ tool' = [tool EXCEPT ![p] = t]
        /\ exit' = [exit EXCEPT ![p] = c] \/ UNCHANGED exit
  BY <1>1
<1>4. \A q \in Run : q # p => method'[q] = method[q] /\ tool'[q] = tool[q]
  BY <1>3 DEF TypeOK
<1>5. TypeOK'
  <2>1. method' \in [Run -> {"GET", "PUT", "DELETE", "none"}]
    BY <1>3 DEF TypeOK
  <2>2. tool' \in [Run -> {"ready", "asking", "waiting", "exited"}]
    BY <1>3 DEF TypeOK
  <2>3. exit' \in [Run -> {"none", "OK", "USAGE", "TEMPFAIL", "PROTOCOL",
                          "CANTCREAT", "ABORT"}]
    BY <1>3 DEF TypeOK
  <2> QED
    BY <1>1, <2>1, <2>2, <2>3 DEF TypeOK, storeVars
<1>6. WireInv'
  <2>1. \A n \in wire : n.run \in Run /\ n.run # p
    BY <1>2 DEF WireInv, TypeOK
  <2>2. \A n \in wire : Request(n.run)' = Request(n.run)
    BY <1>1, <1>4, <2>1, SameRequest
  <2> QED
    BY <1>1, <1>4, <2>1, <2>2 DEF WireInv
<1>7. ReplyInv'
  BY <1>1, <1>3, <1>4 DEF ReplyInv, TypeOK
<1>8. OrderInv'
  <2>1. 1 .. pos'[p] - 1 = {}
    BY <1>1, <1>2
  <2> QED
    BY <1>1, <1>2, <1>3, <1>4, <2>1 DEF OrderInv, NoGaps, TypeOK
<1>9. VersionInv'
  <2>1. \A a \in applied : a.run \in Run /\ a.run # p
    BY <1>2 DEF VersionInv, Change
  <2> QED
    BY <1>1, <1>4, <2>1 DEF VersionInv, storeVars
<1>10. CasInv'
  <2>1. \A a \in applied : a.run \in Run /\ a.run # p
    BY <1>2 DEF VersionInv, Change
  <2> QED
    BY <1>1, <1>4, <2>1 DEF CasInv, Conditional
<1> QED
  BY <1>5, <1>6, <1>7, <1>8, <1>9, <1>10

(* The end of a run's work on a key. *)
LEMMA NextKeyEffect ==
  ASSUME TypeOK, NEW p \in Run, NextKey(p)
  PROVE  /\ tool' \in [Run -> {"ready", "asking", "waiting", "exited"}]
         /\ tool'[p] \in {"asking", "exited"}
         /\ \A q \in Run : q # p => tool'[q] = tool[q] /\ pos'[q] = pos[q]
         /\ pos' \in [Run -> Nat] /\ pos'[p] \in pos[p] .. pos[p] + 1
         /\ \A q \in Run : pos'[q] \in 1 .. Len(args[q].keys)
         /\ exit' \in [Run -> {"none", "OK", "USAGE", "TEMPFAIL", "PROTOCOL",
                               "CANTCREAT", "ABORT"}]
<1>0. \A q \in Run : pos[q] \in Nat /\ Len(args[q].keys) \in Nat
                     /\ pos[q] \in 1 .. Len(args[q].keys)
  <2>1. \A q \in Run : args[q] \in Arguments
    BY ToolAssumption DEF TypeOK
  <2> QED
    BY <2>1 DEF TypeOK, Arguments
<1>1. CASE MoreKeys(p)
  <2>1. /\ tool' = [tool EXCEPT ![p] = "asking"] /\ UNCHANGED exit
        /\ pos' = [pos EXCEPT ![p] = @ + 1] /\ pos[p] < Len(args[p].keys)
    BY <1>1 DEF NextKey, MoreKeys
  <2>2. pos' \in [Run -> Nat] /\ pos'[p] = pos[p] + 1
        /\ \A q \in Run : q # p => pos'[q] = pos[q]
    BY <2>1 DEF TypeOK
  <2>3. \A q \in Run : pos'[q] \in 1 .. Len(args[q].keys)
    BY <1>0, <2>1, <2>2
  <2>4. tool' \in [Run -> {"ready", "asking", "waiting", "exited"}]
        /\ tool'[p] = "asking" /\ \A q \in Run : q # p => tool'[q] = tool[q]
    BY <2>1 DEF TypeOK
  <2> QED
    BY <1>0, <2>1, <2>2, <2>3, <2>4 DEF TypeOK
<1>2. CASE ~MoreKeys(p)
  <2>1. /\ tool' = [tool EXCEPT ![p] = "exited"] /\ exit' = [exit EXCEPT ![p] = "OK"]
        /\ pos' = pos
    BY <1>2 DEF NextKey, Exit
  <2>2. tool' \in [Run -> {"ready", "asking", "waiting", "exited"}]
        /\ tool'[p] = "exited" /\ \A q \in Run : q # p => tool'[q] = tool[q]
    BY <2>1 DEF TypeOK
  <2>3. exit' \in [Run -> {"none", "OK", "USAGE", "TEMPFAIL", "PROTOCOL",
                          "CANTCREAT", "ABORT"}]
    BY <2>1 DEF TypeOK
  <2> QED
    BY <1>0, <2>1, <2>2, <2>3 DEF TypeOK
<1> QED
  BY <1>1, <1>2

(* A step of run p that leaves store, wire, replies and history alone.     *)
LEMMA OwnStep ==
  ASSUME Inv, NEW p \in Run, tool[p] # "ready",
         UNCHANGED <<args, method, storeVars, wire, reply, handled, applied>>,
         tool' \in [Run -> {"ready", "asking", "waiting", "exited"}],
         tool'[p] \in {"asking", "exited"},
         \A q \in Run : q # p => tool'[q] = tool[q] /\ pos'[q] = pos[q],
         pos' \in [Run -> Nat], \A q \in Run : pos'[q] \in 1 .. Len(args[q].keys),
         exit' \in [Run -> {"none", "OK", "USAGE", "TEMPFAIL", "PROTOCOL",
                           "CANTCREAT", "ABORT"}],
         succeeded' \subseteq Run,
         \/ pos'[p] = pos[p] /\ tool'[p] = "exited"
         \/ /\ pos'[p] \in pos[p] .. pos[p] + 1
            /\ \A m \in wire : m.run # p
            /\ method[p] # "none" => <<p, pos[p]>> \in handled
  PROVE  Inv'
<1> USE DEF Inv
<1>1. TypeOK'
  BY DEF TypeOK, storeVars
<1>2. WireInv'
  <2>1. ASSUME NEW m \in wire
        PROVE  /\ pos'[m.run] = pos[m.run]
               /\ tool'[m.run] \in {"waiting", "exited"}
    <3>1. m.run \in Run /\ tool[m.run] \in {"waiting", "exited"}
      BY DEF WireInv, TypeOK
    <3> QED
      BY <3>1
  <2>2. \A m \in wire : Request(m.run)' = Request(m.run)
    BY <2>1, SameRequest
  <2> QED
    BY <2>1, <2>2 DEF WireInv
<1>3. ReplyInv'
  BY DEF ReplyInv
<1>4. OrderInv'
  <2>1. ASSUME NEW q \in Run, method[q] # "none", NEW i \in 1 .. pos'[q] - 1
        PROVE  <<q, i>> \in handled
    <3>1. pos[q] \in Nat /\ pos'[q] \in Nat
      BY DEF TypeOK
    <3>2. CASE i \in 1 .. pos[q] - 1
      BY <2>1, <3>2 DEF OrderInv
    <3>3. CASE i \notin 1 .. pos[q] - 1
      <4>1. q = p /\ pos'[q] # pos[q]
        BY <3>3
      <4>2. i = pos[q] /\ <<p, pos[p]>> \in handled
        BY <2>1, <3>1, <3>3, <4>1
      <4> QED
        BY <4>1, <4>2
    <3> QED
      BY <3>2, <3>3
  <2> QED
    BY <2>1 DEF OrderInv, NoGaps
<1>5. VersionInv'
  <2>1. \A a \in applied : a.run \in Run
    BY DEF VersionInv, Change
  <2> QED
    BY <2>1 DEF VersionInv, storeVars
<1>6. CasInv'
  BY DEF CasInv, Conditional
<1> QED
  BY <1>1, <1>2, <1>3, <1>4, <1>5, <1>6

(* Sending a request: there is none of this run under way.                 *)
LEMMA AskInv ==
  ASSUME Inv, NEW p \in Run, Ask(p)
  PROVE  Inv'
<1> USE DEF Inv
<1>1. \A m \in wire : m.run \in Run /\ m.run # p
  BY DEF Ask, WireInv, TypeOK
<1>2. CASE method[p] = "none"
  <2>1. /\ tool' = [tool EXCEPT ![p] = "exited"] /\ tool[p] # "ready"
        /\ exit' = [exit EXCEPT ![p] = "ABORT"] /\ pos' = pos
        /\ succeeded' \subseteq Run
        /\ UNCHANGED <<args, method, storeVars, wire, reply, handled, applied>>
    BY <1>2 DEF Ask, Exit, TypeOK
  <2>2. tool' \in [Run -> {"ready", "asking", "waiting", "exited"}]
        /\ tool'[p] = "exited" /\ \A q \in Run : q # p => tool'[q] = tool[q]
    BY <2>1 DEF TypeOK
  <2>3. exit' \in [Run -> {"none", "OK", "USAGE", "TEMPFAIL", "PROTOCOL",
                          "CANTCREAT", "ABORT"}]
    BY <2>1 DEF TypeOK
  <2>4. pos' \in [Run -> Nat] /\ \A q \in Run : pos'[q] \in 1 .. Len(args[q].keys)
    BY <2>1 DEF TypeOK
  <2> HIDE DEF Inv
  <2> QED
    BY <2>1, <2>2, <2>3, <2>4, OwnStep
<1>3. CASE method[p] # "none"
  <2> DEFINE new == [run |-> p, pos |-> pos[p], op |-> Request(p)]
  <2>1. /\ wire' = wire \cup {new}
        /\ reply' = [reply EXCEPT ![p] = NoReply]
        /\ tool' = [tool EXCEPT ![p] = "waiting"] /\ tool[p] = "asking"
        /\ UNCHANGED <<pos, exit, args, method, succeeded, storeVars, handled, applied>>
    BY <1>3 DEF Ask
  <2>2. tool' \in [Run -> {"ready", "asking", "waiting", "exited"}]
        /\ tool'[p] = "waiting" /\ \A q \in Run : q # p => tool'[q] = tool[q]
    BY <2>1 DEF TypeOK
  <2>3. reply' \in [Run -> Reply] /\ reply'[p] = NoReply
        /\ \A q \in Run : q # p => reply'[q] = reply[q]
    <3>1. NoReply \in Reply
      BY DEF NoReply, Replied, Reply
    <3> QED
      BY <2>1, <3>1 DEF TypeOK
  <2>4. TypeOK'
    <3>1. new \in [run : Run, pos : Nat, op : Op]
      BY <1>3, RequestTyped DEF TypeOK
    <3> QED
      BY <2>1, <2>2, <2>3, <3>1 DEF TypeOK, storeVars
  <2>5. WireInv'
    <3>1. \A q \in Run : Request(q)' = Request(q)
      BY <2>1, SameRequest
    <3>2. ASSUME NEW m \in wire
          PROVE  /\ m.pos = pos'[m.run] /\ m.op = Request(m.run)'
                 /\ tool'[m.run] \in {"waiting", "exited"} /\ method'[m.run] # "none"
      BY <1>1, <2>1, <2>2, <3>1 DEF WireInv
    <3>3. /\ new.pos = pos'[new.run] /\ new.op = Request(new.run)'
          /\ tool'[new.run] \in {"waiting", "exited"} /\ method'[new.run] # "none"
      BY <1>3, <2>1, <2>2, <3>1
    <3> QED
      BY <2>1, <3>2, <3>3 DEF WireInv
  <2>6. ReplyInv'
    BY <2>1, <2>2, <2>3 DEF ReplyInv
  <2>7. OrderInv'
    BY <2>1, <2>2 DEF OrderInv, NoGaps
  <2>8. VersionInv'
    <3>1. \A a \in applied : a.run \in Run
      BY DEF VersionInv, Change
    <3> QED
      BY <2>1, <2>2, <3>1 DEF VersionInv, storeVars
  <2>9. CasInv'
    BY <2>1 DEF CasInv, Conditional
  <2> QED
    BY <2>4, <2>5, <2>6, <2>7, <2>8, <2>9
<1> QED
  BY <1>2, <1>3

(* A response: a run goes on only when its request has been taken up. *)
LEMMA AnsweredInv ==
  ASSUME Inv, NEW p \in Run, Answered(p)
  PROVE  Inv'
<1>1. PICK r \in Response(p) :
        /\ IF Verdict(p, r) = "next" THEN NextKey(p)
           ELSE Exit(p, Verdict(p, r)) /\ UNCHANGED pos
        /\ succeeded' = IF SaysSuccess(p, r) THEN succeeded \cup {p} ELSE succeeded
  BY DEF Answered
<1>2. /\ tool[p] = "waiting" /\ tool[p] # "ready" /\ succeeded' \subseteq Run
      /\ UNCHANGED <<args, method, storeVars, wire, reply, handled, applied>>
  BY <1>1 DEF Answered, Inv, TypeOK
<1>3. CASE Verdict(p, r) = "next"
  <2>1. r.code = 200
    BY <1>3 DEF Verdict, Failed
  <2>2. r # NoReply
    BY <2>1 DEF NoReply, Replied
  <2>3. reply[p] # NoReply
    BY <2>2 DEF Response
  <2>4. <<p, pos[p]>> \in handled /\ \A m \in wire : m.run # p
    BY <1>2, <2>3 DEF Inv, ReplyInv
  <2>5. NextKey(p) /\ TypeOK
    BY <1>1, <1>3 DEF Inv
  <2> QED
    BY <1>2, <2>4, <2>5, NextKeyEffect, OwnStep
<1>4. CASE Verdict(p, r) # "next"
  <2>1. /\ tool' = [tool EXCEPT ![p] = "exited"]
        /\ exit' = [exit EXCEPT ![p] = Verdict(p, r)] /\ pos' = pos
    BY <1>1, <1>4 DEF Exit
  <2>2. Verdict(p, r) \in {"TEMPFAIL", "PROTOCOL", "CANTCREAT", "ABORT"}
    BY <1>4 DEF Verdict
  <2>3. exit' \in [Run -> {"none", "OK", "USAGE", "TEMPFAIL", "PROTOCOL",
                          "CANTCREAT", "ABORT"}]
    BY <2>1, <2>2 DEF Inv, TypeOK
  <2>4. tool' \in [Run -> {"ready", "asking", "waiting", "exited"}]
        /\ tool'[p] = "exited" /\ \A q \in Run : q # p => tool'[q] = tool[q]
    BY <2>1 DEF Inv, TypeOK
  <2>5. pos' \in [Run -> Nat] /\ \A q \in Run : pos'[q] \in 1 .. Len(args[q].keys)
    BY <2>1 DEF Inv, TypeOK
  <2> QED
    BY <1>2, <2>1, <2>3, <2>4, <2>5, OwnStep
<1> QED
  BY <1>3, <1>4

(* The agent takes up a request, which may be a run's that has long exited.*)
LEMMA HandleInv ==
  ASSUME Inv, NEW m \in wire, Handle(m)
  PROVE  Inv'
<1> DEFINE p == m.run
           new == {[run |-> p, key |-> k, over |-> store[k].modify, at |-> index']
                     : k \in Changed}
<1>1. /\ p \in Run /\ m.pos = pos[p] /\ m.op = Request(p) /\ m.op \in Op
      /\ tool[p] \in {"waiting", "exited"} /\ method[p] # "none"
      /\ m = [run |-> p, pos |-> pos[p], op |-> Request(p)]
  BY DEF Inv, WireInv, TypeOK
<1>2. \A n \in wire : n.run = p => n = m
  <2>1. ASSUME NEW n \in wire, n.run = p PROVE n = m
    <3>1. n.pos = pos[p] /\ n.op = Request(p) /\ n \in [run : Run, pos : Nat, op : Op]
      BY <2>1 DEF Inv, WireInv, TypeOK
    <3> QED
      BY <1>1, <2>1, <3>1
  <2> QED
    BY <2>1
<1>3. /\ wire' = wire \ {m} /\ UNCHANGED toolVars
      /\ handled' = handled \cup {<<p, pos[p]>>} /\ applied' = applied \cup new
  BY <1>1 DEF Handle
<1>4. PICK r \in Reply : Perform(m.op, r) /\
        reply' = IF tool[p] = "waiting" /\ pos[p] = m.pos
                 THEN [reply EXCEPT ![p] = r] ELSE reply
  <2>1. \A n \in 1 .. Cardinality(Key) : n \in Nat
    OBVIOUS
  <2> DEFINE R == {Replied(200, "true", 0), Replied(200, "false", 0),
                   Replied(400, "json", 0), Replied(404, "json", 0),
                   Replied(500, "json", 0)}
                  \cup {Replied(200, t, n) : t \in {"json", "null"}, n \in 1 .. Cardinality(Key)}
  <2>2. R \subseteq Reply
    BY <2>1 DEF Replied, Reply
  <2>3. \E r \in R : Perform(m.op, r) /\
          reply' = IF tool[p] = "waiting" /\ pos[p] = m.pos
                   THEN [reply EXCEPT ![p] = r] ELSE reply
    BY DEF Handle
  <2> HIDE DEF R
  <2> QED
    BY <2>2, <2>3
<1>5. /\ index \in Nat /\ index' \in Nat /\ index <= index'
      /\ store \in [Key -> Entry] /\ store' \in [Key -> Entry]
      /\ \A k \in Key : store'[k] # store[k] =>
           /\ index' = index + 1 /\ store'[k].modify \in {0, index'}
           /\ m.op.method \in {"PUT", "DELETE"}
           /\ m.op.cas # NoCas => m.op.cas = store[k].modify
  BY <1>1, <1>4, PerformEffect DEF Inv, TypeOK
<1>6. reply' \in [Run -> Reply] /\ \A q \in Run : q # p => reply'[q] = reply[q]
  BY <1>1, <1>4 DEF Inv, TypeOK
<1>7. \A k \in Key : store[k].modify \in Nat /\ store'[k].modify \in Nat
  BY <1>5 DEF Entry
<1> HIDE DEF p
<1>8. TypeOK'
  <2>1. live' \subseteq Session
    BY <1>4 DEF Perform, Inv, TypeOK
  <2> QED
    BY <1>3, <1>5, <1>6, <2>1 DEF Inv, TypeOK, toolVars
<1>9. WireInv'
  <2>1. \A q \in Run : Request(q)' = Request(q)
    BY <1>3, SameRequest DEF toolVars
  <2>2. \A n \in wire : n.run \in Run
    BY DEF Inv, TypeOK
  <2> QED
    BY <1>3, <2>1, <2>2 DEF WireInv, Inv, toolVars
<1>10. ReplyInv'
  <2>1. \A n \in wire' : n.run # p
    BY <1>2, <1>3
  <2> QED
    BY <1>1, <1>3, <1>6, <2>1 DEF ReplyInv, Inv, toolVars
<1>11. OrderInv'
  <2>1. \A i \in 1 .. pos[p] - 1 : <<p, i>> \in handled
    BY <1>1 DEF Inv, OrderInv
  <2>2. NoGaps'
    <3>1. ASSUME NEW h \in handled', NEW i \in 1 .. h[2] - 1
          PROVE  <<h[1], i>> \in handled'
      <4>1. CASE h \in handled
        BY <1>3, <3>1, <4>1 DEF Inv, OrderInv, NoGaps
      <4>2. CASE h = <<p, pos[p]>>
        BY <1>3, <2>1, <3>1, <4>2
      <4> QED
        BY <1>3, <4>1, <4>2
    <3> QED
      BY <3>1 DEF NoGaps
  <2> QED
    BY <1>3, <2>2 DEF Inv, OrderInv, toolVars
<1>12. \A a \in new : /\ a \in Change /\ a.run = p /\ a.key \in Changed
                     /\ a.over = store[a.key].modify /\ a.at = index'
                     /\ a = [run |-> p, key |-> a.key,
                             over |-> store[a.key].modify, at |-> index']
  BY <1>1, <1>5, <1>7 DEF Change, Changed
<1> HIDE DEF new
<1>13. VersionInv'
  <2>1. ASSUME NEW k \in Key PROVE store'[k].modify <= index'
    BY <1>5, <1>7, <2>1 DEF Inv, VersionInv
  <2>2. applied' \subseteq Change
    BY <1>3, <1>12 DEF Inv, VersionInv
  <2>3. ASSUME NEW a \in applied
        PROVE  /\ a.over < a.at /\ a.at <= index'
               /\ store'[a.key].modify = 0 \/ a.at <= store'[a.key].modify
               /\ tool'[a.run] # "ready"
    <3>1. a.at \in Nat /\ a.over \in Nat /\ a.key \in Key
      BY DEF Inv, VersionInv, Change
    <3>2. /\ a.over < a.at /\ a.at <= index /\ tool[a.run] # "ready"
          /\ store[a.key].modify = 0 \/ a.at <= store[a.key].modify
      BY DEF Inv, VersionInv
    <3> QED
      BY <1>3, <1>5, <1>7, <3>1, <3>2 DEF toolVars
  <2>4. ASSUME NEW a \in new
        PROVE  /\ a.over < a.at /\ a.at <= index'
               /\ store'[a.key].modify = 0 \/ a.at <= store'[a.key].modify
               /\ tool'[a.run] # "ready"
    <3>1. a.key \in Key /\ store'[a.key] # store[a.key]
      BY <1>12 DEF Changed
    <3>2. index' = index + 1 /\ store'[a.key].modify \in {0, index'}
      BY <1>5, <3>1
    <3>3. store[a.key].modify <= index /\ store[a.key].modify \in Nat
      BY <1>7, <3>1 DEF Inv, VersionInv
    <3> QED
      BY <1>1, <1>3, <1>5, <1>12, <3>2, <3>3 DEF toolVars
  <2>5. ASSUME NEW a \in applied, NEW b \in new,
               a.key = b.key, a.over = b.over, a.over # 0
        PROVE  FALSE
    <3>1. a.over = store[a.key].modify
      BY <1>12, <2>5
    <3>2. /\ a.over < a.at /\ a.at \in Nat /\ a.over \in Nat
          /\ store[a.key].modify = 0 \/ a.at <= store[a.key].modify
      BY DEF Inv, VersionInv, Change
    <3> QED
      BY <2>5, <3>1, <3>2
  <2>6. ASSUME NEW a \in new, NEW b \in new, a.key = b.key PROVE a = b
    BY <1>12, <2>6
  <2>7. ASSUME NEW a \in applied', NEW b \in applied',
               a.key = b.key, a.over = b.over, a.over # 0
        PROVE  a = b
    BY <1>3, <2>5, <2>6, <2>7 DEF Inv, VersionInv
  <2> QED
    BY <1>3, <2>1, <2>2, <2>3, <2>4, <2>7 DEF VersionInv
<1>14. CasInv'
  <2>1. ASSUME NEW a \in new, Conditional(a.run) PROVE a.over = args[a.run].cas
    <3>1. a.run = p /\ m.op.cas = args[p].cas /\ args[p].cas # NoCas
      BY <1>1, <1>12, <2>1 DEF Conditional, Request, CasOf
    <3> QED
      BY <1>5, <1>12, <3>1 DEF Changed
  <2> QED
    BY <1>3, <2>1 DEF CasInv, Conditional, Inv, toolVars
<1> QED
  BY <1>8, <1>9, <1>10, <1>11, <1>13, <1>14 DEF Inv

(* The end of a session changes holders and no versions. *)
LEMMA ExpiresInv ==
  ASSUME Inv, NEW s \in Session, Expires(s)
  PROVE  Inv'
<1>1. /\ UNCHANGED <<toolVars, wire, reply, handled, applied>> /\ UNCHANGED index
      /\ live' \subseteq Session
      /\ store' = [k \in Key |-> IF store[k].holder = s
                                THEN [store[k] EXCEPT !.holder = NoSession]
                                ELSE store[k]]
  BY DEF Expires, Invalidate, Inv, TypeOK
<1>2. ASSUME NEW k \in Key
      PROVE  store'[k] \in Entry /\ store'[k].modify = store[k].modify
  <2>1. store[k] \in Entry
    BY DEF Inv, TypeOK
  <2> QED
    BY <1>1, <2>1 DEF Entry
<1>3. store' \in [Key -> Entry]
  BY <1>1, <1>2
<1>4. TypeOK'
  BY <1>1, <1>3 DEF Inv, TypeOK, toolVars
<1>5. WireInv'
  <2>1. \A q : Request(q)' = Request(q)
    BY <1>1, SameRequest DEF toolVars
  <2> QED
    BY <1>1, <2>1 DEF Inv, WireInv, toolVars
<1>6. ReplyInv' /\ OrderInv' /\ CasInv'
  BY <1>1 DEF Inv, ReplyInv, OrderInv, NoGaps, CasInv, Conditional, toolVars
<1>7. VersionInv'
  <2>1. \A a \in applied : a.key \in Key
    BY DEF Inv, VersionInv, Change
  <2> QED
    BY <1>1, <1>2, <2>1 DEF Inv, VersionInv, toolVars
<1> QED
  BY <1>4, <1>5, <1>6, <1>7 DEF Inv

LEMMA StepInv == Inv /\ [Next]_vars => Inv'
<1> SUFFICES ASSUME Inv, [Next]_vars PROVE Inv'
  OBVIOUS
<1>1. ASSUME NEW p \in Run, Start(p) \/ Ask(p) \/ Answered(p) PROVE Inv'
  BY <1>1, StartInv, AskInv, AnsweredInv
<1>2. ASSUME NEW m \in wire, Handle(m) PROVE Inv'
  BY <1>2, HandleInv
<1>3. ASSUME NEW s \in Session, Expires(s) PROVE Inv'
  BY <1>3, ExpiresInv
<1>4. CASE UNCHANGED vars
  BY <1>4 DEF vars, toolVars, storeVars, Inv, TypeOK, WireInv, ReplyInv, OrderInv,
              NoGaps, VersionInv, CasInv, Conditional, Request, CasOf, SessionOf
<1> QED
  BY <1>1, <1>2, <1>3, <1>4 DEF Next

LEMMA Invariance == Spec => []Inv
BY InitInv, StepInv, PTL DEF Spec

-----------------------------------------------------------------------------
(* The state of store and runs is well typed, for any command lines.       *)
THEOREM TypeCorrect == Spec => []TypeOK
<1>1. Inv => TypeOK
  BY DEF Inv
<1> QED
  BY <1>1, Invariance, PTL

(* A version of a key that several runs, rivals or retries, were given with*)
(* --cas is replaced by one of them at most, once at most.                 *)
THEOREM RetriesAreSafe == Spec => []RetryIsSafe
<1>1. Inv => RetryIsSafe
  <2> SUFFICES ASSUME Inv, NEW a \in applied, NEW b \in applied, a.key = b.key,
                      Conditional(a.run), Conditional(b.run),
                      args[a.run].cas = args[b.run].cas
               PROVE  a = b
    BY DEF RetryIsSafe
  <2>1. a.over = args[a.run].cas /\ b.over = args[b.run].cas /\ a.over # 0
    BY DEF Inv, CasInv, Conditional
  <2> QED
    BY <2>1 DEF Inv, VersionInv
<1> QED
  BY <1>1, Invariance, PTL

(* The requests for a list of keys are taken up in the order of the list.  *)
THEOREM ListsHaveNoGaps == Spec => []NoGaps
<1>1. Inv => NoGaps
  BY DEF Inv, OrderInv
<1> QED
  BY <1>1, Invariance, PTL

-----------------------------------------------------------------------------
(* What a run prints and exits with *)

Single(p) == Len(args[p].keys) = 1

Unwritten(p) == \A a \in applied : a.run # p
Written(p) == \E a \in applied : /\ a.run = p /\ a.key = args[p].keys[1]
                                 /\ args[p].cas \in {NoCas, a.over}

Waits(p, text) == tool[p] = "waiting" /\ method[p] = "PUT" /\ reply[p].text = text

(* PUT is refused several keys, if it is asked for. *)
PutInv == \A p \in Run : method[p] = "PUT" => Single(p) \/ args[p].method = "unset"

(* What a run of one key has done, and what it knows of that. *)
Knows(p) ==
  /\ tool[p] \in {"ready", "asking"} => Unwritten(p)
  /\ (\E m \in wire : m.run = p) => Unwritten(p)
  /\ Waits(p, "true") => Written(p)
  /\ Waits(p, "false") => Unwritten(p)
  /\ p \in succeeded => Written(p)
  /\ exit[p] = "CANTCREAT" => Unwritten(p)
KnowsInv == \A p \in Run : Single(p) => Knows(p)

(* How a run came to what it printed. *)
EndInv ==
  \A p \in Run :
    /\ p \in succeeded => method[p] = "PUT" /\ tool[p] # "ready"
    /\ exit[p] = "CANTCREAT" => /\ tool[p] = "exited" /\ method[p] = "PUT"
                                /\ \A m \in wire : m.run # p

(* The lock of a live session is its own until the key is deleted. *)
Held(a) == \/ store[a.key].holder = args[a.run].session
           \/ \E d \in applied : /\ d.key = a.key /\ d.at > a.at
                                 /\ method[d.run] = "DELETE"
LockInv ==
  \A a \in applied :
    method[a.run] = "PUT" /\ args[a.run].session \in live => Held(a)

TruthInv == PutInv /\ KnowsInv /\ EndInv /\ LockInv

-----------------------------------------------------------------------------
LEMMA InitTruth == Init => TruthInv
<1> SUFFICES ASSUME Init PROVE TruthInv
  OBVIOUS
<1>1. \A p \in Run : /\ tool[p] = "ready" /\ method[p] = "none" /\ exit[p] = "none"
  BY DEF Init
<1>2. wire = {} /\ applied = {} /\ succeeded = {}
  BY DEF Init
<1> QED
  BY <1>1, <1>2 DEF TruthInv, PutInv, KnowsInv, Knows, Waits, Unwritten, EndInv, LockInv

(* A run that does not move, while the store and its history stand still,  *)
(* knows what it knew.                                                     *)
LEMMA StillKnows ==
  ASSUME NEW q, Knows(q), applied' = applied, args' = args,
         tool'[q] = tool[q], method'[q] = method[q], reply'[q] = reply[q],
         exit'[q] = exit[q], q \in succeeded' => q \in succeeded,
         (\E m \in wire' : m.run = q) => \E m \in wire : m.run = q
  PROVE  Knows(q)'
BY DEF Knows, Waits, Unwritten, Written

(* The locks while the store and its history stand still. *)
LEMMA LocksStand ==
  ASSUME Inv, LockInv, UNCHANGED <<storeVars, args, applied>>,
         \A a \in applied : method'[a.run] = method[a.run]
  PROVE  LockInv'
BY DEF LockInv, Held, storeVars

-----------------------------------------------------------------------------
LEMMA StartTruth ==
  ASSUME Inv, TruthInv, NEW p \in Run, Start(p)
  PROVE  TruthInv'
<1> USE DEF TruthInv
<1>1. /\ UNCHANGED <<args, pos, succeeded, storeVars, wire, reply, handled, applied>>
      /\ tool[p] = "ready"
  BY DEF Start
<1>2. \A q \in Run : q # p =>
        tool'[q] = tool[q] /\ method'[q] = method[q] /\ exit'[q] = exit[q]
  BY DEF Start, Exit, Inv, TypeOK
<1>3. /\ tool'[p] \in {"asking", "exited"}
      /\ exit'[p] # "CANTCREAT"
  <2>1. exit[p] # "CANTCREAT"
    BY <1>1 DEF EndInv
  <2> QED
    BY <2>1 DEF Start, Exit, Inv, TypeOK
<1>4. method'[p] = "PUT" => Single(p) \/ args[p].method = "unset"
  <2>1. SUFFICES ASSUME method'[p] = "PUT" PROVE Single(p) \/ args[p].method = "unset"
    OBVIOUS
  <2>2. CASE Misused(args[p])
    <3>1. method'[p] = method[p] \/ method'[p] = "none" \/ UNCHANGED method
      BY <2>2 DEF Start
    <3>2. method[p] = "none"
      BY <1>1 DEF Inv, OrderInv
    <3>3. UNCHANGED method \/ method'[p] # "PUT"
      BY <2>2, <3>1, <3>2 DEF Start
    <3> QED
      BY <2>1, <3>2, <3>3
  <2>3. CASE ~Misused(args[p])
    <3>1. method'[p] \in MethodOf(args[p])
      BY <2>3 DEF Start, Inv, TypeOK
    <3>2. args[p].method \in {"PUT", "unset"}
      BY <2>1, <3>1 DEF MethodOf
    <3>3. args[p] \in Arguments /\ args[p].keys # <<>>
      BY ToolAssumption DEF Inv, TypeOK
    <3>4. Len(args[p].keys) \in Nat \ {0}
      BY <3>3 DEF Arguments
    <3>5. \A n \in Nat \ {0} : n > 1 \/ n = 1
      OBVIOUS
    <3>6. args[p].method = "PUT" => ~(Len(args[p].keys) > 1)
      BY <2>3 DEF Misused
    <3> QED
      BY <3>2, <3>4, <3>5, <3>6 DEF Single
  <2> QED
    BY <2>2, <2>3
<1>5. PutInv'
  BY <1>1, <1>2, <1>4 DEF PutInv, Single
<1>6. p \notin succeeded /\ \A m \in wire : m.run # p
  BY <1>1 DEF EndInv, Inv, WireInv
<1>7. KnowsInv'
  <2>1. SUFFICES ASSUME NEW q \in Run, Single(q)' PROVE Knows(q)'
    BY DEF KnowsInv
  <2>2. Knows(q)
    BY <1>1, <2>1 DEF KnowsInv, Single
  <2>3. CASE q = p
    BY <1>1, <1>3, <1>6, <2>2, <2>3 DEF Knows, Waits, Unwritten
  <2>4. CASE q # p
    BY <1>1, <1>2, <2>2, <2>4, StillKnows
  <2> QED
    BY <2>3, <2>4
<1>8. EndInv'
  BY <1>1, <1>2, <1>3, <1>6 DEF EndInv
<1>9. LockInv'
  <2>1. \A a \in applied : a.run \in Run /\ a.run # p
    BY <1>1 DEF Inv, VersionInv, Change
  <2> QED
    BY <1>1, <1>2, <2>1, LocksStand
<1> QED
  BY <1>5, <1>7, <1>8, <1>9

LEMMA AskTruth ==
  ASSUME Inv, TruthInv, NEW p \in Run, Ask(p)
  PROVE  TruthInv'
<1> USE DEF TruthInv
<1>1. /\ UNCHANGED <<args, method, succeeded, storeVars, handled, applied>>
      /\ tool[p] = "asking"
  BY DEF Ask
<1>2. \A q \in Run : q # p =>
        tool'[q] = tool[q] /\ reply'[q] = reply[q] /\ exit'[q] = exit[q]
  BY DEF Ask, Exit, Inv, TypeOK
<1>3. /\ tool'[p] = "waiting" => reply'[p] = NoReply
      /\ tool'[p] \in {"waiting", "exited"} /\ exit'[p] # "CANTCREAT"
  <2>1. exit[p] # "CANTCREAT"
    BY <1>1 DEF EndInv
  <2> QED
    BY <2>1 DEF Ask, Exit, Inv, TypeOK
<1>4. \A m \in wire' : m \in wire \/ m.run = p
  BY DEF Ask
<1>5. PutInv'
  BY <1>1 DEF PutInv, Single
<1>6. KnowsInv'
  <2>1. SUFFICES ASSUME NEW q \in Run, Single(q)' PROVE Knows(q)'
    BY DEF KnowsInv
  <2>2. Knows(q)
    BY <1>1, <2>1 DEF KnowsInv, Single
  <2>3. CASE q = p
    <3>1. Unwritten(p)'
      BY <1>1, <2>2, <2>3 DEF Knows, Unwritten
    <3>2. ~Waits(p, "true")' /\ ~Waits(p, "false")'
      BY <1>3 DEF Waits, NoReply, Replied
    <3>3. p \in succeeded => Written(p)'
      BY <1>1, <2>2, <2>3 DEF Knows, Written
    <3> QED
      BY <1>1, <2>3, <3>1, <3>2, <3>3 DEF Knows
  <2>4. CASE q # p
    BY <1>1, <1>2, <1>4, <2>2, <2>4, StillKnows
  <2> QED
    BY <2>3, <2>4
<1>7. EndInv'
  BY <1>1, <1>2, <1>3, <1>4 DEF EndInv
<1>8. LockInv'
  BY <1>1, LocksStand
<1> QED
  BY <1>5, <1>6, <1>7, <1>8

(* "true" and "false" are what the agent sent, whole. *)
LEMMA ResponseWhole ==
  ASSUME NEW p, NEW r \in Response(p), r.text \in {"true", "false"}
  PROVE  r = reply[p] /\ reply[p] # NoReply
<1>1. NoReply.text = "cut"
  BY DEF NoReply, Replied
<1>2. CASE reply[p] = NoReply
  BY <1>1, <1>2 DEF Response
<1>3. CASE reply[p] # NoReply
  <2>1. r = NoReply \/ r = reply[p] \/ \E t \in {"cut", "odd"} : r = [reply[p] EXCEPT !.text = t]
    BY <1>3 DEF Response
  <2>2. ASSUME NEW t \in {"cut", "odd"}, r = [reply[p] EXCEPT !.text = t] PROVE FALSE
    BY <2>2
  <2> QED
    BY <1>1, <1>3, <2>1, <2>2
<1> QED
  BY <1>2, <1>3

(* A whole "true" or "false" says what became of the request.              *)
LEMMA AnsweredTruth ==
  ASSUME Inv, TruthInv, NEW p \in Run, Answered(p)
  PROVE  TruthInv'
<1> USE DEF TruthInv
<1>1. PICK r \in Response(p) :
        /\ IF Verdict(p, r) = "next" THEN NextKey(p)
           ELSE Exit(p, Verdict(p, r)) /\ UNCHANGED pos
        /\ succeeded' = IF SaysSuccess(p, r) THEN succeeded \cup {p} ELSE succeeded
  BY DEF Answered
<1>2. /\ UNCHANGED <<args, method, storeVars, wire, reply, handled, applied>>
      /\ tool[p] = "waiting"
  BY DEF Answered
<1>3. \A q \in Run : q # p =>
        /\ tool'[q] = tool[q] /\ exit'[q] = exit[q]
        /\ q \in succeeded' => q \in succeeded
  <2>1. \A q \in Run : q # p => (q \in succeeded' => q \in succeeded)
    BY <1>1
  <2>2. \A q \in Run : q # p => tool'[q] = tool[q] /\ exit'[q] = exit[q]
    BY <1>1 DEF NextKey, Exit, Inv, TypeOK
  <2> QED
    BY <2>1, <2>2
<1>4. exit[p] # "CANTCREAT"
  BY <1>2 DEF EndInv
<1>5. p \in succeeded' =>
        p \in succeeded \/ (r.text = "true" /\ Waits(p, "true"))
  <2>1. SUFFICES ASSUME SaysSuccess(p, r) PROVE r.text = "true" /\ Waits(p, "true")
    BY <1>1
  <2>2. r.text = "true" /\ method[p] = "PUT"
    BY <2>1 DEF SaysSuccess
  <2> QED
    BY <1>2, <2>2, ResponseWhole DEF Waits
<1>6. exit'[p] = "CANTCREAT" =>
        /\ Waits(p, "false") /\ tool'[p] = "exited" /\ \A m \in wire : m.run # p
  <2>1. SUFFICES ASSUME exit'[p] = "CANTCREAT"
                 PROVE  /\ Waits(p, "false") /\ tool'[p] = "exited"
                        /\ \A m \in wire : m.run # p
    OBVIOUS
  <2>2. Verdict(p, r) # "next"
    BY <1>1, <1>4, <2>1 DEF NextKey, Exit, Inv, TypeOK
  <2>3. /\ tool'[p] = "exited" /\ exit'[p] = Verdict(p, r)
    BY <1>1, <2>2 DEF Exit, Inv, TypeOK
  <2>4. method[p] = "PUT" /\ r.text = "false"
    BY <2>1, <2>3 DEF Verdict, NotPut
  <2>5. r = reply[p] /\ reply[p] # NoReply
    BY <2>4, ResponseWhole
  <2> QED
    BY <1>2, <2>3, <2>4, <2>5 DEF Waits, Inv, ReplyInv
<1>7. Single(p) => tool'[p] = "exited"
  <2>1. SUFFICES ASSUME Single(p) PROVE tool'[p] = "exited"
    OBVIOUS
  <2>2. pos[p] \in 1 .. Len(args[p].keys) /\ Len(args[p].keys) = 1
    BY <2>1 DEF Single, Inv, TypeOK
  <2>3. ~MoreKeys(p)
    BY <2>2 DEF MoreKeys
  <2> QED
    BY <1>1, <2>3 DEF NextKey, Exit, Inv, TypeOK
<1>8. tool'[p] \in {"asking", "exited"}
  BY <1>1 DEF NextKey, Exit, Inv, TypeOK
<1>9. PutInv'
  BY <1>2 DEF PutInv, Single
<1>10. KnowsInv'
  <2>1. SUFFICES ASSUME NEW q \in Run, Single(q)' PROVE Knows(q)'
    BY DEF KnowsInv
  <2>2. Knows(q) /\ Single(q)
    BY <1>2, <2>1 DEF KnowsInv, Single
  <2>3. CASE q = p
    <3>1. /\ Written(p)' = Written(p) /\ Unwritten(p)' = Unwritten(p)
      BY <1>2 DEF Written, Unwritten
    <3>2. tool'[p] = "exited"
      BY <1>7, <2>2, <2>3
    <3>3. p \in succeeded' => Written(p)'
      BY <1>5, <2>2, <2>3, <3>1 DEF Knows
    <3>4. exit'[p] = "CANTCREAT" => Unwritten(p)'
      BY <1>6, <2>2, <2>3, <3>1 DEF Knows
    <3>5. (\E m \in wire' : m.run = p) => Unwritten(p)'
      BY <1>2, <2>2, <2>3, <3>1 DEF Knows
    <3>6. ~Waits(p, "true")' /\ ~Waits(p, "false")'
      BY <3>2 DEF Waits
    <3> QED
      BY <2>3, <3>2, <3>3, <3>4, <3>5, <3>6 DEF Knows
  <2>4. CASE q # p
    <3>1. /\ applied' = applied /\ args' = args /\ wire' = wire
          /\ method'[q] = method[q] /\ reply'[q] = reply[q]
      BY <1>2
    <3>2. tool'[q] = tool[q] /\ exit'[q] = exit[q]
      BY <1>3, <2>4
    <3>3. q \in succeeded' => q \in succeeded
      BY <1>3, <2>4
    <3>4. (\E m \in wire' : m.run = q) => \E m \in wire : m.run = q
      BY <3>1
    <3> QED
      BY <2>2, <3>1, <3>2, <3>3, <3>4, StillKnows
  <2> QED
    BY <2>3, <2>4
<1>11. EndInv'
  <2>1. SUFFICES ASSUME NEW q \in Run
                 PROVE  /\ q \in succeeded' => method'[q] = "PUT" /\ tool'[q] # "ready"
                        /\ exit'[q] = "CANTCREAT" =>
                             /\ tool'[q] = "exited" /\ method'[q] = "PUT"
                             /\ \A m \in wire' : m.run # q
    BY DEF EndInv
  <2>2. CASE q = p
    <3>1. p \in succeeded' => method[p] = "PUT"
      BY <1>5 DEF EndInv, Waits
    <3>2. exit'[p] = "CANTCREAT" => method[p] = "PUT"
      BY <1>6 DEF Waits
    <3> QED
      BY <1>2, <1>6, <1>8, <2>2, <3>1, <3>2
  <2>3. CASE q # p
    <3>1. /\ q \in succeeded => method[q] = "PUT" /\ tool[q] # "ready"
          /\ exit[q] = "CANTCREAT" => /\ tool[q] = "exited" /\ method[q] = "PUT"
                                      /\ \A m \in wire : m.run # q
      BY DEF EndInv
    <3>2. tool'[q] = tool[q] /\ exit'[q] = exit[q]
      BY <1>3, <2>3
    <3>3. q \in succeeded' => q \in succeeded
      BY <1>3, <2>3
    <3> QED
      BY <1>2, <3>1, <3>2, <3>3
  <2> QED
    BY <2>2, <2>3
<1>12. LockInv'
  BY <1>2, LocksStand
<1> QED
  BY <1>9, <1>10, <1>11, <1>12

-----------------------------------------------------------------------------
(* What a request may do to the holders: a PUT changes its own key, to be  *)
(* its session's if it names one, and only if nobody else holds the key;   *)
(* whether it changed anything is what a reply "true" or "false" says.     *)
LEMMA PerformHolders ==
  ASSUME index \in Nat, store \in [Key -> Entry],
         \A k \in Key : store[k].modify <= index,
         NEW op \in Op, NEW r, Perform(op, r)
  PROVE  /\ r.text = "false" => store' = store
         /\ op.method = "PUT" /\ r.text = "true" => store'[op.key] # store[op.key]
         /\ op.method = "PUT" => \A k \in Key : store'[k] # store[k] =>
              /\ k = op.key
              /\ op.session = NoSession => store'[k].holder = store[k].holder
              /\ op.session # NoSession =>
                   /\ store'[k].holder = op.session
                   /\ store[k].holder \in {NoSession, op.session}
<1>1. CASE Untouched /\ ~(op.method = "PUT" /\ r.text = "true")
  BY <1>1 DEF Untouched
<1>2. CASE op.method = "PUT" /\ Holds(op) /\ Write(op) /\ r.text = "true"
  <2> DEFINE new == [modify |-> index + 1,
                     holder |-> IF op.session = NoSession
                                THEN store[op.key].holder ELSE op.session]
  <2>1. op.key \in Key
    BY DEF Op
  <2>2. store' = [store EXCEPT ![op.key] = new]
    BY <1>2 DEF Write
  <2>3. \A k \in Key : k # op.key => store'[k] = store[k]
    BY <2>2
  <2>4. store'[op.key] = new
    BY <2>1, <2>2
  <2>5. store'[op.key] # store[op.key]
    <3>1. store[op.key].modify \in Nat /\ store[op.key].modify <= index
      BY <2>1 DEF Entry
    <3>2. new.modify = index + 1
      OBVIOUS
    <3>3. new.modify # store[op.key].modify
      BY <3>1, <3>2
    <3> QED
      BY <2>4, <3>3
  <2>6. /\ op.session = NoSession => new.holder = store[op.key].holder
        /\ op.session # NoSession => new.holder = op.session
    OBVIOUS
  <2>7. op.session # NoSession => store[op.key].holder \in {NoSession, op.session}
    BY <1>2 DEF Holds
  <2> HIDE DEF new
  <2> QED
    BY <1>2, <2>1, <2>3, <2>4, <2>5, <2>6, <2>7
<1>3. CASE op.method = "DELETE" /\ r.text = "true"
  BY <1>3
<1>4. \A c \in Nat, n \in Nat : Replied(c, "json", n).text = "json"
  BY DEF Replied
<1> QED
  BY <1>1, <1>2, <1>3 DEF Perform, Replied

(* What the agent does with a request, and what it notes down.             *)
LEMMA HandleEffect ==
  ASSUME Inv, NEW m \in wire, Handle(m)
  PROVE  /\ m.run \in Run /\ m.pos = pos[m.run] /\ m.op = Request(m.run) /\ m.op \in Op
         /\ tool[m.run] \in {"waiting", "exited"} /\ wire' = wire \ {m}
         /\ \A n \in wire' : n.run # m.run
         /\ UNCHANGED <<toolVars, live>>
         /\ \E r : /\ Perform(m.op, r)
                   /\ tool[m.run] = "waiting" => reply'[m.run] = r
         /\ \A q \in Run : q # m.run => reply'[q] = reply[q]
         /\ \A k \in Key : store'[k] # store[k] =>
              [run |-> m.run, key |-> k, over |-> store[k].modify, at |-> index'] \in applied'
         /\ \A a \in applied' : a \in applied \/
              /\ a.run = m.run /\ a.key \in Key /\ store'[a.key] # store[a.key]
         /\ applied \subseteq applied'
<1> DEFINE p == m.run
<1>1. /\ p \in Run /\ m.pos = pos[p] /\ m.op = Request(p) /\ m.op \in Op
      /\ tool[p] \in {"waiting", "exited"}
      /\ m = [run |-> p, pos |-> pos[p], op |-> Request(p)]
  BY DEF Inv, WireInv, TypeOK
<1>2. \A n \in wire : n.run = p => n = m
  <2>1. ASSUME NEW n \in wire, n.run = p PROVE n = m
    <3>1. n.pos = pos[p] /\ n.op = Request(p) /\ n \in [run : Run, pos : Nat, op : Op]
      BY <2>1 DEF Inv, WireInv, TypeOK
    <3> QED
      BY <1>1, <2>1, <3>1
  <2> QED
    BY <2>1
<1>3. /\ wire' = wire \ {m} /\ UNCHANGED toolVars
      /\ applied' = applied \cup
           {[run |-> p, key |-> k, over |-> store[k].modify, at |-> index'] : k \in Changed}
  BY DEF Handle
<1>4. PICK r : /\ Perform(m.op, r)
               /\ reply' = IF tool[p] = "waiting" /\ pos[p] = m.pos
                           THEN [reply EXCEPT ![p] = r] ELSE reply
  <2> DEFINE R == {Replied(200, "true", 0), Replied(200, "false", 0),
                   Replied(400, "json", 0), Replied(404, "json", 0),
                   Replied(500, "json", 0)}
                  \cup {Replied(200, t, n) : t \in {"json", "null"}, n \in 1 .. Cardinality(Key)}
  <2>1. \E r \in R : /\ Perform(m.op, r)
                     /\ reply' = IF tool[p] = "waiting" /\ pos[p] = m.pos
                                 THEN [reply EXCEPT ![p] = r] ELSE reply
    BY DEF Handle
  <2> HIDE DEF R
  <2> QED
    BY <2>1
<1>5. /\ tool[p] = "waiting" => reply'[p] = r
      /\ \A q \in Run : q # p => reply'[q] = reply[q]
  BY <1>1, <1>4 DEF Inv, TypeOK
<1>6. UNCHANGED live
  BY <1>4 DEF Perform
<1> HIDE DEF p
<1>7. \A k \in Key : store'[k] # store[k] =>
        [run |-> p, key |-> k, over |-> store[k].modify, at |-> index'] \in applied'
  BY <1>3 DEF Changed
<1>8. \A a \in applied' : a \in applied \/
        /\ a.run = p /\ a.key \in Key /\ store'[a.key] # store[a.key]
  BY <1>3 DEF Changed
<1>9. \A n \in wire' : n.run # p
  BY <1>2, <1>3
<1>10. \E t : /\ Perform(m.op, t)
              /\ tool[p] = "waiting" => reply'[p] = t
  BY <1>4, <1>5
<1>11. applied \subseteq applied'
  BY <1>3
<1> QED
  BY <1>1, <1>3, <1>5, <1>6, <1>7, <1>8, <1>9, <1>10, <1>11 DEF p

(* The agent takes up a request: the reply is true to what it did, and the *)
(* locks it finds it respects.                                             *)
LEMMA HandleTruth ==
  ASSUME Inv, TruthInv, NEW m \in wire, Handle(m)
  PROVE  TruthInv'
<1> USE DEF TruthInv
<1> DEFINE p == m.run
<1>1. /\ p \in Run /\ m.pos = pos[p] /\ m.op = Request(p) /\ m.op \in Op
      /\ tool[p] \in {"waiting", "exited"} /\ wire' = wire \ {m}
      /\ \A n \in wire' : n.run # p
      /\ UNCHANGED <<toolVars, live>>
      /\ \A q \in Run : q # p => reply'[q] = reply[q]
      /\ \A k \in Key : store'[k] # store[k] =>
           [run |-> p, key |-> k, over |-> store[k].modify, at |-> index'] \in applied'
      /\ \A a \in applied' : a \in applied \/
           /\ a.run = p /\ a.key \in Key /\ store'[a.key] # store[a.key]
      /\ applied \subseteq applied'
  BY HandleEffect
<1>2. PICK r : /\ Perform(m.op, r)
               /\ tool[p] = "waiting" => reply'[p] = r
  BY HandleEffect
<1> HIDE DEF p
<1>3. UNCHANGED <<args, tool, method, pos, exit, succeeded>>
  BY <1>1 DEF toolVars
<1>4. /\ index \in Nat /\ store \in [Key -> Entry] /\ store' \in [Key -> Entry]
      /\ \A k \in Key : store'[k] # store[k] =>
           /\ index' = index + 1
           /\ m.op.method \in {"PUT", "DELETE"}
           /\ m.op.cas # NoCas => m.op.cas = store[k].modify
  BY <1>1, <1>2, PerformEffect DEF Inv, TypeOK
<1>5. /\ r.text = "false" => store' = store
      /\ m.op.method = "PUT" /\ r.text = "true" => store'[m.op.key] # store[m.op.key]
      /\ m.op.method = "PUT" => \A k \in Key : store'[k] # store[k] =>
           /\ k = m.op.key
           /\ m.op.session = NoSession => store'[k].holder = store[k].holder
           /\ m.op.session # NoSession =>
                /\ store'[k].holder = m.op.session
                /\ store[k].holder \in {NoSession, m.op.session}
  BY <1>1, <1>2, PerformHolders DEF Inv, TypeOK, VersionInv
<1>6. /\ m.op.method = method[p] /\ m.op.key = args[p].keys[pos[p]]
      /\ method[p] = "PUT" => m.op.cas = args[p].cas /\ m.op.session = args[p].session
  BY <1>1 DEF Request, CasOf, SessionOf
<1>7. m.op.key \in Key
  BY <1>1 DEF Op
<1>8. PutInv'
  BY <1>3 DEF PutInv, Single
<1>9. EndInv'
  BY <1>1, <1>3 DEF EndInv
<1>10. KnowsInv'
  <2>1. SUFFICES ASSUME NEW q \in Run, Single(q)' PROVE Knows(q)'
    BY DEF KnowsInv
  <2>2. Knows(q) /\ Single(q)
    BY <1>3, <2>1 DEF KnowsInv, Single
  <2>3. Written(q) => Written(q)'
    BY <1>1, <1>3 DEF Written
  <2>4. CASE q = p
    <3>1. Unwritten(p) /\ exit[p] # "CANTCREAT"
      BY <2>2, <2>4 DEF Knows, EndInv, p
    <3>2. Waits(p, "false")' => Unwritten(p)'
      <4>1. SUFFICES ASSUME Waits(p, "false")' PROVE Unwritten(p)'
        OBVIOUS
      <4>2. r.text = "false"
        BY <1>2, <1>3, <4>1 DEF Waits
      <4> QED
        BY <1>1, <1>5, <3>1, <4>2 DEF Unwritten
    <3>3. Waits(p, "true")' => Written(p)'
      <4>1. SUFFICES ASSUME Waits(p, "true")' PROVE Written(p)'
        OBVIOUS
      <4>2. r.text = "true" /\ method[p] = "PUT"
        BY <1>2, <1>3, <4>1 DEF Waits
      <4>3. pos[p] \in 1 .. Len(args[p].keys) /\ Len(args[p].keys) = 1
        BY <1>1, <2>2, <2>4 DEF Single, Inv, TypeOK
      <4>4. pos[p] = 1
        BY <4>3
      <4>5. m.op.key = args[p].keys[1]
        BY <1>6, <4>4
      <4>6. store'[m.op.key] # store[m.op.key]
        BY <1>5, <1>6, <4>2
      <4> DEFINE a == [run |-> p, key |-> m.op.key,
                       over |-> store[m.op.key].modify, at |-> index']
      <4>7. a \in applied'
        BY <1>1, <1>7, <4>6
      <4>8. args[p].cas \in {NoCas, a.over}
        BY <1>4, <1>6, <1>7, <4>2, <4>6
      <4>9. a.run = p /\ a.key = args[p].keys[1]
        BY <4>5
      <4> HIDE DEF a
      <4> QED
        BY <1>3, <4>7, <4>8, <4>9 DEF Written
    <3>4. tool'[p] \notin {"ready", "asking"} /\ exit'[p] # "CANTCREAT"
          /\ (p \in succeeded' => Written(p)')
      BY <1>1, <1>3, <2>2, <2>3, <2>4, <3>1 DEF Knows
    <3>5. ~ \E n \in wire' : n.run = p
      BY <1>1
    <3> QED
      BY <2>4, <3>2, <3>3, <3>4, <3>5 DEF Knows
  <2>5. CASE q # p
    <3>1. Unwritten(q) => Unwritten(q)'
      BY <1>1, <2>5 DEF Unwritten
    <3>2. \A t : Waits(q, t)' => Waits(q, t)
      BY <1>1, <1>3, <2>5 DEF Waits
    <3>3. (\E n \in wire' : n.run = q) => \E n \in wire : n.run = q
      BY <1>1
    <3> QED
      BY <1>3, <2>2, <2>3, <3>1, <3>2, <3>3 DEF Knows
  <2> QED
    BY <2>4, <2>5
<1>11. LockInv'
  <2>1. SUFFICES ASSUME NEW a \in applied', method[a.run] = "PUT",
                        args[a.run].session \in live
                 PROVE  Held(a)'
    BY <1>1, <1>3 DEF LockInv
  <2>2. args[a.run].session # NoSession
    BY <2>1, StoreAssumption DEF Inv, TypeOK
  <2>3. CASE a \in applied
    <3>1. a.key \in Key /\ a.at \in Nat /\ a.at <= index
      BY <2>3 DEF Inv, VersionInv, Change
    <3>2. Held(a)
      BY <2>1, <2>3 DEF LockInv
    <3>3. CASE \E d \in applied : /\ d.key = a.key /\ d.at > a.at
                                  /\ method[d.run] = "DELETE"
      BY <1>1, <1>3, <3>3 DEF Held
    <3>4. CASE store'[a.key] = store[a.key] /\ store[a.key].holder = args[a.run].session
      BY <1>3, <3>4 DEF Held
    <3>5. CASE store'[a.key] # store[a.key] /\ store[a.key].holder = args[a.run].session
      <4>1. CASE method[p] = "PUT"
        BY <1>3, <1>5, <1>6, <2>2, <3>1, <3>5, <4>1 DEF Held
      <4>2. CASE method[p] = "DELETE"
        <5> DEFINE d == [run |-> p, key |-> a.key,
                         over |-> store[a.key].modify, at |-> index']
        <5>1. d \in applied' /\ d.key = a.key /\ d.run = p /\ d.at = index'
          BY <1>1, <3>1, <3>5
        <5>2. index' > a.at
          BY <1>4, <3>1, <3>5
        <5> HIDE DEF d
        <5> QED
          BY <1>3, <4>2, <5>1, <5>2 DEF Held
      <4> QED
        BY <1>4, <1>6, <3>1, <3>5, <4>1, <4>2
    <3> QED
      BY <3>2, <3>3, <3>4, <3>5 DEF Held
  <2>4. CASE a \notin applied
    <3>1. a.run = p /\ a.key \in Key /\ store'[a.key] # store[a.key]
      BY <1>1, <2>4
    <3> QED
      BY <1>3, <1>5, <1>6, <2>1, <2>2, <3>1 DEF Held
  <2> QED
    BY <2>3, <2>4
<1> QED
  BY <1>8, <1>9, <1>10, <1>11

(* The end of a session takes nothing from another. *)
LEMMA ExpiresTruth ==
  ASSUME Inv, TruthInv, NEW s \in Session, Expires(s)
  PROVE  TruthInv'
<1> USE DEF TruthInv
<1>1. /\ UNCHANGED <<args, tool, method, pos, exit, succeeded, wire, reply, applied>>
      /\ live' = live \ {s}
      /\ store' = [k \in Key |-> IF store[k].holder = s
                                THEN [store[k] EXCEPT !.holder = NoSession]
                                ELSE store[k]]
  BY DEF Expires, Invalidate, toolVars
<1>2. PutInv' /\ EndInv'
  BY <1>1 DEF PutInv, Single, EndInv
<1>3. KnowsInv'
  <2>1. \A q \in Run : Single(q)' = Single(q) /\ Knows(q)' = Knows(q)
    BY <1>1 DEF Single, Knows, Waits, Written, Unwritten
  <2> QED
    BY <2>1 DEF KnowsInv
<1>4. LockInv'
  <2>1. SUFFICES ASSUME NEW a \in applied, method[a.run] = "PUT",
                        args[a.run].session \in live, args[a.run].session # s
                 PROVE  Held(a)'
    BY <1>1 DEF LockInv
  <2>2. a.key \in Key /\ Held(a)
    BY <2>1 DEF LockInv, Inv, VersionInv, Change
  <2>3. CASE store[a.key].holder = args[a.run].session
    BY <1>1, <2>1, <2>2, <2>3 DEF Held
  <2>4. CASE store[a.key].holder # args[a.run].session
    BY <1>1, <2>2, <2>4 DEF Held
  <2> QED
    BY <2>3, <2>4
<1> QED
  BY <1>2, <1>3, <1>4

LEMMA StepTruth == Inv /\ TruthInv /\ [Next]_vars => TruthInv'
<1> SUFFICES ASSUME Inv, TruthInv, [Next]_vars PROVE TruthInv'
  OBVIOUS
<1>1. ASSUME NEW p \in Run, Start(p) \/ Ask(p) \/ Answered(p) PROVE TruthInv'
  BY <1>1, StartTruth, AskTruth, AnsweredTruth
<1>2. ASSUME NEW m \in wire, Handle(m) PROVE TruthInv'
  BY <1>2, HandleTruth
<1>3. ASSUME NEW s \in Session, Expires(s) PROVE TruthInv'
  BY <1>3, ExpiresTruth
<1>4. CASE UNCHANGED vars
  BY <1>4 DEF vars, toolVars, storeVars, TruthInv, PutInv, Single, KnowsInv, Knows,
              Waits, Written, Unwritten, EndInv, LockInv, Held
<1> QED
  BY <1>1, <1>2, <1>3, <1>4 DEF Next

LEMMA Truth == Spec => [](Inv /\ TruthInv)
BY InitInv, InitTruth, StepInv, StepTruth, PTL DEF Spec

-----------------------------------------------------------------------------
(* A run that was told it has the lock of a key holds it for as long as its*)
(* session lives and nobody deletes the key, whatever the command lines.   *)
THEOREM LocksAreKept == Spec => []LockIsKept
<1>1. Inv /\ TruthInv => LockIsKept
  <2> SUFFICES ASSUME Inv, TruthInv, NEW a \in applied, a.run \in succeeded,
                      args[a.run].session \in live
               PROVE  Held(a)
    BY DEF LockIsKept, Held
  <2> QED
    BY DEF TruthInv, EndInv, LockInv, Inv, VersionInv, Change
<1> QED
  BY <1>1, Truth, PTL

(* "Succeeded in posting key" is printed only by a run that has written its*)
(* key over the version it was given; when a run whose method is left to   *)
(* chance is given a single key.                                           *)
THEOREM SuccessIsAlwaysApplied ==
  ASSUME \A c \in CommandLine : c.method = "unset" => Len(c.keys) = 1
  PROVE  Spec => []SuccessIsApplied
<1>1. Inv /\ TruthInv => SuccessIsApplied
  <2> SUFFICES ASSUME Inv, TruthInv, NEW p \in succeeded PROVE Written(p)
    BY DEF SuccessIsApplied, Written
  <2>1. p \in Run /\ args[p] \in CommandLine /\ method[p] = "PUT"
    BY DEF Inv, TypeOK, TruthInv, EndInv
  <2>2. Single(p)
    BY <2>1 DEF TruthInv, PutInv, Single
  <2> QED
    BY <2>1, <2>2 DEF TruthInv, KnowsInv, Knows
<1> QED
  BY <1>1, Truth, PTL

(* After EX_CANTCREAT a run has changed nothing and never will; under the  *)
(* same assumption.                                                        *)
THEOREM RefusalIsAlwaysFinal ==
  ASSUME \A c \in CommandLine : c.method = "unset" => Len(c.keys) = 1
  PROVE  Spec => []RefusalIsFinal
<1>1. Inv /\ TruthInv => RefusalIsFinal
  <2> SUFFICES ASSUME Inv, TruthInv, NEW p \in Run, exit[p] = "CANTCREAT"
               PROVE  Unwritten(p) /\ \A m \in wire : m.run # p
    BY DEF RefusalIsFinal, Unwritten
  <2>1. args[p] \in CommandLine /\ method[p] = "PUT" /\ \A m \in wire : m.run # p
    BY DEF Inv, TypeOK, TruthInv, EndInv
  <2>2. Single(p)
    BY <2>1 DEF TruthInv, PutInv, Single
  <2> QED
    BY <2>1, <2>2 DEF TruthInv, KnowsInv, Knows
<1> QED
  BY <1>1, Truth, PTL
=============================================================================
