-------------------------------- MODULE ConsulKv --------------------------------
(***************************************************************************)
(* Several runs of the command-line tool consul-kv (playground/            *)
(* consul_kv.cpp) against one store.  A run goes through its keys, one     *)
(* request at a time, and stops at the first reply it does not like.       *)
(*                                                                         *)
(* A reply may be lost, cut short or broken, and a run that gave up waiting*)
(* leaves its request behind: the agent may still carry it out, after the  *)
(* tool has exited and another run, perhaps the retry of the same command, *)
(* is on its way.                                                          *)
(***************************************************************************)
EXTENDS KvStore, Sequences

CONSTANTS
  Run,         \* the runs of the tool
  CommandLine  \* the command lines they are given, see Arguments

Arguments == [method : {"GET", "PUT", "DELETE", "unset"}, keys : Seq(Key),
              value : BOOLEAN, cas : Cas, session : Session \cup {NoSession},
              recurse : BOOLEAN]

ASSUME ToolAssumption ==
  /\ CommandLine \subseteq Arguments
  /\ \A a \in CommandLine : a.keys # <<>>

VARIABLES
  args,       \* the command line of each run
  tool,       \* what the run does: "ready", "asking", "waiting" or "exited"
  method,     \* methodType
  pos,        \* the position of the key in the list
  exit,       \* the exit code, "ABORT" when the tool is aborted
  wire,       \* requests no agent has taken up yet
  reply,      \* the reply to a run's request, NoReply until there is one
  succeeded,  \* runs that printed "Succeeded in posting key"
  handled,    \* history: the requests an agent took up
  applied     \* history: the changes requests made to the store

toolVars == <<args, tool, method, pos, exit, succeeded>>
vars == <<storeVars, toolVars, wire, reply, handled, applied>>

NoReply == Replied(0, "cut", 0)

Init ==
  /\ StoreInit
  /\ args \in [Run -> CommandLine]
  /\ tool = [p \in Run |-> "ready"]
  /\ method = [p \in Run |-> "none"]
  /\ pos = [p \in Run |-> 1]
  /\ exit = [p \in Run |-> "none"]
  /\ wire = {} /\ handled = {} /\ applied = {} /\ succeeded = {}
  /\ reply = [p \in Run |-> NoReply]

-----------------------------------------------------------------------------
Exit(p, code) == /\ tool' = [tool EXCEPT ![p] = "exited"]
                 /\ exit' = [exit EXCEPT ![p] = code]

\* PUT takes a value and a single key.
Misused(a) == a.method = "PUT" /\ (~a.value \/ Len(a.keys) > 1)

\* Without -m methodType is read uninitialised.
MethodOf(a) == IF a.method = "unset" THEN {"GET", "PUT", "DELETE", "none"}
               ELSE {a.method}

Start(p) ==
  /\ tool[p] = "ready"
  /\ IF Misused(args[p])
     THEN Exit(p, "USAGE") /\ UNCHANGED method
     ELSE /\ \E m \in MethodOf(args[p]) : method' = [method EXCEPT ![p] = m]
          /\ tool' = [tool EXCEPT ![p] = "asking"]
          /\ UNCHANGED exit
  /\ UNCHANGED <<args, pos, succeeded, storeVars, wire, reply, handled, applied>>

\* Faulty: the parameter is meant for DELETE, or not thought of.
CasOfDelete(p) == IF method[p] = "DELETE" THEN args[p].cas ELSE NoCas
SessionOfNone(p) == NoSession

\* ?cas= and ?acquire=, for the methods that take them.
CasOf(p) == IF method[p] \in {"PUT", "DELETE"} THEN args[p].cas ELSE NoCas
SessionOf(p) == IF method[p] = "PUT" THEN args[p].session ELSE NoSession

\* The request for the key at hand.
Request(p) ==
  [method |-> method[p], key |-> args[p].keys[pos[p]],
   cas |-> CasOf(p), session |-> SessionOf(p),
   recurse |-> args[p].recurse /\ method[p] \in {"GET", "DELETE"}]

\* Faulty: one key more than there are.
MoreKeysAndOne(p) == pos[p] <= Len(args[p].keys)

\* On to the next key, or out.
MoreKeys(p) == pos[p] < Len(args[p].keys)
NextKey(p) ==
  IF MoreKeys(p)
  THEN /\ tool' = [tool EXCEPT ![p] = "asking"]
       /\ pos' = [pos EXCEPT ![p] = @ + 1]
       /\ UNCHANGED exit
  ELSE Exit(p, "OK") /\ UNCHANGED pos

\* A method that is none is found out here, by a DLOG(FATAL), which aborts.
Ask(p) ==
  /\ tool[p] = "asking"
  /\ IF method[p] = "none"
     THEN Exit(p, "ABORT") /\ UNCHANGED <<pos, wire, reply>>
     ELSE /\ wire' = wire \cup {[run |-> p, pos |-> pos[p], op |-> Request(p)]}
          /\ reply' = [reply EXCEPT ![p] = NoReply]
          /\ tool' = [tool EXCEPT ![p] = "waiting"]
          /\ UNCHANGED <<pos, exit>>
  /\ UNCHANGED <<args, method, succeeded, storeVars, handled, applied>>

-----------------------------------------------------------------------------
\* The agent takes up a request, soon or late. What it changes is noted down.
Changed == {k \in Key : store'[k] # store[k]}
Handle(m) ==
  /\ wire' = wire \ {m}
  /\ \E r \in {Replied(200, "true", 0), Replied(200, "false", 0),
               Replied(400, "json", 0), Replied(404, "json", 0),
               Replied(500, "json", 0)}
              \cup {Replied(200, t, n) : t \in {"json", "null"}, n \in 1 .. Cardinality(Key)} :
       /\ Perform(m.op, r)
       /\ reply' = IF tool[m.run] = "waiting" /\ pos[m.run] = m.pos
                   THEN [reply EXCEPT ![m.run] = r] ELSE reply
  /\ handled' = handled \cup {<<m.run, m.pos>>}
  /\ applied' = applied \cup
       {[run |-> m.run, key |-> k, over |-> store[k].modify, at |-> index']
          : k \in Changed}
  /\ UNCHANGED toolVars

\* Faulty: the tool has all the time in the world.
ResponseWithoutTimeout(p) ==
  IF reply[p] = NoReply THEN {}
  ELSE {reply[p]} \cup {[reply[p] EXCEPT !.text = t] : t \in {"cut", "odd"}}

\* What cpr may make of the reply: nothing, all of it, its status with a part
\* of its body, or an exception out of its headers.
Response(p) ==
  {NoReply} \cup
  (IF reply[p] = NoReply THEN {}
   ELSE {reply[p]} \cup {[reply[p] EXCEPT !.text = t] : t \in {"cut", "odd"}})

\* Faulty: a DELETE that failed does not keep the others from being tried.
FailedUnlessDelete(p, r) == r.code # 200 /\ method[p] # "DELETE"
\* Faulty: whatever is not "true" counts as a refusal.
RefusedRashly(p, r) == method[p] = "PUT" /\ r.text # "true"

Failed(p, r) == r.code # 200
NotPut(p, r) == method[p] = "PUT" /\ r.text = "false"

\* No JSON, a key without a value, which fails them all, or too many keys.
Unexpected(p, r) ==
  /\ method[p] = "GET"
  /\ r.text \in {"cut", "null"} \/ (~args[p].recurse /\ r.objects > 1)

\* What the tool makes of the response: an exit code, or on to the next key.
\* The handler of exceptions logs FATAL, at which the logger aborts: the
\* EX_SOFTWARE after it is never returned.
Verdict(p, r) ==
  IF r.text = "odd" THEN "ABORT"
  ELSE IF Failed(p, r) THEN "TEMPFAIL"
  ELSE IF Unexpected(p, r) THEN "PROTOCOL"
  ELSE IF NotPut(p, r) THEN "CANTCREAT" ELSE "next"

\* Faulty: the status is all that is looked at.
SaysSuccessOfStatus(p, r) == method[p] = "PUT" /\ r.code = 200 /\ r.text # "odd"

SaysSuccess(p, r) == method[p] = "PUT" /\ r.code = 200 /\ r.text = "true"

Answered(p) ==
  /\ tool[p] = "waiting"
  /\ \E r \in Response(p) :
       /\ IF Verdict(p, r) = "next" THEN NextKey(p)
          ELSE Exit(p, Verdict(p, r)) /\ UNCHANGED pos
       /\ succeeded' = IF SaysSuccess(p, r) THEN succeeded \cup {p} ELSE succeeded
  /\ UNCHANGED <<args, method, storeVars, wire, reply, handled, applied>>

Expires(s) == /\ Invalidate(s)
              /\ UNCHANGED <<toolVars, wire, reply, handled, applied>>

Next == \/ \E p \in Run : Start(p) \/ Ask(p) \/ Answered(p)
        \/ \E m \in wire : Handle(m)
        \/ \E s \in Session : Expires(s)

\* The tool runs, and its timeout fires; the agent may never do anything.
Spec == Init /\ [][Next]_vars /\ \A p \in Run : WF_vars(Start(p) \/ Ask(p) \/ Answered(p))

-----------------------------------------------------------------------------
\* The types of the runs' state.
TypeOK ==
  /\ index \in Nat /\ store \in [Key -> Entry] /\ live \subseteq Session
  /\ args \in [Run -> CommandLine]
  /\ tool \in [Run -> {"ready", "asking", "waiting", "exited"}]
  /\ method \in [Run -> {"GET", "PUT", "DELETE", "none"}]
  /\ pos \in [Run -> Nat] /\ \A p \in Run : pos[p] \in 1 .. Len(args[p].keys)
  /\ exit \in [Run -> {"none", "OK", "USAGE", "TEMPFAIL", "PROTOCOL",
                       "CANTCREAT", "ABORT"}]
  /\ wire \subseteq [run : Run, pos : Nat, op : Op]
  /\ reply \in [Run -> Reply]
  /\ succeeded \subseteq Run

Conditional(p) == args[p].cas \notin {NoCas, 0} /\ method[p] \in {"PUT", "DELETE"}

\* Two runs given the same version of the same key do not both change it, be
\* they rivals or one the retry of the other, which timed out and whose request
\* the agent takes up late (consul_kv.cpp:216-221).
RetryIsSafe ==
  \A a, b \in applied :
    (/\ a.key = b.key /\ Conditional(a.run) /\ Conditional(b.run)
     /\ args[a.run].cas = args[b.run].cas) => a = b

\* "Succeeded in posting key" is printed only by a run that has written its
\* key, and written it over the version it was given (consul_kv.cpp:302-303).
SuccessIsApplied ==
  \A p \in succeeded : \E a \in applied :
    /\ a.run = p /\ a.key = args[p].keys[1]
    /\ args[p].cas \in {NoCas, a.over}

\* A run that exits with EX_CANTCREAT has changed nothing and never will:
\* no request of it is left behind (consul_kv.cpp:304-306).  That is so because
\* PUT is for one key: it is not said of a run without -m that has several keys
\* and happens to find PUT in its method, which may have written the first.
RefusalIsFinal ==
  \A p \in Run : exit[p] = "CANTCREAT" =>
    /\ \A a \in applied : a.run # p
    /\ \A m \in wire : m.run # p

\* A list of keys is worked through in order: the agent takes up the request
\* for a key only when it has taken up those for the keys before it, so that a
\* DELETE that stops half-way has not asked for the end of the list, and has
\* asked for all before (consul_kv.cpp:286-290).  With cas a key that was asked
\* for may still be there: "false" lets the run go on.
NoGaps ==
  \A h \in handled : \A i \in 1 .. h[2] - 1 : <<h[1], i>> \in handled

\* A run that was told it has the lock of a key holds it for as long as its
\* session lives and nobody deletes the key (consul_kv.cpp:223-226).
LockIsKept ==
  \A a \in applied :
    (a.run \in succeeded /\ args[a.run].session \in live) =>
      \/ store[a.key].holder = args[a.run].session
      \/ \E d \in applied : /\ d.key = a.key /\ d.at > a.at
                            /\ method[d.run] = "DELETE"

\* Every run exits, whatever the agent does.
RunsExit == \A p \in Run : <>(tool[p] = "exited")

-----------------------------------------------------------------------------
\* The help says the tool "displays all details of a stored key", and names
\* "get" as the default of -m (consul_kv.cpp:36-38, 102): a run without -m
\* changes nothing.
DisplaysByDefault == \A a \in applied : args[a.run].method # "unset"
=============================================================================
