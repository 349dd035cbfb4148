----------------------------- MODULE SetReturning -----------------------------
(***************************************************************************)
(* The value-per-call protocol of pg_consul_v1_kv_get() and                *)
(* pg_consul_v1_status_peers() (src/pg_consul.cpp 236-435 and 477-630) and *)
(* the life of the C++ object each keeps between calls.                    *)
(*                                                                         *)
(* One step is one call of the function by the executor.  The first call   *)
(* of a scan builds a FuncCallContext, constructs the Consul*Fctx object   *)
(* in it, asks the agent, parses the answer into the object and goes on to *)
(* return the first row; each later call returns objs[iter++] while        *)
(* call_cntr < max_calls; the call after the last row destroys the object. *)
(* PostgreSQL keeps call_cntr, the code keeps iter: nothing ties them      *)
(* together.  PostgreSQL drops the FuncCallContext, and the memory the     *)
(* object stands in, without running the C++ destructor whenever a scan    *)
(* ends any other way: an ERROR (a longjmp), a cancelled statement, a      *)
(* reader that leaves, a rescan.  "object" says what became of it.         *)
(*                                                                         *)
(* A site in FROM is called in a loop until it is done or fails; a site in *)
(* a target list is called one row at a time, its calls interleaved with   *)
(* those of other sites, and LIMIT may stop it.                            *)
(***************************************************************************)
EXTENDS RowStream

CONSTANTS
  BadRow,     \* rows BuildTupleFromCStrings refuses: a number beyond INT8
  Unread,     \* answers in which InitFromJson refuses an object
  CallKind,   \* the ways a query calls the functions, see Calls
  Wild,       \* what a read past the end of a vector yields
  NoContext   \* FmgrInfo.fn_extra is NULL

Calls == [fn : {"kv_get", "status_peers"}, place : {"from", "targetlist"},
          nullKey : BOOLEAN, recurse : BOOLEAN]

ASSUME ReturningAssumption ==
  /\ Source = {"kv_get", "status_peers"}
  /\ BadRow \subseteq Row
  /\ CallKind \subseteq Calls

Context == [callCntr : Nat, maxCalls : Nat, rows : Seq(Row), iter : Nat]

ASSUME ContextAssumption == NoContext \notin Context

VARIABLES
  call,      \* how the site's latest scan calls the function
  context,   \* fn_extra: the FuncCallContext, and the fields of user_fctx
  object     \* the Consul*Fctx of the site's latest scan

vars == <<stored, scan, answer, got, call, context, object>>

Init ==
  /\ StreamInit
  /\ call \in [Site -> CallKind]
  /\ context = [e \in Site |-> NoContext]
  /\ object = [e \in Site |-> "none"]

-----------------------------------------------------------------------------
(* The executor *)

Open(e) == scan[e] = "open"

(* A scan in FROM is run to its end before the executor does anything else.*)
Turn(e) == \A o \in Site \ {e} : ~(Open(o) /\ call[o].place = "from")

(* What becomes of an object whose context is dropped under it. *)
Dropped(o) == IF o = "live" THEN "lost" ELSE o

(* A scan of new parameters, or of a new query: ReScanExprContext() first  *)
(* runs shutdown_MultiFuncCall(), which forgets the old context.           *)
Begin(e) ==
  /\ Turn(e)
  /\ BeginScan(e)
  /\ call' \in {[call EXCEPT ![e] = k] : k \in CallKind}
  /\ context' = [context EXCEPT ![e] = NoContext]
  /\ object' = [object EXCEPT ![e] = "none"]

(* LIMIT is reached, or the cursor is closed.  Only a site in a target     *)
(* list can be left with rows to come.                                     *)
Leave(e) ==
  /\ Turn(e) /\ call[e].place = "targetlist"
  /\ LeaveScan(e)
  /\ context' = [context EXCEPT ![e] = NoContext]
  /\ object' = [object EXCEPT ![e] = Dropped(@)]
  /\ UNCHANGED call

(* ereport(ERROR): the transaction aborts, and every context with it.  The *)
(* call it is raised in may have constructed its object already.           *)
Error(objects) ==
  /\ BreakScans
  /\ context' = [e \in Site |-> NoContext]
  /\ object' = [e \in Site |-> Dropped(objects[e])]
  /\ UNCHANGED call

(* CHECK_FOR_INTERRUPTS() between two calls. *)
Cancel == (\E e \in Site : Open(e)) /\ Error(object)

-----------------------------------------------------------------------------
(* The functions *)

(* Faulty variants, for the checks: one row less, one call more. *)
HasMoreButOne(c) == c.callCntr + 1 < c.maxCalls
HasMoreAtEnd(c) == c.callCntr <= c.maxCalls

(* What every call does once there is a context c. *)
HasMore(c) == c.callCntr < c.maxCalls
Current(c) == IF c.iter < Len(c.rows) THEN c.rows[c.iter + 1] ELSE Wild
Advanced(c) == [c EXCEPT !.iter = @ + 1, !.callCntr = @ + 1]

(* Faulty variant, for the checks: the object goes with the last row.      *)
ReturnNextEagerly(e, c) ==
  /\ HasMore(c) /\ Current(c) \notin BadRow
  /\ got' = [got EXCEPT ![e] = Append(@, Current(c))]
  /\ context' = [context EXCEPT ![e] = Advanced(c)]
  /\ object' = [object EXCEPT ![e] = IF HasMore(Advanced(c)) THEN "live"
                                                            ELSE "destroyed"]
  /\ UNCHANGED <<stored, scan, call>>

ReturnNext(e, c) ==
  /\ HasMore(c) /\ Current(c) \notin BadRow
  /\ got' = [got EXCEPT ![e] = Append(@, Current(c))]
  /\ context' = [context EXCEPT ![e] = Advanced(c)]
  /\ object' = [object EXCEPT ![e] = "live"]
  /\ UNCHANGED <<stored, scan, call>>

(* Faulty variant, for the checks: a refused row is tried again.           *)
RowErrorRetried(e, c) ==
  /\ HasMore(c) /\ Current(c) \in BadRow
  /\ object' = [object EXCEPT ![e] = "live"]
  /\ UNCHANGED <<stored, scan, answer, got, call, context>>

RowError(e, c) ==
  /\ HasMore(c) /\ Current(c) \in BadRow
  /\ Error([object EXCEPT ![e] = "live"])

(* consul_kv_get() is not declared SETOF: of a scan that ends before its   *)
(* first row the executor makes one row of NULLs.                          *)
Shown(e) == IF got[e] = <<>> /\ call[e].fn = "kv_get" THEN <<NullRow>> ELSE got[e]

ReturnDone(e, c) ==
  /\ ~HasMore(c)
  /\ got' = [got EXCEPT ![e] = Shown(e)]
  /\ scan' = [scan EXCEPT ![e] = "finished"]
  /\ context' = [context EXCEPT ![e] = NoContext]
  /\ object' = [object EXCEPT ![e] = "destroyed"]
  /\ UNCHANGED <<stored, call>>

Rest(e, c, ans) ==
  \/ (ReturnNext(e, c) \/ ReturnDone(e, c)) /\ answer' = [answer EXCEPT ![e] = ans]
  \/ RowError(e, c)

FirstCall(e) == Turn(e) /\ Open(e) /\ context[e] = NoContext

(* init_MultiFuncCall() finds no ReturnSetInfo: a function that is not     *)
(* SETOF cannot return rows in a target list.                              *)
Accepted(e) == call[e].fn = "status_peers" \/ call[e].place = "from"
Refuse(e) == FirstCall(e) /\ ~Accepted(e) /\ Error(object)

(* A NULL key: PG_RETURN_NULL with the context and the object in place.    *)
Null(e) == call[e].fn = "kv_get" /\ call[e].nullKey
ReturnNull(e) ==
  /\ FirstCall(e) /\ Accepted(e) /\ Null(e)
  /\ NullResult(e)
  /\ context' = [context EXCEPT ![e] =
                   [callCntr |-> 0, maxCalls |-> 0, rows |-> <<>>, iter |-> 0]]
  /\ object' = [object EXCEPT ![e] = "live"]
  /\ UNCHANGED call

(* Not 200, not JSON, an object that is refused, or an exception. *)
Asks(e) == FirstCall(e) /\ Accepted(e) /\ ~Null(e)
Asked(e) == stored[call[e].fn]
AskFails(e) == Asks(e) /\ Error([object EXCEPT ![e] = "live"])

TooMany(e, rows) == call[e].fn = "kv_get" /\ ~call[e].recurse /\ Len(rows) > 1
AskTooMany(e) ==
  Asks(e) /\ TooMany(e, Asked(e)) /\ Error([object EXCEPT ![e] = "live"])

(* Faulty variant, for the checks: one call too many. *)
PopulatedLong(rows) ==
  [callCntr |-> 0, maxCalls |-> Len(rows) + 1, rows |-> rows, iter |-> 0]

(* The new context.  The object is constructed empty, then populated.      *)
Populated(rows) ==
  [callCntr |-> 0, maxCalls |-> Len(rows), rows |-> rows, iter |-> 0]

AskAndReturn(e) ==
  /\ Asks(e) /\ Asked(e) \notin Unread /\ ~TooMany(e, Asked(e))
  /\ Rest(e, Populated(Asked(e)), Asked(e))

(* Faulty variant, for the checks: each call looks at the agent afresh. *)
NextCallAsksAgain(e) ==
  /\ Turn(e) /\ Open(e) /\ context[e] # NoContext
  /\ Rest(e, [context[e] EXCEPT !.rows = Asked(e), !.maxCalls = Len(Asked(e))],
          Asked(e))

NextCall(e) ==
  /\ Turn(e) /\ Open(e) /\ context[e] # NoContext
  /\ Rest(e, context[e], answer[e])

CallFunction(e) ==
  \/ Refuse(e) \/ ReturnNull(e) \/ AskFails(e) \/ AskTooMany(e)
  \/ AskAndReturn(e) \/ NextCall(e)

Changes == StoreMoves /\ UNCHANGED <<call, context, object>>

Next ==
  \/ Changes
  \/ Cancel
  \/ \E e \in Site : Begin(e) \/ Leave(e) \/ CallFunction(e)

(* The executor runs a scan in FROM by itself; whether and when the client *)
(* fetches the rows of a target list is up to the client.                  *)
Materialize(e) == call[e].place = "from" /\ CallFunction(e)

Spec == Init /\ [][Next]_vars /\ \A e \in Site : WF_vars(Materialize(e))

-----------------------------------------------------------------------------
(* Properties *)

(* The contexts, objects and scans have the shapes the code gives them. *)
TypeOK ==
  /\ stored \in [Source -> Answers] /\ \A s \in Source : stored[s] \in Contents[s]
  /\ scan \in [Site -> ScanState]
  /\ answer \in [Site -> Answers \cup {NoAnswer}]
  /\ got \in [Site -> Seq(Row \cup {NullRow})]
  /\ call \in [Site -> CallKind]
  /\ context \in [Site -> Context \cup {NoContext}]
  /\ object \in [Site -> {"none", "live", "destroyed", "lost"}]

(* A call that finds call_cntr < max_calls reads objs[iter] inside the     *)
(* vector, although PostgreSQL counts the calls and the code the rows      *)
(* (src/pg_consul.cpp:369-379 and 582-591).                                *)
ReadsInBounds ==
  \A e \in Site : context[e] # NoContext /\ HasMore(context[e]) =>
                     context[e].iter < Len(context[e].rows)

(* No call follows user_fctx to a destroyed object; the rows of a scan     *)
(* that came to its end were destroyed, and only a scan broken off leaks   *)
(* them (src/pg_consul.cpp:275-279, 432 and 626).                          *)
ObjectsFollowScans ==
  \A e \in Site :
    /\ context[e] # NoContext => object[e] = "live"
    /\ object[e] = "live" => context[e] # NoContext
    /\ object[e] = "lost" => scan[e] \in {"left", "failed"} \/ Null(e)
    /\ object[e] = "destroyed" => scan[e] = "finished"

(* A scan that finished handed the query every row of one answer of the    *)
(* agent, in its order and once, or one row of NULLs when there was        *)
(* nothing to hand out.                                                    *)
WholeAnswer ==
  \A e \in Site : scan[e] = "finished" =>
    \/ got[e] = answer[e]
    \/ got[e] = <<NullRow>> /\ answer[e] \in {<<>>, NoAnswer}

(* The functions implement the stream of rows of one answer. *)
RefinesStream == StreamSpec

(* A scan in FROM comes to an end: the loop of the executor over the       *)
(* function is left, with the set complete or by an error.                 *)
MaterializeEnds ==
  \A e \in Site : (Open(e) /\ call[e].place = "from") ~> ~Open(e)
=============================================================================
