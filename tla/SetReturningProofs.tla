-------------------------- MODULE SetReturningProofs --------------------------
(***************************************************************************)
(* Proofs that the value-per-call protocol of SetReturning reads inside    *)
(* the vector it iterates over, follows no pointer to a destroyed object,  *)
(* hands out the whole of one answer, and implements RowStream, for any    *)
(* sites, rows and answers.                                                *)
(*                                                                         *)
(* The argument: call_cntr and iter start at zero together and move        *)
(* together, because a call that raises an error in between does not       *)
(* return to the scan; max_calls is the length of the vector for the whole *)
(* life of the context; and the rows handed out so far are the first iter  *)
(* rows of the answer.                                                     *)
(***************************************************************************)
EXTENDS SetReturning, TLAPS

(* The counter of PostgreSQL and the index of the code agree. *)
Counted(c) ==
  c.callCntr = c.iter /\ c.maxCalls = Len(c.rows) /\ c.iter <= Len(c.rows)

(* s is the beginning of rows. *)
Handed(s, rows) == Len(s) <= Len(rows) /\ \A i \in 1..Len(s) : s[i] = rows[i]

Iterating(e) == Open(e) /\ context[e] # NoContext

ContextInv(e) ==
  /\ context[e] # NoContext => object[e] = "live" /\ Counted(context[e])
  /\ object[e] = "live" => context[e] # NoContext

ScanInv(e) ==
  /\ Iterating(e) => /\ answer[e] \in Answers /\ answer[e] = context[e].rows
                     /\ Len(got[e]) = context[e].iter
                     /\ Handed(got[e], answer[e])
  /\ Open(e) /\ ~Iterating(e) =>
       got[e] = <<>> /\ answer[e] = NoAnswer /\ object[e] = "none"

EndInv(e) ==
  /\ object[e] = "live" => Open(e) \/ Null(e)
  /\ object[e] = "lost" => scan[e] \in {"left", "failed"} \/ Null(e)
  /\ object[e] = "destroyed" => scan[e] = "finished"
  /\ scan[e] = "finished" =>
       \/ got[e] = answer[e]
       \/ got[e] = <<NullRow>> /\ answer[e] \in {<<>>, NoAnswer}

SiteInv(e) == ContextInv(e) /\ ScanInv(e) /\ EndInv(e)

Inv == TypeOK /\ \A e \in Site : SiteInv(e)

-----------------------------------------------------------------------------
(* The answers are sequences of rows, and none of them is NoAnswer. *)
LEMMA AnswersAreRows == Answers \subseteq Seq(Row) /\ NoAnswer \notin Answers
BY StreamAssumption DEF Answers

(* The state of one site. *)
At(e) == <<scan[e], answer[e], got[e], call[e], context[e], object[e]>>

(* A site a step does not touch keeps its part of the invariant. *)
LEMMA Untouched ==
  ASSUME NEW e \in Site, SiteInv(e), At(e)' = At(e)
  PROVE  SiteInv(e)'
BY DEF SiteInv, ContextInv, ScanInv, EndInv, Iterating, Open, Null, At

(* Returning a row moves both counters on and keeps the rest.              *)
LEMMA AdvancedContext ==
  ASSUME NEW c \in Context
  PROVE  /\ Advanced(c) \in Context
         /\ Advanced(c).callCntr = c.callCntr + 1 /\ Advanced(c).iter = c.iter + 1
         /\ Advanced(c).maxCalls = c.maxCalls /\ Advanced(c).rows = c.rows
<1>1. c.iter + 1 \in Nat /\ c.callCntr + 1 \in Nat
  BY DEF Context
<1>2. \A d \in Context, n \in Nat : [d EXCEPT !.iter = n] \in Context
  BY DEF Context
<1>3. \A d \in Context, n \in Nat : [d EXCEPT !.callCntr = n] \in Context
  BY DEF Context
<1>4. [[c EXCEPT !.iter = c.iter + 1] EXCEPT !.callCntr = c.callCntr + 1] \in Context
  BY <1>1, <1>2, <1>3
<1>5. /\ Advanced(c).callCntr = c.callCntr + 1 /\ Advanced(c).iter = c.iter + 1
      /\ Advanced(c).maxCalls = c.maxCalls /\ Advanced(c).rows = c.rows
  BY DEF Advanced, Context
<1> QED
  BY <1>4, <1>5 DEF Advanced

(* A call that works on context c of answer a does so with the counters    *)
(* together and the first iter rows of a handed out.                       *)
Working(e, c, a) ==
  /\ Open(e) /\ c \in Context /\ Counted(c)
  /\ a \in Answers /\ a = c.rows
  /\ Len(got[e]) = c.iter /\ Handed(got[e], a)

(* A call that returns a row leaves the scan one row further on. *)
LEMMA NextRow ==
  ASSUME NEW e \in Site, NEW c, NEW a, Inv, Working(e, c, a),
         ReturnNext(e, c), answer' = [answer EXCEPT ![e] = a]
  PROVE  Inv'
<1> USE StreamAssumption, ReturningAssumption, AnswersAreRows
<1>1. got[e] \in Seq(Row \cup {NullRow}) /\ c.rows \in Seq(Row) /\ c.iter < Len(c.rows)
  BY DEF Inv, TypeOK, Working, Context, Counted, ReturnNext, HasMore
<1>2. Current(c) \in Row /\ Current(c) = a[Len(got[e]) + 1]
  BY <1>1 DEF Current, Working, Context
<1>3. /\ Advanced(c) \in Context /\ Counted(Advanced(c))
      /\ Advanced(c).rows = a /\ Advanced(c).iter = Len(got[e]) + 1
  <2>1. c \in Context
    BY DEF Working
  <2>2. /\ Advanced(c) \in Context
        /\ Advanced(c).callCntr = c.callCntr + 1 /\ Advanced(c).iter = c.iter + 1
        /\ Advanced(c).maxCalls = c.maxCalls /\ Advanced(c).rows = c.rows
    BY <2>1, AdvancedContext
  <2>3. /\ c.callCntr \in Nat /\ c.maxCalls \in Nat /\ c.iter \in Nat
        /\ c.callCntr = c.iter /\ c.maxCalls = Len(c.rows)
        /\ c.rows = a /\ Len(got[e]) = c.iter
    BY <2>1 DEF Context, Counted, Working
  <2>5. Counted(Advanced(c))
    BY <1>1, <2>2, <2>3 DEF Counted
  <2> QED
    BY <2>2, <2>3, <2>5
<1>4. /\ got'[e] = Append(got[e], Current(c)) /\ got'[e] \in Seq(Row \cup {NullRow})
      /\ context'[e] = Advanced(c) /\ object'[e] = "live" /\ answer'[e] = a
      /\ scan'[e] = "open" /\ call'[e] = call[e]
  BY <1>1, <1>2 DEF ReturnNext, Inv, TypeOK, Working, Open
<1>5. Len(got'[e]) = Len(got[e]) + 1 /\ Handed(got'[e], a)
  BY <1>1, <1>2, <1>4 DEF Handed, Working
<1>6. TypeOK'
  BY <1>3, <1>4 DEF TypeOK, Inv, ReturnNext, Working
<1>7. Advanced(c) # NoContext
  BY <1>3, ContextAssumption
<1>8. SiteInv(e)'
  BY <1>3, <1>4, <1>5, <1>7
  DEF SiteInv, ContextInv, ScanInv, EndInv, Iterating, Open, Working
<1>9. \A o \in Site \ {e} : At(o)' = At(o)
  BY DEF At, ReturnNext, Inv, TypeOK
<1> QED
  BY <1>6, <1>8, <1>9, Untouched DEF Inv

(* A call after the last row ends the scan with the whole answer shown. *)
LEMMA LastRow ==
  ASSUME NEW e \in Site, NEW c, NEW a, Inv, Working(e, c, a),
         ReturnDone(e, c), answer' = [answer EXCEPT ![e] = a]
  PROVE  Inv'
<1> USE StreamAssumption, ReturningAssumption, AnswersAreRows
<1>1. got[e] \in Seq(Row \cup {NullRow}) /\ a \in Seq(Row) /\ Len(got[e]) = Len(a)
  BY DEF Inv, TypeOK, Working, Context, Counted, ReturnDone, HasMore
<1>2. got[e] = a
  BY <1>1 DEF Working, Handed
<1>3. Shown(e) = a \/ (Shown(e) = <<NullRow>> /\ a = <<>>)
  BY <1>2 DEF Shown
<1>4. Shown(e) \in Seq(Row \cup {NullRow})
  <2>1. <<NullRow>> \in Seq(Row \cup {NullRow})
    OBVIOUS
  <2> QED
    BY <1>1, <2>1 DEF Shown
<1>5. /\ got'[e] = Shown(e) /\ scan'[e] = "finished" /\ answer'[e] = a
      /\ context'[e] = NoContext /\ object'[e] = "destroyed"
  BY DEF ReturnDone, Inv, TypeOK
<1>6. TypeOK'
  BY <1>4, <1>5 DEF TypeOK, Inv, ReturnDone, Working, ScanState
<1>7. SiteInv(e)'
  BY <1>3, <1>5 DEF SiteInv, ContextInv, ScanInv, EndInv, Iterating, Open
<1>8. \A o \in Site \ {e} : At(o)' = At(o)
  BY DEF At, ReturnDone, Inv, TypeOK
<1> QED
  BY <1>6, <1>7, <1>8, Untouched DEF Inv

(* An error leaves no context behind and fails every open scan. *)
LEMMA Broken ==
  ASSUME Inv, NEW objects, Error(objects),
         objects \in [Site -> {"none", "live", "destroyed", "lost"}],
         \A e \in Site : \/ objects[e] = object[e]
                         \/ Open(e) /\ objects[e] = "live"
  PROVE  Inv'
<1> USE StreamAssumption, ReturningAssumption, AnswersAreRows
<1>1. \A e \in Site : /\ context'[e] = NoContext
                      /\ object'[e] = Dropped(objects[e])
                      /\ scan'[e] = IF Open(e) THEN "failed" ELSE scan[e]
                      /\ call'[e] = call[e] /\ got'[e] = got[e]
                      /\ answer'[e] = answer[e]
  BY DEF Error, BreakScans, Open
<1>2. TypeOK'
  BY DEF Inv, TypeOK, Error, BreakScans, Dropped, ScanState
<1>3. ASSUME NEW e \in Site PROVE SiteInv(e)'
  <2>1. SiteInv(e)
    BY DEF Inv
  <2>2. ContextInv(e)'
    BY <1>1 DEF ContextInv, Dropped
  <2>3. ~Open(e)'
    BY <1>1 DEF Open
  <2>4. ScanInv(e)'
    BY <2>3 DEF ScanInv, Iterating, Open
  <2>5. CASE Open(e)
    <3>1. scan'[e] = "failed"
      BY <1>1, <2>5
    <3>2. object'[e] # "destroyed" /\ object'[e] # "live"
      BY <1>1, <2>1, <2>5 DEF Dropped, SiteInv, EndInv, Open
    <3> QED
      BY <2>2, <2>4, <3>1, <3>2 DEF SiteInv, EndInv
  <2>6. CASE ~Open(e)
    <3>1. /\ scan'[e] = scan[e] /\ objects[e] = object[e]
          /\ Null(e)' = Null(e)
      BY <1>1, <2>6 DEF Null
    <3>2. object[e] = "live" => scan[e] \in {"left", "failed"} \/ Null(e)
      BY <2>1, <2>6 DEF SiteInv, EndInv, Open
    <3>3. EndInv(e)'
      BY <1>1, <2>1, <3>1, <3>2 DEF SiteInv, EndInv, Dropped, Null
    <3> QED
      BY <2>2, <2>4, <3>3 DEF SiteInv
  <2> QED
    BY <2>5, <2>6
<1> QED
  BY <1>2, <1>3 DEF Inv
-----------------------------------------------------------------------------
(* The first state has no scan, no context and no object. *)
LEMMA InitInv == Init => Inv
<1>1. SUFFICES ASSUME Init PROVE Inv
  OBVIOUS
<1>2. TypeOK
  BY <1>1 DEF Init, StreamInit, TypeOK, ScanState
<1>3. \A e \in Site : SiteInv(e)
  BY <1>1 DEF Init, StreamInit, SiteInv, ContextInv, ScanInv, EndInv, Iterating,
              Open, Null
<1> QED
  BY <1>2, <1>3 DEF Inv

(* A call that has a context works with it: the answer of the agent it was *)
(* populated from at the first call.                                       *)
LEMMA OpenWorking ==
  ASSUME NEW e \in Site, Inv, Iterating(e)
  PROVE  Working(e, context[e], answer[e])
<1>1. context[e] \in Context
  BY DEF Inv, TypeOK, Iterating
<1> QED
  BY <1>1 DEF Inv, SiteInv, ContextInv, ScanInv, Iterating, Working

(* So does the first call, on the context it has just populated. *)
LEMMA FirstWorking ==
  ASSUME NEW e \in Site, Inv, FirstCall(e)
  PROVE  Working(e, Populated(Asked(e)), Asked(e))
<1>1. got[e] = <<>> /\ Open(e)
  BY DEF Inv, SiteInv, ScanInv, Iterating, FirstCall
<1>2. call[e].fn \in Source
  BY ReturningAssumption DEF Inv, TypeOK, Calls
<1>3. Asked(e) \in Answers /\ Asked(e) \in Seq(Row)
  BY <1>2, AnswersAreRows DEF Inv, TypeOK, Asked
<1> QED
  BY <1>1, <1>3 DEF Working, Populated, Context, Counted, Handed

(* An error raised in a call of e, after or before its object was made.    *)
LEMMA BrokenCall ==
  ASSUME NEW e \in Site, Inv, Open(e),
         Error([object EXCEPT ![e] = "live"]) \/ Error(object)
  PROVE  Inv'
<1>1. /\ object \in [Site -> {"none", "live", "destroyed", "lost"}]
      /\ [object EXCEPT ![e] = "live"] \in
           [Site -> {"none", "live", "destroyed", "lost"}]
  BY DEF Inv, TypeOK
<1>2. CASE Error([object EXCEPT ![e] = "live"])
  BY <1>1, <1>2, Broken
<1>3. CASE Error(object)
  BY <1>1, <1>3, Broken
<1> QED
  BY <1>2, <1>3

(* What a call does once it has a context keeps the invariant. *)
LEMMA RestInv ==
  ASSUME NEW e \in Site, NEW c, NEW a, Inv, Working(e, c, a), Rest(e, c, a)
  PROVE  Inv'
<1>1. CASE ReturnNext(e, c) /\ answer' = [answer EXCEPT ![e] = a]
  BY <1>1, NextRow
<1>2. CASE ReturnDone(e, c) /\ answer' = [answer EXCEPT ![e] = a]
  BY <1>2, LastRow
<1>3. CASE RowError(e, c)
  BY <1>3, BrokenCall DEF RowError, Working
<1> QED
  BY <1>1, <1>2, <1>3 DEF Rest

(* Every call of a function keeps the invariant. *)
LEMMA CallInv ==
  ASSUME NEW e \in Site, Inv, CallFunction(e)
  PROVE  Inv'
<1>1. CASE Refuse(e)
  BY <1>1, BrokenCall DEF Refuse, FirstCall
<1>2. CASE ReturnNull(e)
  <2> DEFINE c == [callCntr |-> 0, maxCalls |-> 0, rows |-> <<>>, iter |-> 0]
  <2>1. c \in Context /\ Counted(c)
    BY DEF Context, Counted
  <2>2. c # NoContext
    BY <2>1, ContextAssumption
  <2>3. /\ got' = [got EXCEPT ![e] = <<NullRow>>]
        /\ scan' = [scan EXCEPT ![e] = "finished"]
        /\ context' = [context EXCEPT ![e] = c]
        /\ object' = [object EXCEPT ![e] = "live"]
        /\ answer[e] = NoAnswer
        /\ UNCHANGED <<stored, answer, call>>
    BY <1>2 DEF ReturnNull, NullResult
  <2> HIDE DEF c
  <2>4. TypeOK'
    BY <2>1, <2>3 DEF Inv, TypeOK, ScanState
  <2>5. SiteInv(e)'
    BY <1>2, <2>1, <2>2, <2>3 DEF Inv, TypeOK, SiteInv, ContextInv, ScanInv, EndInv,
                             Iterating, Open, Null, ReturnNull
  <2>6. \A o \in Site \ {e} : At(o)' = At(o)
    BY <2>3 DEF At, Inv, TypeOK
  <2> QED
    BY <2>4, <2>5, <2>6, Untouched DEF Inv
<1>3. CASE AskFails(e)
  BY <1>3, BrokenCall DEF AskFails, Asks, FirstCall
<1>4. CASE AskTooMany(e)
  BY <1>4, BrokenCall DEF AskTooMany, Asks, FirstCall
<1>5. CASE AskAndReturn(e)
  BY <1>5, FirstWorking, RestInv DEF AskAndReturn, Asks
<1>6. CASE NextCall(e)
  BY <1>6, OpenWorking, RestInv DEF NextCall, Iterating
<1> QED
  BY <1>1, <1>2, <1>3, <1>4, <1>5, <1>6 DEF CallFunction

(* A scan begins with nothing left of the one before. *)
LEMMA BeginInv ==
  ASSUME NEW e \in Site, Inv, Begin(e)
  PROVE  Inv'
<1>1. /\ scan' = [scan EXCEPT ![e] = "open"]
      /\ answer' = [answer EXCEPT ![e] = NoAnswer]
      /\ got' = [got EXCEPT ![e] = <<>>]
      /\ context' = [context EXCEPT ![e] = NoContext]
      /\ object' = [object EXCEPT ![e] = "none"]
      /\ stored' = stored
  BY DEF Begin, BeginScan
<1>2. PICK k \in CallKind : call' = [call EXCEPT ![e] = k]
  BY DEF Begin
<1>3. TypeOK'
  BY <1>1, <1>2 DEF Inv, TypeOK, ScanState
<1>4. SiteInv(e)'
  BY <1>1 DEF Inv, TypeOK, SiteInv, ContextInv, ScanInv, EndInv, Iterating, Open
<1>5. \A o \in Site \ {e} : At(o)' = At(o)
  BY <1>1, <1>2 DEF At, Inv, TypeOK
<1> QED
  BY <1>3, <1>4, <1>5, Untouched DEF Inv

(* A reader that leaves takes the context away from under the object. *)
LEMMA LeaveInv ==
  ASSUME NEW e \in Site, Inv, Leave(e)
  PROVE  Inv'
<1>1. /\ scan' = [scan EXCEPT ![e] = "left"]
      /\ context' = [context EXCEPT ![e] = NoContext]
      /\ object' = [object EXCEPT ![e] = Dropped(@)]
      /\ UNCHANGED <<stored, answer, got, call>> /\ Open(e)
  BY DEF Leave, LeaveScan, Open
<1>2. TypeOK'
  BY <1>1 DEF Inv, TypeOK, ScanState, Dropped
<1>3. SiteInv(e)'
  BY <1>1 DEF Inv, TypeOK, SiteInv, ContextInv, ScanInv, EndInv, Iterating, Open,
              Dropped
<1>4. \A o \in Site \ {e} : At(o)' = At(o)
  BY <1>1 DEF At, Inv, TypeOK
<1> QED
  BY <1>2, <1>3, <1>4, Untouched DEF Inv

(* Every step keeps the invariant. *)
LEMMA StepInv == Inv /\ [Next]_vars => Inv'
<1>1. SUFFICES ASSUME Inv, [Next]_vars PROVE Inv'
  OBVIOUS
<1>2. CASE Changes
  <2>1. TypeOK'
    BY <1>1, <1>2 DEF Changes, StoreMoves, Inv, TypeOK, Answers
  <2>2. \A e \in Site : At(e)' = At(e)
    BY <1>2 DEF Changes, StoreMoves, At
  <2> QED
    BY <1>1, <2>1, <2>2, Untouched DEF Inv
<1>3. CASE Cancel
  BY <1>1, <1>3, BrokenCall DEF Cancel
<1>4. ASSUME NEW e \in Site, Begin(e) PROVE Inv'
  BY <1>1, <1>4, BeginInv
<1>5. ASSUME NEW e \in Site, Leave(e) PROVE Inv'
  BY <1>1, <1>5, LeaveInv
<1>6. ASSUME NEW e \in Site, CallFunction(e) PROVE Inv'
  BY <1>1, <1>6, CallInv
<1>7. CASE UNCHANGED vars
  <2>1. TypeOK'
    BY <1>1, <1>7 DEF vars, Inv, TypeOK
  <2>2. \A e \in Site : At(e)' = At(e)
    BY <1>7 DEF vars, At
  <2> QED
    BY <1>1, <2>1, <2>2, Untouched DEF Inv
<1> QED
  BY <1>1, <1>2, <1>3, <1>4, <1>5, <1>6, <1>7 DEF Next

(* Inv is an inductive invariant of the protocol. *)
LEMMA Invariance == Spec => []Inv
BY InitInv, StepInv, PTL DEF Spec

(* The contexts, objects and scans keep the shapes the code gives them.    *)
THEOREM TypeCorrect == Spec => []TypeOK
BY Invariance, PTL DEF Inv

(* objs[iter] and peers[iter] are read inside their vectors, for answers   *)
(* of any length (src/pg_consul.cpp:369-379 and 582-591).                  *)
THEOREM ReadsStayInBounds == Spec => []ReadsInBounds
<1>1. Inv => ReadsInBounds
  BY DEF Inv, SiteInv, ContextInv, Counted, ReadsInBounds, HasMore
<1> QED
  BY <1>1, Invariance, PTL

(* No call of any site finds a destroyed or forgotten object behind        *)
(* user_fctx, and only scans broken off leak one.                          *)
THEOREM ObjectsAlwaysFollowScans == Spec => []ObjectsFollowScans
<1>1. Inv => ObjectsFollowScans
  BY DEF Inv, SiteInv, ContextInv, EndInv, ObjectsFollowScans
<1> QED
  BY <1>1, Invariance, PTL

(* A scan that finishes has handed out the whole of one answer, in order.  *)
THEOREM FinishedScansAreWhole == Spec => []WholeAnswer
<1>1. Inv => WholeAnswer
  BY DEF Inv, SiteInv, EndInv, WholeAnswer
<1> QED
  BY <1>1, Invariance, PTL

-----------------------------------------------------------------------------
(* SetReturning implements RowStream: the variables of RowStream are those *)
(* of the detailed specification, and context, object and call are hidden. *)

(* What a call does once it has a context is a step of the stream. *)
LEMMA RestRefines ==
  ASSUME NEW e \in Site, NEW s \in Source, NEW c, Inv,
         Working(e, c, AnswerNow(e, s)), Rest(e, c, AnswerNow(e, s))
  PROVE  StreamNext
<1> DEFINE a == AnswerNow(e, s)
<1>1. CASE ReturnNext(e, c) /\ answer' = [answer EXCEPT ![e] = a]
  <2>1. c.rows = a /\ c.iter = Len(got[e]) /\ got[e] \in Seq(Row \cup {NullRow})
        /\ c.iter < Len(a)
    BY <1>1 DEF Working, ReturnNext, HasMore, Counted, Inv, TypeOK
  <2>2. got' = [got EXCEPT ![e] = Append(got[e], a[Len(got[e]) + 1])]
    BY <1>1, <2>1 DEF ReturnNext, Current
  <2>3. TakeRow(e, s)
    BY <1>1, <2>1, <2>2 DEF TakeRow, ReturnNext, Working, Open
  <2> QED
    BY <2>3 DEF StreamNext
<1>2. CASE ReturnDone(e, c) /\ answer' = [answer EXCEPT ![e] = a]
  <2>1. Len(got[e]) = Len(a)
    BY <1>2 DEF Working, ReturnDone, HasMore, Counted, Context
  <2>2. got' = got \/ (got[e] = <<>> /\ got' = [got EXCEPT ![e] = <<NullRow>>])
    BY <1>2 DEF ReturnDone, Shown, Inv, TypeOK
  <2>3. FinishScan(e, s)
    BY <1>2, <2>1, <2>2 DEF FinishScan, ReturnDone, Working, Open
  <2> QED
    BY <2>3 DEF StreamNext
<1>3. CASE RowError(e, c)
  BY <1>3 DEF RowError, Error, StreamNext
<1> QED
  BY <1>1, <1>2, <1>3 DEF Rest

(* Every call of a function is a step of the stream. *)
LEMMA CallRefines ==
  ASSUME NEW e \in Site, Inv, CallFunction(e)
  PROVE  StreamNext
<1>0. call[e].fn \in Source
  BY ReturningAssumption DEF Inv, TypeOK, Calls
<1>1. CASE Refuse(e) \/ AskFails(e) \/ AskTooMany(e)
  BY <1>1 DEF Refuse, AskFails, AskTooMany, Error, StreamNext
<1>2. CASE ReturnNull(e)
  BY <1>2 DEF ReturnNull, StreamNext
<1>3. CASE AskAndReturn(e)
  <2>1. FirstCall(e) /\ Rest(e, Populated(Asked(e)), Asked(e))
    BY <1>3 DEF AskAndReturn, Asks
  <2>2. AnswerNow(e, call[e].fn) = Asked(e)
    BY <2>1 DEF AnswerNow, Asked, Inv, SiteInv, ScanInv, Iterating, FirstCall
  <2> QED
    BY <1>0, <2>1, <2>2, FirstWorking, RestRefines
<1>4. CASE NextCall(e)
  <2>1. Iterating(e) /\ Rest(e, context[e], answer[e])
    BY <1>4 DEF NextCall, Iterating
  <2>2. AnswerNow(e, call[e].fn) = answer[e]
    BY <2>1, AnswersAreRows DEF AnswerNow, Inv, SiteInv, ScanInv
  <2> QED
    BY <1>0, <2>1, <2>2, OpenWorking, RestRefines
<1> QED
  BY <1>1, <1>2, <1>3, <1>4 DEF CallFunction

(* Every step is a step of the stream or leaves it alone. *)
LEMMA StepRefines == Inv /\ [Next]_vars => [StreamNext]_streamVars
<1>1. SUFFICES ASSUME Inv, [Next]_vars PROVE [StreamNext]_streamVars
  OBVIOUS
<1>2. CASE Changes
  BY <1>2 DEF Changes, StreamNext
<1>3. CASE Cancel
  BY <1>3 DEF Cancel, Error, StreamNext
<1>4. ASSUME NEW e \in Site, Begin(e) \/ Leave(e) PROVE StreamNext
  BY <1>4 DEF Begin, Leave, StreamNext
<1>5. ASSUME NEW e \in Site, CallFunction(e) PROVE StreamNext
  BY <1>1, <1>5, CallRefines
<1>6. CASE UNCHANGED vars
  BY <1>6 DEF vars, streamVars
<1> QED
  BY <1>1, <1>2, <1>3, <1>4, <1>5, <1>6 DEF Next

(* Whatever the executor does and whatever the agent holds meanwhile, a    *)
(* scan is a stream of the rows of one answer, in order and once each.     *)
THEOREM SetReturningImplementsStream == Spec => RefinesStream
<1>1. Init => StreamInit
  BY DEF Init
<1> QED
  BY <1>1, Invariance, StepRefines, PTL DEF Spec, StreamSpec, RefinesStream
=============================================================================
