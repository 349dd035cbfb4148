----------------------------- MODULE KvGetProofs -----------------------------
(***************************************************************************)
(* Proofs that a row of consul_kv_get() that reaches a query tells of its  *)
(* key what the key's object said, for objects with any numbers and values *)
(* and integers of any width, on a build that makes the least int of a     *)
(* double that fits none, as x86-64 does.                                  *)
(*                                                                         *)
(* The argument: such a number becomes negative, the cast to uint64_t      *)
(* wraps it beyond INT8, and the row is refused, so that no wrong number   *)
(* is ever shown; the rows a scan holds are those of one answer that was   *)
(* read in full.                                                           *)
(***************************************************************************)
EXTENDS KvGet, SetReturningProofs, FiniteSetTheorems, LeastNumber

(* The C string in a string: all before its first NUL. *)
LEMMA CStringCut ==
  ASSUME NEW s \in Seq(Byte)
  PROVE  /\ CString(s) \in Seq(Byte) /\ Len(CString(s)) <= Len(s)
         /\ \A i \in 1 .. Len(CString(s)) : CString(s)[i] = s[i] /\ s[i] # NUL
         /\ Len(CString(s)) = Len(s) \/ s[Len(CString(s)) + 1] = NUL
<1> DEFINE before == {i \in DOMAIN s : \A j \in 1 .. i : s[j] # NUL}
           nuls == {i \in 1 .. Len(s) : s[i] = NUL}
<1>1. \E n \in 0 .. Len(s) : /\ before = 1 .. n
                             /\ n = Len(s) \/ s[n + 1] = NUL
                             /\ \A i \in 1 .. n : s[i] # NUL
  <2>1. CASE nuls = {}
    <3>1. before = 1 .. Len(s)
      BY <2>1
    <3> QED
      BY <2>1, <3>1
  <2>2. CASE nuls # {}
    <3>0. nuls \in SUBSET Nat /\ nuls # {}
      BY <2>2
    <3> HIDE DEF nuls
    <3>1. PICK f \in nuls : \A y \in nuls : f <= y
      BY <3>0, LeastNatural
    <3> USE DEF nuls
    <3>2. before = 1 .. f - 1
      BY <3>1
    <3>3. f - 1 \in 0 .. Len(s) /\ s[(f - 1) + 1] = NUL
          /\ \A i \in 1 .. f - 1 : s[i] # NUL
      BY <3>1
    <3> QED
      BY <3>2, <3>3
  <2> QED
    BY <2>1, <2>2
<1>2. PICK n \in 0 .. Len(s) : /\ before = 1 .. n
                               /\ n = Len(s) \/ s[n + 1] = NUL
                               /\ \A i \in 1 .. n : s[i] # NUL
  BY <1>1
<1>3. Cardinality(before) = n
  <2>1. n \in Int /\ 1 \in Int /\ (1 > n <=> n = 0) /\ n - 1 + 1 = n
    BY <1>2
  <2>2. Cardinality(1 .. n) = n
    BY <2>1, FS_Interval
  <2> HIDE DEF before
  <2> QED
    BY <1>2, <2>2
<1>4. CString(s) = SubSeq(s, 1, n)
  BY <1>3 DEF CString
<1>5. SubSeq(s, 1, n) \in Seq(Byte) /\ Len(SubSeq(s, 1, n)) = n
      /\ \A i \in 1 .. n : SubSeq(s, 1, n)[i] = s[i]
  OBVIOUS
<1> HIDE DEF before, nuls
<1> QED
  BY <1>2, <1>4, <1>5

(* A number that is shown as an INT8 is the one of the object.             *)
LEMMA IndexKept ==
  ASSUME Beyond = -IntLimit, NEW n \in Nat, Index(n) < LongLimit
  PROVE  Index(n) = n
BY WidthAssumption DEF Index, LexicalCast, IntValue

(* A row that can be built tells the key. *)
LEMMA ShownIsTold ==
  ASSUME Beyond = -IntLimit, NEW o \in Object, Reads(o), Fits(o)
  PROVE  TellsKey(o)
<1> DEFINE t == Tuple(o)
<1>1. /\ o.Flags \in Nat /\ o.CreateIndex \in Nat /\ o.ModifyIndex \in Nat
      /\ o.LockIndex \in Nat
  BY WidthAssumption DEF Object, UINT64_MAX
<1>2. /\ t[1] = o.Key /\ t[2] = CString(o.Value) /\ t[3] = Index(o.Flags)
      /\ t[4] = Index(o.CreateIndex) /\ t[5] = Index(o.ModifyIndex)
      /\ t[6] = Index(o.LockIndex)
      /\ t[7] = IF o.Session = Missing THEN EmptyText ELSE o.Session
  BY DEF Tuple, Values, Pair
<1>3. t[3] < LongLimit /\ t[4] < LongLimit /\ t[5] < LongLimit /\ t[6] < LongLimit
  BY DEF Fits, Int8Columns, Tuple
<1>4. /\ t[3] = o.Flags /\ t[4] = o.CreateIndex /\ t[5] = o.ModifyIndex
      /\ t[6] = o.LockIndex
  BY <1>1, <1>2, <1>3, IndexKept
<1>5. o.Value \in Seq(Byte)
  BY DEF Object, Reads
<1>6. /\ \A i \in 1 .. Len(t[2]) : t[2][i] = o.Value[i] /\ o.Value[i] # NUL
      /\ Len(t[2]) = Len(o.Value) \/ o.Value[Len(t[2]) + 1] = NUL
  BY <1>2, <1>5, CStringCut
<1>7. /\ Column.key = 1 /\ Column.value = 2 /\ Column.flags = 3
      /\ Column.create_index = 4 /\ Column.modify_index = 5
      /\ Column.lock_index = 6 /\ Column.session = 7
  BY DEF Column
<1> HIDE DEF t
<1>8. t = Tuple(o)
  BY DEF t
<1> QED
  BY <1>2, <1>4, <1>6, <1>7, <1>8 DEF TellsKey
-----------------------------------------------------------------------------
(* Objects whose rows are shown. *)
Good == {o \in Object : Reads(o) /\ Fits(o)}

(* What kv_get iterates over was read in full, and what it handed out fits. *)
KvSite(e) ==
  call[e].fn = "kv_get" =>
    /\ Iterating(e) => answer[e] \in Contents["kv_get"] \ Unread
    /\ \A i \in 1 .. Len(got[e]) : got[e][i] \in Good \cup {NullRow}

KvInv == Inv /\ \A e \in Site : KvSite(e)

LEMMA KvUntouched ==
  ASSUME NEW e \in Site, KvSite(e), At(e)' = At(e)
  PROVE  KvSite(e)'
BY DEF KvSite, Iterating, Open, At

(* A row of an answer that was read is shown, or refused. *)
LEMMA AnswerRows ==
  ASSUME NEW a \in Contents["kv_get"] \ Unread, NEW i \in DOMAIN a, a[i] \notin BadRow
  PROVE  a[i] \in Good
<1>1. a \in Seq(Object) /\ a[i] \in KvRows /\ a \notin Unreadable
  BY KvGetAssumption DEF KvRows
<1>2. a[i] \in Object /\ Reads(a[i])
  BY <1>1 DEF Unreadable
<1> QED
  BY <1>1, <1>2, KvGetAssumption DEF Unshowable, Good

(* An error hands out nothing. *)
LEMMA BrokenKv ==
  ASSUME KvInv, NEW objects, Error(objects)
  PROVE  \A o \in Site : KvSite(o)'
<1>1. \A e \in Site : /\ scan'[e] # "open" /\ call'[e] = call[e] /\ got'[e] = got[e]
  BY DEF Error, BreakScans
<1> QED
  BY <1>1 DEF KvInv, KvSite, Iterating, Open

(* A call on context c of answer a keeps to the rows of a. *)
LEMMA RestKv ==
  ASSUME NEW e \in Site, NEW c, NEW a, KvInv, Working(e, c, a), Rest(e, c, a),
         call[e].fn = "kv_get" => a \in Contents["kv_get"] \ Unread
  PROVE  \A o \in Site : KvSite(o)'
<1>1. CASE ReturnNext(e, c) /\ answer' = [answer EXCEPT ![e] = a]
  <2>1. /\ got' = [got EXCEPT ![e] = Append(@, Current(c))]
        /\ answer' = [answer EXCEPT ![e] = a]
        /\ context' = [context EXCEPT ![e] = Advanced(c)]
        /\ object' = [object EXCEPT ![e] = "live"]
        /\ UNCHANGED <<stored, scan, call>>
        /\ Current(c) \notin BadRow /\ HasMore(c)
    BY <1>1 DEF ReturnNext
  <2>2. \A o \in Site \ {e} : At(o)' = At(o)
    BY <2>1 DEF At
  <2>3. ASSUME call[e].fn = "kv_get" PROVE KvSite(e)'
    <3>1. /\ got[e] \in Seq(Row \cup {NullRow}) /\ got'[e] = Append(got[e], Current(c))
          /\ answer'[e] = a /\ call'[e] = call[e]
      BY <2>1 DEF KvInv, Inv, TypeOK
    <3>2. c.iter \in Nat /\ c.rows = a /\ c.iter < Len(a) /\ a \in Seq(Row)
      BY <2>1 DEF Working, Context, Counted, HasMore
    <3>3. c.iter + 1 \in DOMAIN a /\ Current(c) = a[c.iter + 1]
      BY <3>2 DEF Current
    <3>4. Current(c) \in Good
      BY <2>1, <2>3, <3>3, AnswerRows
    <3>5. \A i \in 1 .. Len(got[e]) : got[e][i] \in Good \cup {NullRow}
      BY <2>3 DEF KvInv, KvSite
    <3>6. /\ Len(Append(got[e], Current(c))) = Len(got[e]) + 1
          /\ Append(got[e], Current(c))[Len(got[e]) + 1] = Current(c)
          /\ \A i \in 1 .. Len(got[e]) : Append(got[e], Current(c))[i] = got[e][i]
          /\ Len(got[e]) \in Nat
      BY <3>1
    <3>7. \A i \in 1 .. Len(got'[e]) : got'[e][i] \in Good \cup {NullRow}
      BY <3>1, <3>4, <3>5, <3>6
    <3> QED
      BY <2>3, <3>1, <3>7 DEF KvSite
  <2>4. call[e].fn # "kv_get" => KvSite(e)'
    BY <2>1 DEF KvSite
  <2> QED
    BY <2>2, <2>3, <2>4, KvUntouched DEF KvInv
<1>2. CASE ReturnDone(e, c) /\ answer' = [answer EXCEPT ![e] = a]
  <2>1. /\ got' = [got EXCEPT ![e] = Shown(e)]
        /\ scan' = [scan EXCEPT ![e] = "finished"]
        /\ UNCHANGED call
        /\ \A o \in Site \ {e} : At(o)' = At(o)
    BY <1>2 DEF ReturnDone, At
  <2>2. scan'[e] = "finished" /\ got'[e] = Shown(e)
    BY <2>1 DEF KvInv, Inv, TypeOK
  <2>3. KvSite(e)'
    <3>1. ~Iterating(e)'
      BY <2>2 DEF Iterating, Open
    <3>2. CASE Shown(e) = got[e]
      BY <2>1, <2>2, <3>1, <3>2 DEF KvInv, KvSite
    <3>3. CASE Shown(e) = <<NullRow>>
      BY <2>2, <3>1, <3>3 DEF KvSite
    <3> QED
      BY <3>2, <3>3 DEF Shown
  <2> QED
    BY <2>1, <2>3, KvUntouched DEF KvInv
<1>3. CASE RowError(e, c)
  BY <1>3, BrokenKv DEF RowError
<1> QED
  BY <1>1, <1>2, <1>3 DEF Rest
-----------------------------------------------------------------------------
(* Before the first scan nothing was handed out. *)
LEMMA InitKv == Init => KvInv
<1>1. SUFFICES ASSUME Init PROVE KvInv
  OBVIOUS
<1>2. \A e \in Site : KvSite(e)
  BY <1>1 DEF Init, StreamInit, KvSite, Iterating, Open
<1> QED
  BY <1>1, <1>2, InitInv DEF KvInv

(* A call of a function keeps the rows of every site good. *)
LEMMA CallKv ==
  ASSUME NEW e \in Site, KvInv, CallFunction(e)
  PROVE  \A o \in Site : KvSite(o)'
<1>1. CASE Refuse(e)
  BY <1>1, BrokenKv DEF Refuse
<1>2. CASE ReturnNull(e)
  <2>1. /\ got' = [got EXCEPT ![e] = <<NullRow>>]
        /\ scan' = [scan EXCEPT ![e] = "finished"]
        /\ \A o \in Site \ {e} : At(o)' = At(o)
    BY <1>2 DEF ReturnNull, NullResult, At
  <2>2. got'[e] = <<NullRow>> /\ scan'[e] = "finished"
    BY <2>1 DEF KvInv, Inv, TypeOK
  <2>3. KvSite(e)'
    BY <2>2 DEF KvSite, Iterating, Open
  <2> QED
    BY <2>1, <2>3, KvUntouched DEF KvInv
<1>3. CASE AskFails(e)
  BY <1>3, BrokenKv DEF AskFails
<1>4. CASE AskTooMany(e)
  BY <1>4, BrokenKv DEF AskTooMany
<1>5. CASE AskAndReturn(e)
  <2>1. FirstCall(e) /\ Asked(e) \notin Unread /\ Rest(e, Populated(Asked(e)), Asked(e))
    BY <1>5 DEF AskAndReturn, Asks
  <2>2. call[e].fn = "kv_get" => Asked(e) \in Contents["kv_get"] \ Unread
    BY <2>1, ReturningAssumption DEF KvInv, Inv, TypeOK, Asked
  <2>3. Working(e, Populated(Asked(e)), Asked(e))
    BY <2>1, FirstWorking DEF KvInv
  <2> QED
    BY <2>1, <2>2, <2>3, RestKv
<1>6. CASE NextCall(e)
  <2>1. Iterating(e) /\ Rest(e, context[e], answer[e])
    BY <1>6 DEF NextCall, Iterating
  <2>2. call[e].fn = "kv_get" => answer[e] \in Contents["kv_get"] \ Unread
    BY <2>1 DEF KvInv, KvSite
  <2>3. Working(e, context[e], answer[e])
    BY <2>1, OpenWorking DEF KvInv
  <2> QED
    BY <2>1, <2>2, <2>3, RestKv
<1> QED
  BY <1>1, <1>2, <1>3, <1>4, <1>5, <1>6 DEF CallFunction

(* So does every other step. *)
LEMMA StepKv == KvInv /\ [Next]_vars => KvInv'
<1>1. SUFFICES ASSUME KvInv, [Next]_vars PROVE \A o \in Site : KvSite(o)'
  BY StepInv DEF KvInv
<1>2. CASE Changes \/ UNCHANGED vars
  <2>1. \A e \in Site : At(e)' = At(e)
    BY <1>2 DEF Changes, StoreMoves, At, vars
  <2> QED
    BY <1>1, <2>1, KvUntouched DEF KvInv
<1>3. CASE Cancel
  BY <1>1, <1>3, BrokenKv DEF Cancel
<1>4. ASSUME NEW e \in Site, Begin(e) PROVE \A o \in Site : KvSite(o)'
  <2>1. /\ got' = [got EXCEPT ![e] = <<>>]
        /\ context' = [context EXCEPT ![e] = NoContext]
        /\ \A o \in Site \ {e} : At(o)' = At(o)
    BY <1>1, <1>4 DEF Begin, BeginScan, At, KvInv, Inv, TypeOK
  <2>2. got'[e] = <<>> /\ context'[e] = NoContext
    BY <1>1, <2>1 DEF KvInv, Inv, TypeOK
  <2>3. KvSite(e)'
    BY <2>2 DEF KvSite, Iterating
  <2> QED
    BY <1>1, <2>1, <2>3, KvUntouched DEF KvInv
<1>5. ASSUME NEW e \in Site, Leave(e) PROVE \A o \in Site : KvSite(o)'
  <2>1. /\ context' = [context EXCEPT ![e] = NoContext]
        /\ UNCHANGED <<got, call>>
        /\ \A o \in Site \ {e} : At(o)' = At(o)
    BY <1>1, <1>5 DEF Leave, LeaveScan, At
  <2>2. context'[e] = NoContext
    BY <1>1, <2>1 DEF KvInv, Inv, TypeOK
  <2>3. KvSite(e)'
    BY <1>1, <2>1, <2>2 DEF KvInv, KvSite, Iterating
  <2> QED
    BY <1>1, <2>1, <2>3, KvUntouched DEF KvInv
<1>6. ASSUME NEW e \in Site, CallFunction(e) PROVE \A o \in Site : KvSite(o)'
  BY <1>1, <1>6, CallKv
<1> QED
  BY <1>1, <1>2, <1>3, <1>4, <1>5, <1>6 DEF Next

(* The rows a query has got come from answers that were read in full.      *)
LEMMA KvInvariance == Spec => []KvInv
BY InitKv, StepKv, PTL DEF Spec

(* On a build whose conversion makes the least int of a double beyond int, *)
(* every row of consul_kv_get tells of its key what the agent said of it,  *)
(* whatever the numbers of the key are and however wide the types are:     *)
(* what narrows on the way is refused, and never shown                     *)
(* (kv_pair.hpp:44-185, pg_consul.cpp:381-421).                            *)
THEOREM RowsAlwaysTellKeys ==
  ASSUME Beyond = -IntLimit
  PROVE  Spec => []RowsTellKeys
<1>1. KvInv => RowsTellKeys
  <2>1. SUFFICES ASSUME KvInv, NEW o \in Delivered \ {NullRow} PROVE TellsKey(o)
    BY DEF RowsTellKeys
  <2>2. PICK e \in Site : call[e].fn = "kv_get" /\ \E i \in DOMAIN got[e] : got[e][i] = o
    BY DEF Delivered
  <2>3. got[e] \in Seq(Row \cup {NullRow})
    BY <2>1, <2>2 DEF KvInv, Inv, TypeOK
  <2>4. o \in Good
    BY <2>1, <2>2, <2>3 DEF KvInv, KvSite
  <2> QED
    BY <2>4, ShownIsTold DEF Good
<1> QED
  BY <1>1, KvInvariance, PTL
=============================================================================
