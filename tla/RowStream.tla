------------------------------ MODULE RowStream ------------------------------
(***************************************************************************)
(* What a query may see of the set-returning functions consul_kv_get() and *)
(* consul_status_peers(), the C++ objects behind them left out.  A scan    *)
(* asks the agent once, at its first call, and then hands out the rows of  *)
(* that one answer, in order and each of them once, whatever happens to    *)
(* what the agent holds in the meantime.  It finishes when every row has   *)
(* been handed out, and never otherwise; an error, a cancelled statement   *)
(* or a reader that wants no more may break it off at any point.           *)
(*                                                                         *)
(* SetReturning, which models the code, implements this specification.     *)
(***************************************************************************)
EXTENDS Naturals, Sequences

CONSTANTS
  Site,       \* the places of the running queries that call a function
  Source,     \* what a scan may ask the agent for: keys, or peers
  Row,        \* the rows an answer of the agent can be parsed into
  Contents,   \* Contents[s]: the answers it may give, sequences of rows
  NullRow,    \* the row of NULLs the executor makes of a NULL result
  NoAnswer    \* a scan has not asked the agent yet

ASSUME StreamAssumption ==
  /\ Contents \in [Source -> SUBSET Seq(Row)]
  /\ NullRow \notin Row
  /\ \A s \in Source : NoAnswer \notin Contents[s]

Answers == UNION {Contents[s] : s \in Source}

VARIABLES
  stored,   \* the rows the agent would answer with now, of each source
  scan,     \* what the executor knows of the site's latest scan
  answer,   \* the answer the scan iterates over
  got       \* the rows the scan has handed to the query

streamVars == <<stored, scan, answer, got>>

ScanState == {"idle", "open", "finished", "left", "failed"}

StreamInit ==
  /\ stored \in [Source -> Answers] /\ \A s \in Source : stored[s] \in Contents[s]
  /\ scan = [e \in Site |-> "idle"]
  /\ answer = [e \in Site |-> NoAnswer]
  /\ got = [e \in Site |-> <<>>]

(* The keys, or the peers, change under the scans. *)
StoreMoves == /\ \E s \in Source : \E c \in Contents[s] :
                   stored' = [stored EXCEPT ![s] = c]
              /\ UNCHANGED <<scan, answer, got>>

BeginScan(e) ==
  /\ scan[e] # "open"
  /\ scan' = [scan EXCEPT ![e] = "open"]
  /\ answer' = [answer EXCEPT ![e] = NoAnswer]
  /\ got' = [got EXCEPT ![e] = <<>>]
  /\ UNCHANGED stored

(* The answer a call works on: the first call of a scan asks for it. *)
AnswerNow(e, s) == IF answer[e] = NoAnswer THEN stored[s] ELSE answer[e]

TakeRow(e, s) ==
  /\ scan[e] = "open" /\ Len(got[e]) < Len(AnswerNow(e, s))
  /\ answer' = [answer EXCEPT ![e] = AnswerNow(e, s)]
  /\ got' = [got EXCEPT ![e] = Append(@, AnswerNow(e, s)[Len(@) + 1])]
  /\ UNCHANGED <<stored, scan>>

(* A scan of no rows may still show one row of NULLs. *)
FinishScan(e, s) ==
  /\ scan[e] = "open" /\ Len(got[e]) = Len(AnswerNow(e, s))
  /\ answer' = [answer EXCEPT ![e] = AnswerNow(e, s)]
  /\ \/ UNCHANGED got
     \/ got[e] = <<>> /\ got' = [got EXCEPT ![e] = <<NullRow>>]
  /\ scan' = [scan EXCEPT ![e] = "finished"]
  /\ UNCHANGED stored

(* A NULL argument: one row of NULLs, and the agent is not asked. *)
NullResult(e) ==
  /\ scan[e] = "open" /\ answer[e] = NoAnswer
  /\ got' = [got EXCEPT ![e] = <<NullRow>>]
  /\ scan' = [scan EXCEPT ![e] = "finished"]
  /\ UNCHANGED <<stored, answer>>

LeaveScan(e) ==
  /\ scan[e] = "open"
  /\ scan' = [scan EXCEPT ![e] = "left"]
  /\ UNCHANGED <<stored, answer, got>>

(* An error ends every scan of the transaction. *)
BreakScans ==
  /\ scan' = [e \in Site |-> IF scan[e] = "open" THEN "failed" ELSE scan[e]]
  /\ UNCHANGED <<stored, answer, got>>

StreamNext ==
  \/ StoreMoves
  \/ BreakScans
  \/ \E e \in Site :
       \/ BeginScan(e) \/ NullResult(e) \/ LeaveScan(e)
       \/ \E s \in Source : TakeRow(e, s) \/ FinishScan(e, s)

StreamSpec == StreamInit /\ [][StreamNext]_streamVars
=============================================================================
