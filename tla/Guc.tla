-------------------------------- MODULE Guc --------------------------------
(***************************************************************************)
(* How a PostgreSQL backend keeps the three settings of the extension: the *)
(* value in force, the values an enclosing transaction would bring back,   *)
(* and, before the module is loaded, placeholders nobody has validated.    *)
(* The rules are PostgreSQL's; which values are valid is the extension's.  *)
(***************************************************************************)
EXTENDS Agent

CONSTANTS
  ValidHost,  \* the names the host check hook lets pass
  NoValue     \* NULL: a placeholder never set, or the operand of RESET

VARIABLES
  loaded,     \* _PG_init has run in this backend
  txn,        \* "idle", "open" (in a BEGIN block) or "failed" (aborted block)
  guc,        \* the value in force of each setting
  stack       \* what the transaction's end does with it, when it was touched

gucVars == <<loaded, txn, guc, stack>>

Setting == {"host", "port", "timeout"}

Default == [host |-> DEFAULT_HOST, port |-> DEFAULT_PORT,
            timeout |-> DEFAULT_TIMEOUT_MS]

\* Faulty: the timeout's lower bound is that of the type.
DomainWithZero == [host |-> ValidHost, port |-> 1 .. UINT16_MAX,
                   timeout |-> UInt16]

\* The values the check hook and the declared ranges admit.
Domain == [host |-> ValidHost, port |-> 1 .. UINT16_MAX,
           timeout |-> 1 .. UINT16_MAX]

ASSUME GucAssumption ==
  /\ ValidHost \subseteq Name
  /\ DEFAULT_HOST \in ValidHost
  /\ \A s \in Setting : NoValue \notin Domain[s]

\* What a variable may hold: before the module is loaded, anything.
Raw == Name \cup Int \cup {NoValue}
StackEntry == [state : {"none", "SET", "LOCAL", "SET_LOCAL"},
               prior : Raw, masked : Raw]

Untouched == [state |-> "none", prior |-> NoValue, masked |-> NoValue]
Entry(st, p, m) == [state |-> st, prior |-> p, masked |-> m]

Accepts(s, x) == x = NoValue \/ x \in Domain[s]

\* RESET, and a placeholder never set, stand for the default.
Meaning(s, x) == IF x = NoValue THEN Default[s] ELSE x

-----------------------------------------------------------------------------
GucInit ==
  /\ loaded = FALSE
  /\ txn = "idle"
  /\ guc = [s \in Setting |-> NoValue]
  /\ stack = [s \in Setting |-> Untouched]

\* The stack entry after SET or SET LOCAL (push_old_value).
Pushed(e, old, how) ==
  CASE e.state = "none" -> Entry(how, old, NoValue)
    [] how = "SET" /\ e.state # "none" -> Entry("SET", e.prior, NoValue)
    [] how = "LOCAL" /\ e.state = "SET" -> Entry("SET_LOCAL", e.prior, old)
    [] OTHER -> e

\* Faulty: what a placeholder holds is taken over as it stands.
KeepUnchecked(s, x, old) == Meaning(s, x)

\* DefineCustom*Variable puts the values of a placeholder to the check hook
\* again, the oldest first: the one below the stack, a masked one, the current.
\* One that is refused leaves the value before it, and no stack entry.
Keep(s, x, old) == IF Accepts(s, x) THEN Meaning(s, x) ELSE old
PushIf(s, x, e, old, how) == IF Accepts(s, x) THEN Pushed(e, old, how) ELSE e

Masked(s) == stack[s].state = "SET_LOCAL"
Base(s) == Keep(s, stack[s].prior, Default[s])
MaskValue(s) ==
  IF Masked(s) THEN Keep(s, stack[s].masked, Base(s)) ELSE Base(s)
MaskEntry(s) ==
  IF Masked(s) THEN PushIf(s, stack[s].masked, Untouched, Base(s), "SET")
  ELSE Untouched

ReappliedValue(s) == Keep(s, guc[s], MaskValue(s))
ReappliedEntry(s) ==
  IF stack[s].state = "none" THEN Untouched
  ELSE PushIf(s, guc[s], MaskEntry(s), MaskValue(s),
              IF Masked(s) THEN "LOCAL" ELSE stack[s].state)

LoadGuc ==
  /\ ~loaded
  /\ loaded' = TRUE
  /\ guc' = [s \in Setting |-> ReappliedValue(s)]
  /\ stack' = [s \in Setting |-> ReappliedEntry(s)]
  /\ UNCHANGED txn

\* Values that a commit, and an abort, of the transaction leave in force.
CommitValue(s) ==
  CASE stack[s].state = "LOCAL" -> stack[s].prior
    [] stack[s].state = "SET_LOCAL" -> stack[s].masked
    [] OTHER -> guc[s]

AbortValue(s) == IF stack[s].state = "none" THEN guc[s] ELSE stack[s].prior

EndTransaction(values) ==
  /\ guc' = values
  /\ stack' = [s \in Setting |-> Untouched]
  /\ UNCHANGED loaded

\* SET, SET LOCAL and RESET (x = NoValue). Outside a block SET is a whole
\* transaction, and SET LOCAL does nothing.
SetGuc(s, x, how) ==
  /\ txn # "failed"
  /\ txn = "idle" => how = "SET"
  /\ loaded => Accepts(s, x)
  /\ guc' = [guc EXCEPT ![s] = IF loaded THEN Meaning(s, x) ELSE x]
  /\ stack' = IF txn = "idle" THEN stack
              ELSE [stack EXCEPT ![s] = Pushed(@, guc[s], how)]
  /\ UNCHANGED <<loaded, txn>>

Begin ==
  /\ txn = "idle"
  /\ txn' = "open"
  /\ UNCHANGED <<loaded, guc, stack>>

Commit ==
  /\ txn = "open"
  /\ txn' = "idle"
  /\ EndTransaction([s \in Setting |-> CommitValue(s)])

\* An error, or ROLLBACK. In a block, an error leaves it failed until ROLLBACK.
Abort(next) ==
  /\ txn' = IF txn = "idle" THEN "idle" ELSE next
  /\ EndTransaction([s \in Setting |-> AbortValue(s)])

-----------------------------------------------------------------------------
GucTypeOK ==
  /\ loaded \in BOOLEAN
  /\ txn \in {"idle", "open", "failed"}
  /\ guc \in [Setting -> Raw]
  /\ stack \in [Setting -> StackEntry]

\* Once the extension has defined a setting, an unvalidated value is neither
\* in force nor waiting in the stack, and the stack is a transaction's own.
ValidEntry(s, e) ==
  /\ e.state # "none" => e.prior \in Domain[s]
  /\ e.state = "SET_LOCAL" => e.masked \in Domain[s]
OnlyValidValues ==
  \A s \in Setting :
    /\ loaded => guc[s] \in Domain[s] /\ ValidEntry(s, stack[s])
    /\ txn # "open" => stack[s].state = "none"
=============================================================================
