--------------------------- MODULE ConfigSession ---------------------------
(***************************************************************************)
(* What the settings promise: a statement's requests go to the host and    *)
(* port, and carry the timeout, that are in force when it runs. No agent   *)
(* object, no memoised URL and no hook takes part in it.                   *)
(***************************************************************************)
EXTENDS Guc, Sequences

CONSTANTS
  How,                \* the forms of SET in use: "SET" and "LOCAL"
  Input,              \* Input[s]: the operands of SET for setting s
  PingHost, PingPort  \* text and int4 arguments of consul_agent_ping

ASSUME ConfigAssumption ==
  /\ How \subseteq {"SET", "LOCAL"}
  /\ Input \in [Setting -> SUBSET (Name \cup Int)]
  /\ \A s \in Setting : NoValue \notin Input[s]
  /\ PingHost \subseteq Name /\ PingPort \subseteq Int

VARIABLE sent  \* the HTTP requests the last statement made

configVars == <<gucVars, sent>>

\* A request made from the settings in force, and one a ping spells out.
RequestNow(e) ==
  [url |-> [host |-> guc["host"], port |-> guc["port"], endpoint |-> e],
   timeout |-> guc["timeout"]]
PingOf(h, p) ==
  [url |-> [host |-> h, port |-> Narrow(p), endpoint |-> "self"],
   timeout |-> DEFAULT_TIMEOUT_MS]

ConfigInit == GucInit /\ sent = <<>>

SettingsStep ==
  \/ txn # "failed" /\ LoadGuc
  \/ Begin
  \/ Commit
  \/ txn # "idle" /\ Abort("idle")
  \/ \E s \in Setting : \E x \in Input[s] \cup {NoValue} :
       \/ \E how \in How : SetGuc(s, x, how)
       \/ txn # "failed" /\ loaded /\ ~Accepts(s, x) /\ Abort("failed")

\* A ping answers; every other call answers, or fails and aborts.
CallStep ==
  /\ loaded /\ txn # "failed"
  /\ \/ /\ sent' = <<RequestNow("self")>>
        /\ UNCHANGED gucVars
     \/ /\ \E h \in Name, p \in PingPort : sent' = <<PingOf(h, p)>>
        /\ UNCHANGED gucVars
     \/ /\ \/ \E e \in {"leader", "kv"} : sent' = <<RequestNow(e)>>
           \/ sent' = <<RequestNow("leader"), RequestNow("peers")>>
           \/ sent' = <<>>
        /\ (UNCHANGED gucVars \/ Abort("failed"))

\* SHOW sends nothing and changes nothing.
ConfigNext ==
  \/ SettingsStep /\ sent' = <<>>
  \/ UNCHANGED gucVars /\ sent' = <<>>
  \/ CallStep

ConfigSpec == ConfigInit /\ [][ConfigNext]_configVars

=============================================================================
