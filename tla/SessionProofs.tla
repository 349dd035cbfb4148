--------------------------- MODULE SessionProofs ---------------------------
(***************************************************************************)
(* Proofs about Session, for any names, settings' operands and pings.      *)
(*                                                                         *)
(* Inv says three things, each needed for the others to be inductive: the  *)
(* settings in force and every value the stack could bring back are valid  *)
(* (GucInv), so that whatever a transaction's end reinstates fits the      *)
(* agent's 16 bits unchanged; the agent's memoised URLs are coherent and,  *)
(* once the module is loaded, it holds the settings in force (AgentInv);   *)
(* and the requests of the last statement agree (SentInv).                 *)
(***************************************************************************)
EXTENDS Session, TLAPS

\* What the proofs know of the largest std::uint16_t.
LEMMA Max ==
  /\ UINT16_MAX \in Nat
  /\ UINT16_MAX > DEFAULT_PORT /\ UINT16_MAX > DEFAULT_TIMEOUT_MS
BY DEF UINT16_MAX, DEFAULT_PORT, DEFAULT_TIMEOUT_MS

\* An int converted to std::uint16_t is one ...
LEMMA NarrowType == ASSUME NEW n \in Int PROVE Narrow(n) \in UInt16
BY Max DEF Narrow, UInt16

\* ... and the same number if it was in range,
LEMMA NarrowId == ASSUME NEW n \in Int, 0 <= n,
n <= UINT16_MAX PROVE Narrow(n) = n
BY Max DEF Narrow

\* as every port and timeout is that the declared ranges admit.
LEMMA NarrowIdentity == ASSUME NEW n \in 1 .. UINT16_MAX PROVE Narrow(n) = n
BY Max, NarrowId

\* The domain of each setting.
LEMMA DomainValues ==
  /\ Domain["host"] = ValidHost
  /\ Domain["port"] = 1 .. UINT16_MAX
  /\ Domain["timeout"] = 1 .. UINT16_MAX
BY DEF Domain

\* The defaults of _PG_init are in the domains ...
LEMMA DefaultValues == \A s \in Setting : Default[s] \in Domain[s]
BY GucAssumption, Max
  DEF Domain, Default, Setting, DEFAULT_PORT, DEFAULT_TIMEOUT_MS

\* ... and the domains hold no NULL.
LEMMA DomainRaw ==
  \A s \in Setting : Domain[s] \subseteq Raw /\ NoValue \notin Domain[s]
BY GucAssumption, Max, DomainValues DEF Setting, Raw

\* Asking for a URL changes what is memoised and nothing else, and hands out
\* the URL of the agent's host and port.
LEMMA MemoizeFacts ==
  ASSUME NEW a \in AgentT, NEW e \in Endpoint, Coherent(a)
  PROVE  /\ Memoize(a, e) \in AgentT
         /\ Coherent(Memoize(a, e))
         /\ Memoize(a, e).host = a.host
         /\ Memoize(a, e).port = a.port
         /\ Memoize(a, e).timeoutMs = a.timeoutMs
         /\ MemoizedUrl(a, e) = BuildUrl(a, e)
BY AgentAssumption DEF Memoize, AgentT, Coherent, MemoizedUrl, BuildUrl, Url

\* setHost leaves a coherent agent with the new host,
LEMMA SetHostFacts ==
  ASSUME NEW a \in AgentT, NEW h \in Name
  PROVE  /\ SetHost(a, h) \in AgentT
         /\ Coherent(SetHost(a, h))
         /\ SetHost(a, h).host = h
         /\ SetHost(a, h).port = a.port
         /\ SetHost(a, h).timeoutMs = a.timeoutMs
BY DEF SetHost, InvalidateMemoizedUrls, NothingMemoised, AgentT, Coherent

\* setPort one with the new port,
LEMMA SetPortFacts ==
  ASSUME NEW a \in AgentT, NEW p \in UInt16
  PROVE  /\ SetPort(a, p) \in AgentT
         /\ Coherent(SetPort(a, p))
         /\ SetPort(a, p).host = a.host
         /\ SetPort(a, p).port = p
         /\ SetPort(a, p).timeoutMs = a.timeoutMs
BY DEF SetPort, InvalidateMemoizedUrls, NothingMemoised, AgentT, Coherent

\* and setTimeoutMs one with the new timeout.
LEMMA SetTimeoutFacts ==
  ASSUME NEW a \in AgentT, NEW t \in UInt16, Coherent(a)
  PROVE  /\ SetTimeoutMs(a, t) \in AgentT
         /\ Coherent(SetTimeoutMs(a, t))
         /\ SetTimeoutMs(a, t).host = a.host
         /\ SetTimeoutMs(a, t).port = a.port
         /\ SetTimeoutMs(a, t).timeoutMs = t
BY DEF SetTimeoutMs, AgentT, Coherent, BuildUrl

\* An accepted operand means a value of the setting's domain.
LEMMA MeaningValid ==
  ASSUME NEW s \in Setting, NEW x, Accepts(s, x)
  PROVE  Meaning(s, x) \in Domain[s]
BY DefaultValues DEF Accepts, Meaning

\* A placeholder's value put to the check hook gives way to a valid one.
LEMMA KeepValid ==
  ASSUME NEW s \in Setting, NEW x, NEW old \in Domain[s]
  PROVE  Keep(s, x, old) \in Domain[s]
BY MeaningValid DEF Keep

\* An entry pushed over valid values is a valid entry.
LEMMA PushedValid ==
  ASSUME NEW s \in Setting, NEW e \in StackEntry, ValidEntry(s, e),
         NEW old \in Domain[s], NEW how \in {"SET", "LOCAL"}
  PROVE  Pushed(e, old, how) \in StackEntry /\ ValidEntry(s, Pushed(e, old,
  how))
<1>1. old \in Raw
  BY DomainRaw
<1>2. CASE e.state = "none"
  <2>1. Pushed(e, old, how) = Entry(how, old, NoValue)
    BY <1>2 DEF Pushed
  <2>2. QED
    BY <1>1, <2>1 DEF Entry, StackEntry, ValidEntry, Raw
<1>3. CASE e.state # "none" /\ how = "SET"
  <2>1. Pushed(e, old, how) = Entry("SET", e.prior, NoValue)
    BY <1>3 DEF Pushed
  <2>2. QED
    BY <1>3, <2>1 DEF Entry, StackEntry, ValidEntry, Raw
<1>4. CASE e.state # "none" /\ how = "LOCAL" /\ e.state = "SET"
  <2>1. Pushed(e, old, how) = Entry("SET_LOCAL", e.prior, old)
    BY <1>4 DEF Pushed
  <2>2. QED
    BY <1>1, <1>4, <2>1 DEF Entry, StackEntry, ValidEntry, Raw
<1>5. CASE e.state # "none" /\ how = "LOCAL" /\ e.state # "SET"
  BY <1>5 DEF Pushed
<1>6. QED
  BY <1>2, <1>3, <1>4, <1>5

\* So is the entry after a value that may have been refused,
LEMMA PushIfValid ==
  ASSUME NEW s \in Setting, NEW x, NEW e \in StackEntry, ValidEntry(s, e),
         NEW old \in Domain[s], NEW how \in {"SET", "LOCAL"}
  PROVE  /\ PushIf(s, x, e, old, how) \in StackEntry
         /\ ValidEntry(s, PushIf(s, x, e, old, how))
BY PushedValid DEF PushIf

\* and the empty one.
LEMMA UntouchedValid ==
  Untouched \in StackEntry /\ \A s \in Setting : ValidEntry(s, Untouched)
BY DEF Untouched, StackEntry, Raw, ValidEntry

\* What loading the module makes of a placeholder is valid, stack included.
LEMMA ReappliedValid ==
  ASSUME NEW s \in Setting, stack[s] \in StackEntry
  PROVE  /\ ReappliedValue(s) \in Domain[s]
         /\ ReappliedEntry(s) \in StackEntry
         /\ ValidEntry(s, ReappliedEntry(s))
         /\ stack[s].state = "none" => ReappliedEntry(s).state = "none"
<1>1. Base(s) \in Domain[s]
  BY DefaultValues, KeepValid DEF Base
<1>2. MaskValue(s) \in Domain[s]
  BY <1>1, KeepValid DEF MaskValue
<1>3. MaskEntry(s) \in StackEntry /\ ValidEntry(s, MaskEntry(s))
  BY <1>1, PushIfValid, UntouchedValid DEF MaskEntry
<1>4. ReappliedValue(s) \in Domain[s]
  BY <1>2, KeepValid DEF ReappliedValue
<1>5. ReappliedEntry(s) \in StackEntry /\ ValidEntry(s, ReappliedEntry(s))
  <2>1. CASE stack[s].state = "none"
    BY <2>1, UntouchedValid DEF ReappliedEntry
  <2>2. CASE stack[s].state # "none"
    <3>1. (IF Masked(s) THEN "LOCAL" ELSE stack[s].state) \in {"SET", "LOCAL"}
      BY <2>2 DEF Masked, StackEntry
    <3>2. QED
      BY <2>2, <3>1, <1>2, <1>3, PushIfValid DEF ReappliedEntry
  <2>3. QED
    BY <2>1, <2>2
<1>6. stack[s].state = "none" => ReappliedEntry(s).state = "none"
  BY DEF ReappliedEntry, Untouched
<1>7. QED
  BY <1>4, <1>5, <1>6

-----------------------------------------------------------------------------
(* What the steps of the settings preserve.                                *)
GucInv == GucTypeOK /\ OnlyValidValues

\* Loading the module establishes valid settings.
LEMMA LoadGucPreserves == GucInv /\ LoadGuc => GucInv'
<1> SUFFICES ASSUME GucInv, LoadGuc PROVE GucInv'
  OBVIOUS
<1>1. \A s \in Setting :
        /\ guc'[s] \in Domain[s]
        /\ stack'[s] \in StackEntry /\ ValidEntry(s, stack'[s])
        /\ stack[s].state = "none" => stack'[s].state = "none"
  BY ReappliedValid DEF GucInv, GucTypeOK, LoadGuc
<1>2. GucTypeOK'
  BY <1>1, DomainRaw DEF GucInv, GucTypeOK, LoadGuc
<1>3. OnlyValidValues'
  BY <1>1 DEF GucInv, OnlyValidValues, LoadGuc
<1>4. QED
  BY <1>2, <1>3 DEF GucInv

\* SET, SET LOCAL and RESET keep the settings valid,
LEMMA SetGucPreserves ==
  ASSUME GucInv, NEW s \in Setting, NEW x \in Input[s] \cup {NoValue},
         NEW how \in {"SET", "LOCAL"}, SetGuc(s, x, how)
  PROVE  GucInv' /\ (loaded => guc'[s] \in Domain[s])
<1>1. x \in Raw
  BY ConfigAssumption DEF Raw
<1>2. loaded => Meaning(s, x) \in Domain[s]
  BY MeaningValid DEF SetGuc
<1>3. guc' \in [Setting -> Raw] /\ (loaded => guc'[s] \in Domain[s])
  BY <1>1, <1>2, DomainRaw DEF SetGuc, GucInv, GucTypeOK
<1>4. Pushed(stack[s], guc[s], how) \in StackEntry
  BY DEF Pushed, Entry, StackEntry, GucInv, GucTypeOK, Raw
<1>5. loaded => ValidEntry(s, Pushed(stack[s], guc[s], how))
  BY PushedValid DEF GucInv, GucTypeOK, OnlyValidValues
<1>6. GucTypeOK'
  BY <1>3, <1>4 DEF SetGuc, GucInv, GucTypeOK
<1>7. OnlyValidValues'
  BY <1>3, <1>5 DEF SetGuc, GucInv, GucTypeOK, OnlyValidValues
<1>8. QED
  BY <1>3, <1>6, <1>7 DEF GucInv

\* The values a commit or an abort brings back were validated.
LEMMA EndPreserves ==
  ASSUME GucInv, NEW values, EndTransaction(values), txn' \in {"idle", "open",
  "failed"},
         values \in [Setting -> Raw],
         loaded => \A s \in Setting : values[s] \in Domain[s]
  PROVE  GucInv'
<1>1. \A s \in Setting : stack'[s] = Untouched
  BY DEF EndTransaction
<1>2. GucTypeOK'
  BY <1>1, UntouchedValid DEF GucInv, GucTypeOK, EndTransaction
<1>3. OnlyValidValues'
  BY <1>1, UntouchedValid DEF GucInv, OnlyValidValues, EndTransaction, Untouched
<1>4. QED
  BY <1>2, <1>3 DEF GucInv

\* a commit does,
LEMMA CommitPreserves == GucInv /\ Commit => GucInv'
<1> SUFFICES ASSUME GucInv, Commit PROVE GucInv'
  OBVIOUS
<1> DEFINE values == [s \in Setting |-> CommitValue(s)]
<1>1. \A s \in Setting : CommitValue(s) \in Raw
  BY DEF CommitValue, GucInv, GucTypeOK, StackEntry
<1>2. loaded => \A s \in Setting : CommitValue(s) \in Domain[s]
  BY DEF CommitValue, GucInv, GucTypeOK, OnlyValidValues, ValidEntry
<1>3. QED
  BY <1>1, <1>2, EndPreserves DEF Commit

\* and so does an abort, from an error or a ROLLBACK.
LEMMA AbortPreserves ==
  ASSUME GucInv, NEW next \in {"idle", "failed"}, Abort(next)
  PROVE  GucInv'
<1> DEFINE values == [s \in Setting |-> AbortValue(s)]
<1>1. \A s \in Setting : AbortValue(s) \in Raw
  BY DEF AbortValue, GucInv, GucTypeOK, StackEntry
<1>2. loaded => \A s \in Setting : AbortValue(s) \in Domain[s]
  BY DEF AbortValue, GucInv, GucTypeOK, OnlyValidValues, ValidEntry
<1>3. QED
  BY <1>1, <1>2, EndPreserves DEF Abort

-----------------------------------------------------------------------------
(* What the hooks do to the agent.                                         *)
LEMMA HookFacts ==
  ASSUME NEW a \in AgentT, Coherent(a), NEW s \in Setting, NEW x \in Domain[s]
  PROVE  /\ AssignHook(a, s, x) \in AgentT
         /\ Coherent(AssignHook(a, s, x))
         /\ AssignHook(a, s, x).host = IF s = "host" THEN x ELSE a.host
         /\ AssignHook(a, s, x).port = IF s = "port" THEN x ELSE a.port
         /\ AssignHook(a, s, x).timeoutMs =
              IF s = "timeout" THEN x ELSE a.timeoutMs
<1>1. CASE s = "host"
  <2>1. x \in Name
    BY <1>1, DomainValues, GucAssumption
  <2>2. AssignHook(a, s, x) = SetHost(a, x)
    BY <1>1 DEF AssignHook
  <2>3. QED
    BY <1>1, <2>1, <2>2, SetHostFacts
<1>2. CASE s = "port"
  <2>1. Narrow(x) = x /\ x \in UInt16
    BY <1>2, DomainValues, NarrowIdentity, Max DEF UInt16
  <2>2. AssignHook(a, s, x) = SetPort(a, x)
    BY <1>2, <2>1 DEF AssignHook
  <2>3. QED
    BY <1>2, <2>1, <2>2, SetPortFacts
<1>3. CASE s = "timeout"
  <2>1. Narrow(x) = x /\ x \in UInt16
    BY <1>3, DomainValues, NarrowIdentity, Max DEF UInt16
  <2>2. AssignHook(a, s, x) = SetTimeoutMs(a, x)
    BY <1>3, <2>1 DEF AssignHook
  <2>3. QED
    BY <1>3, <2>1, <2>2, SetTimeoutFacts
<1>4. QED
  BY <1>1, <1>2, <1>3 DEF Setting

\* All three hooks leave an agent of the new settings, from whatever agent.
LEMMA AllHooks ==
  ASSUME NEW a \in AgentT, Coherent(a),
         NEW h \in Domain["host"], NEW p \in Domain["port"],
         NEW t \in Domain["timeout"]
  PROVE  LET b == AssignHook(AssignHook(AssignHook(a, "host", h), "port", p),
                             "timeout", t)
         IN  b \in AgentT /\ Coherent(b)
             /\ b.host = h /\ b.port = p /\ b.timeoutMs = t
<1> "host" \in Setting /\ "port" \in Setting /\ "timeout" \in Setting
  BY DEF Setting
<1> DEFINE b1 == AssignHook(a, "host", h)
           b2 == AssignHook(b1, "port", p)
           b3 == AssignHook(b2, "timeout", t)
<1>1. b1 \in AgentT /\ Coherent(b1) /\ b1.host = h
  BY HookFacts
<1> HIDE DEF b1
<1>2. b2 \in AgentT /\ Coherent(b2) /\ b2.host = h /\ b2.port = p
  BY <1>1, HookFacts
<1> HIDE DEF b2
<1>3. b3 \in AgentT /\ Coherent(b3) /\ b3.host = h /\ b3.port = p
      /\ b3.timeoutMs = t
  BY <1>2, HookFacts
<1>4. QED
  BY <1>3 DEF b1, b2

\* One hook, called if its setting changed, brings that setting up to date.
LEMMA ReassignFacts ==
  ASSUME NEW a \in AgentT, Coherent(a), NEW s \in Setting, guc'[s] \in Domain[s]
  PROVE  /\ Reassign(a, s) \in AgentT
         /\ Coherent(Reassign(a, s))
         /\ Reassign(a, s).host =
              IF s = "host" /\ guc'[s] # guc[s] THEN guc'[s] ELSE a.host
         /\ Reassign(a, s).port =
              IF s = "port" /\ guc'[s] # guc[s] THEN guc'[s] ELSE a.port
         /\ Reassign(a, s).timeoutMs =
              IF s = "timeout" /\ guc'[s] # guc[s] THEN guc'[s] ELSE a.timeoutMs
BY HookFacts DEF Reassign

\* The hooks a transaction's end runs keep the agent on the settings.
LEMMA RunHooksFacts ==
  ASSUME NEW a \in AgentT, Coherent(a), loaded => Follows(a),
         loaded => \A s \in Setting : guc'[s] \in Domain[s]
  PROVE  /\ RunHooks(a) \in AgentT
         /\ Coherent(RunHooks(a))
         /\ loaded => /\ RunHooks(a).host = guc'["host"]
                      /\ RunHooks(a).port = guc'["port"]
                      /\ RunHooks(a).timeoutMs = guc'["timeout"]
<1>1. CASE ~loaded
  BY <1>1 DEF RunHooks
<1>2. CASE loaded
  <2> "host" \in Setting /\ "port" \in Setting /\ "timeout" \in Setting
    BY DEF Setting
  <2> DEFINE b1 == Reassign(a, "host")
             b2 == Reassign(b1, "port")
             b3 == Reassign(b2, "timeout")
  <2>1. b1 \in AgentT /\ Coherent(b1) /\ b1.host = guc'["host"]
        /\ b1.port = guc["port"] /\ b1.timeoutMs = guc["timeout"]
    BY <1>2, ReassignFacts DEF Follows
  <2> HIDE DEF b1
  <2>2. b2 \in AgentT /\ Coherent(b2) /\ b2.host = guc'["host"]
        /\ b2.port = guc'["port"] /\ b2.timeoutMs = guc["timeout"]
    BY <1>2, <2>1, ReassignFacts
  <2> HIDE DEF b2
  <2>3. b3 \in AgentT /\ Coherent(b3) /\ b3.host = guc'["host"]
        /\ b3.port = guc'["port"] /\ b3.timeoutMs = guc'["timeout"]
    BY <1>2, <2>2, ReassignFacts
  <2>4. QED
    BY <1>2, <2>3 DEF RunHooks, b1, b2
<1>3. QED
  BY <1>1, <1>2

\* A coherent agent's request goes to its host and port with its timeout.
LEMMA RequestFacts ==
  ASSUME NEW a \in AgentT, Coherent(a), NEW e \in Endpoint
  PROVE  /\ RequestTo(a, e) \in Request
         /\ RequestTo(a, e) =
              [url |-> [host |-> a.host, port |-> a.port, endpoint |-> e],
               timeout |-> a.timeoutMs]
BY MemoizeFacts DEF RequestTo, Request, BuildUrl, Url, AgentT

\* The agent of a ping with arguments is coherent and has the default timeout.
LEMMA NewAgentFacts ==
  ASSUME NEW h \in Name, NEW p \in UInt16
  PROVE  /\ NewAgent(h, p) \in AgentT
         /\ Coherent(NewAgent(h, p))
         /\ NewAgent(h, p).host = h
         /\ NewAgent(h, p).port = p
         /\ NewAgent(h, p).timeoutMs = DEFAULT_TIMEOUT_MS
<1>1. DEFAULT_TIMEOUT_MS \in UInt16
  BY Max DEF UInt16, DEFAULT_TIMEOUT_MS
<1>2. QED
  BY <1>1 DEF NewAgent, NothingMemoised, AgentT, Coherent

-----------------------------------------------------------------------------
(* The inductive invariant. TypeOK, UrlsCoherent and AgentFollowsSettings  *)
(* are not inductive without OnlyValidValues: a hook may only be handed a  *)
(* value that fits the agent.                                              *)
AgentInv == agent \in AgentT /\ UrlsCoherent /\ AgentFollowsSettings
SentInv == sent \in Seq(Request) /\ OneAgentPerStatement /\ RequestsExpire
Inv == GucInv /\ AgentInv /\ SentInv

\* A statement without requests satisfies what is said of requests;
LEMMA NoRequest == sent = <<>> => SentInv
BY DEF SentInv, OneAgentPerStatement, RequestsExpire

\* one request does if it has a timeout;
LEMMA OneRequest ==
  ASSUME NEW r \in Request, r.timeout # 0, sent' = <<r>> PROVE SentInv'
BY DEF SentInv, OneAgentPerStatement, RequestsExpire

\* An agent that follows the settings asks with a timeout they admit.
LEMMA AskedExpires ==
  ASSUME GucInv, loaded, NEW a \in AgentT, Coherent(a), Follows(a),
         NEW e \in Endpoint
  PROVE  RequestTo(a, e).timeout # 0
<1>1. guc["timeout"] \in 1 .. UINT16_MAX
  BY DomainValues DEF GucInv, OnlyValidValues, Setting
<1>2. QED
  BY <1>1, Max, RequestFacts DEF Follows

\* and the two requests of status_peers go to one agent.
LEMMA TwoRequests ==
  ASSUME GucInv, loaded, NEW a \in AgentT, Coherent(a), Follows(a),
         NEW e \in Endpoint, NEW f \in Endpoint,
         sent' = <<RequestTo(a, e), RequestTo(Memoize(a, e), f)>>
  PROVE  SentInv'
<1>1. RequestTo(a, e) \in Request /\ RequestTo(Memoize(a, e), f) \in Request
  BY RequestFacts, MemoizeFacts
<1>2. /\ RequestTo(a, e).url.host = RequestTo(Memoize(a, e), f).url.host
      /\ RequestTo(a, e).url.port = RequestTo(Memoize(a, e), f).url.port
      /\ RequestTo(a, e).timeout = RequestTo(Memoize(a, e), f).timeout
  BY RequestFacts, MemoizeFacts
<1>3. DOMAIN sent' = {1, 2}
  OBVIOUS
<1>4. RequestTo(a, e).timeout # 0 /\ RequestTo(Memoize(a, e), f).timeout # 0
  BY <1>2, AskedExpires
<1>5. QED
  BY <1>1, <1>2, <1>3, <1>4 DEF SentInv, OneAgentPerStatement, RequestsExpire

\* A call leaves an agent that differs in nothing but its memoised URLs.
LEMMA AskedFacts ==
  ASSUME AgentInv, NEW e \in Endpoint
  PROVE  /\ Memoize(agent, e) \in AgentT
         /\ Coherent(Memoize(agent, e))
         /\ loaded => Follows(Memoize(agent, e))
BY MemoizeFacts DEF AgentInv, UrlsCoherent, AgentFollowsSettings, Follows

\* A call that answers leaves settings and agent in step,
LEMMA AnswersPreserves ==
  ASSUME GucInv, NEW a \in AgentT, Coherent(a), loaded => Follows(a), Answers(a)
  PROVE  GucInv' /\ AgentInv'
<1>1. GucInv'
  BY DEF Answers, gucVars, GucInv, GucTypeOK, OnlyValidValues
<1>2. AgentInv'
  BY DEF Answers, gucVars, AgentInv, UrlsCoherent, AgentFollowsSettings, Follows
<1>3. QED
  BY <1>1, <1>2

\* A transaction's end: the hooks run on what agent there is.
LEMMA EndRunsHooks ==
  ASSUME NEW a \in AgentT, Coherent(a), loaded => Follows(a),
         GucInv', loaded' = loaded, agent' = RunHooks(a)
  PROVE  AgentInv'
<1>1. loaded => \A s \in Setting : guc'[s] \in Domain[s]
  BY DEF GucInv, OnlyValidValues
<1>2. QED
  BY <1>1, RunHooksFacts
    DEF AgentInv, UrlsCoherent, AgentFollowsSettings, Follows

\* and so does one that fails, though the abort brings settings back.
LEMMA FailsPreserves ==
  ASSUME GucInv, NEW a \in AgentT, Coherent(a), loaded => Follows(a), Fails(a)
  PROVE  GucInv' /\ AgentInv'
<1>1. GucInv'
  BY AbortPreserves DEF Fails
<1>2. AgentInv'
  BY <1>1, EndRunsHooks DEF Fails, Abort, EndTransaction
<1>3. QED
  BY <1>1, <1>2

\* The first state: placeholders without values, an agent of the defaults.
LEMMA InitInv == Init => Inv
<1> SUFFICES ASSUME Init PROVE Inv
  OBVIOUS
<1>1. GucInv
  BY UntouchedValid
    DEF Init, GucInit, GucInv, GucTypeOK, OnlyValidValues, Raw, Untouched
<1>2. AgentInv
  BY NewAgentFacts, AgentAssumption, Max
     DEF Init, GucInit, AgentInv, UrlsCoherent, AgentFollowsSettings, UInt16,
         DEFAULT_PORT
<1>3. QED
  BY <1>1, <1>2, NoRequest DEF Init, Inv

\* Every step of the session keeps the invariant.
LEMMA StepInv == Inv /\ [Next]_vars => Inv'
<1> SUFFICES ASSUME Inv, [Next]_vars PROVE Inv'
  OBVIOUS
<1> USE DEF Inv
<1> agent \in AgentT /\ Coherent(agent) /\ (loaded => Follows(agent))
  BY DEF AgentInv, UrlsCoherent, AgentFollowsSettings
<1> Endpoint = {"kv", "nodes", "self", "leader", "peers"}
  BY DEF Endpoint
<1>s. ASSUME Silent PROVE SentInv'
  BY <1>s DEF Silent, SentInv, OneAgentPerStatement, RequestsExpire
<1>1. CASE Load
  <2>1. GucInv'
    BY <1>1, LoadGucPreserves DEF Load
  <2>2. /\ guc'["host"] \in Domain["host"] /\ guc'["port"] \in Domain["port"]
        /\ guc'["timeout"] \in Domain["timeout"]
    BY <1>1, <2>1 DEF Load, LoadGuc, GucInv, OnlyValidValues, Setting
  <2>3. AgentInv'
    BY <1>1, <2>2, AllHooks
      DEF Load, AgentInv, UrlsCoherent, AgentFollowsSettings, Follows
  <2>4. QED
    BY <1>1, <1>s, <2>1, <2>3 DEF Load
<1>2. CASE BeginBlock
  <2>1. GucInv'
    BY <1>2 DEF BeginBlock, Begin, GucInv, GucTypeOK, OnlyValidValues
  <2>2. AgentInv'
    BY <1>2
      DEF BeginBlock, Begin, AgentInv, UrlsCoherent, AgentFollowsSettings,
          Follows
  <2>3. QED
    BY <1>2, <1>s, <2>1, <2>2 DEF BeginBlock
<1>3. CASE CommitBlock
  <2>1. GucInv'
    BY <1>3, CommitPreserves DEF CommitBlock
  <2>2. AgentInv'
    BY <1>3, <2>1, EndRunsHooks DEF CommitBlock, Commit, EndTransaction
  <2>3. QED
    BY <1>3, <1>s, <2>1, <2>2 DEF CommitBlock
<1>4. CASE RollbackBlock
  <2>1. GucInv'
    BY <1>4, AbortPreserves DEF RollbackBlock
  <2>2. AgentInv'
    BY <1>4, <2>1, EndRunsHooks DEF RollbackBlock, Abort, EndTransaction
  <2>3. QED
    BY <1>4, <1>s, <2>1, <2>2 DEF RollbackBlock
<1>5. CASE Ping0
  <2>1. Answers(Memoize(agent, "self"))
    BY <1>5 DEF Ping0, Answers
  <2>2. GucInv' /\ AgentInv'
    BY <2>1, AskedFacts, AnswersPreserves
  <2>3. SentInv'
    BY <1>5, RequestFacts, AskedExpires, OneRequest DEF Ping0, Calling
  <2>4. QED
    BY <2>2, <2>3
<1>6. CASE StatusPeers
  <2> DEFINE asked == Memoize(agent, "leader")
             told == Memoize(asked, "peers")
  <2>1. asked \in AgentT /\ Coherent(asked) /\ (loaded => Follows(asked))
    BY AskedFacts
  <2>2. told \in AgentT /\ Coherent(told) /\ (loaded => Follows(told))
    BY <2>1, MemoizeFacts DEF Follows
  <2>3. GucInv' /\ AgentInv'
    BY <1>6, <2>1, <2>2, AnswersPreserves, FailsPreserves DEF StatusPeers
  <2>4. SentInv'
    BY <1>6, OneRequest, RequestFacts, AskedExpires, TwoRequests
       DEF StatusPeers, Calling
  <2>5. QED
    BY <2>3, <2>4
<1>7. ASSUME NEW e \in {"leader", "kv"}, Call(e) PROVE Inv'
  <2>1. GucInv' /\ AgentInv'
    BY <1>7, AskedFacts, AnswersPreserves, FailsPreserves DEF Call
  <2>2. SentInv'
    BY <1>7, RequestFacts, AskedExpires, OneRequest DEF Call, Calling
  <2>3. QED
    BY <2>1, <2>2
<1>14. CASE CallUnasked
  <2>1. GucInv' /\ AgentInv'
    BY <1>14, AnswersPreserves, FailsPreserves DEF CallUnasked
  <2>2. SentInv'
    BY <1>14 DEF CallUnasked, SentInv, OneAgentPerStatement, RequestsExpire
  <2>3. QED
    BY <2>1, <2>2
<1>8. ASSUME NEW s \in Setting, Show(s) PROVE Inv'
  <2>1. GucInv' /\ AgentInv'
    BY <1>8 DEF Show, gucVars, GucInv, GucTypeOK, OnlyValidValues, AgentInv,
               UrlsCoherent, AgentFollowsSettings, Follows
  <2>2. SentInv'
    BY <1>8 DEF Show, SentInv, OneAgentPerStatement, RequestsExpire
  <2>3. QED
    BY <2>1, <2>2
<1>9. ASSUME NEW s \in Setting, NEW x \in Input[s] \cup {NoValue},
SetRefused(s, x)
      PROVE  Inv'
  <2>1. GucInv'
    BY <1>9, AbortPreserves DEF SetRefused
  <2>2. AgentInv'
    BY <1>9, <2>1, EndRunsHooks DEF SetRefused, Abort, EndTransaction
  <2>3. QED
    BY <1>9, <1>s, <2>1, <2>2 DEF SetRefused
<1>10. ASSUME NEW s \in Setting, NEW x \in Input[s] \cup {NoValue},
              NEW how \in How, Set(s, x, how)
       PROVE  Inv'
  <2>1. how \in {"SET", "LOCAL"} /\ SetGuc(s, x, how)
    BY <1>10, ConfigAssumption DEF Set
  <2>2. GucInv' /\ (loaded => guc'[s] \in Domain[s])
    BY <2>1, SetGucPreserves
  <2>3. ASSUME loaded PROVE AgentInv'
    <3>1. \A u \in Setting : u # s => guc'[u] = guc[u]
      BY <2>1 DEF SetGuc, GucInv, GucTypeOK
    <3>2. agent' = AssignHook(agent, s, guc'[s])
      BY <1>10, <2>3 DEF Set
    <3>3. loaded' => Follows(agent)'
      BY <2>2, <2>3, <3>1, <3>2, HookFacts DEF Follows, Setting
    <3>4. QED
      BY <2>2, <2>3, <3>2, <3>3, HookFacts
         DEF AgentInv, UrlsCoherent, AgentFollowsSettings
  <2>4. ASSUME ~loaded PROVE AgentInv'
    BY <1>10, <2>1, <2>4
       DEF Set, SetGuc, AgentInv, UrlsCoherent, AgentFollowsSettings
  <2>5. SentInv'
    BY <1>10, <1>s DEF Set
  <2>6. QED
    BY <2>2, <2>3, <2>4, <2>5
<1>11. ASSUME NEW h \in PingHost, NEW p \in PingPort, Ping2(h, p) PROVE Inv'
  <2>1. GucInv' /\ AgentInv'
    BY <1>11 DEF Ping2, gucVars, GucInv, GucTypeOK, OnlyValidValues, AgentInv,
               UrlsCoherent, AgentFollowsSettings, Follows
  <2>2. PICK read \in {h, OverRead} :
          sent' = <<RequestTo(NewAgent(read, Narrow(p)), "self")>>
    BY <1>11 DEF Ping2
  <2>3. read \in Name /\ Narrow(p) \in UInt16
    BY SessionAssumption, ConfigAssumption, NarrowType
  <2>4. SentInv'
    BY <2>2, <2>3, NewAgentFacts, RequestFacts, OneRequest
       DEF DEFAULT_TIMEOUT_MS
  <2>5. QED
    BY <2>1, <2>4
<1>12. CASE UNCHANGED vars
  BY <1>12 DEF vars, gucVars, GucInv, GucTypeOK, OnlyValidValues, AgentInv,
             UrlsCoherent, AgentFollowsSettings, Follows, SentInv,
             OneAgentPerStatement, RequestsExpire
<1>13. QED
  BY <1>1, <1>2, <1>3, <1>4, <1>5, <1>6, <1>7, <1>8, <1>9, <1>10, <1>11, <1>12,
     <1>14
     DEF Next

\* Inv is an inductive invariant of the session.
LEMMA Invariance == Spec => []Inv
BY InitInv, StepInv, PTL DEF Spec

\* The backend's state is well typed; in particular every port and timeout of
\* a request fits std::uint16_t, whatever the session SETs or pings.
THEOREM TypeCorrect == Spec => []TypeOK
<1>1. Inv => TypeOK
  BY DEF Inv, GucInv, AgentInv, SentInv, TypeOK
<1>2. QED
  BY <1>1, Invariance, PTL

\* The settings in force are valid ones, and so is every value the end of the
\* transaction could bring back, placeholders set before loading included.
THEOREM SettingsStayValid == Spec => []OnlyValidValues
<1>1. Inv => OnlyValidValues
  BY DEF Inv, GucInv
<1> QED
  BY <1>1, Invariance, PTL

\* No setHost or setPort leaves a stale memoised URL behind (agent.hpp).
THEOREM UrlsStayCoherent == Spec => []UrlsCoherent
<1>1. Inv => UrlsCoherent
  BY DEF Inv, AgentInv
<1>2. QED
  BY <1>1, Invariance, PTL

\* The hooks keep pgConsulAgent equal to the settings in force, through SET
\* LOCAL, errors and rollbacks, from the moment the module is loaded.
THEOREM AgentStaysOnSettings == Spec => []AgentFollowsSettings
<1>1. Inv => AgentFollowsSettings
  BY DEF Inv, AgentInv
<1>2. QED
  BY <1>1, Invariance, PTL

\* The two requests of consul_status_peers() go to one and the same agent.
THEOREM StatementsAskOneAgent == Spec => []OneAgentPerStatement
<1>1. Inv => OneAgentPerStatement
  BY DEF Inv, SentInv
<1>2. QED
  BY <1>1, Invariance, PTL

\* Every request expires: whatever the settings, none has timeout 0, which
\* libcurl would take for "no timeout".
THEOREM RequestsAlwaysExpire == Spec => []RequestsExpire
<1>1. Inv => RequestsExpire
  BY DEF Inv, SentInv
<1>2. QED
  BY <1>1, Invariance, PTL

-----------------------------------------------------------------------------
(* The backend implements ConfigSession: what it asks is what the settings *)
(* say, though it asks from memoised URLs.                                 *)
LEMMA AskedNow ==
  ASSUME Inv, Calling, NEW a \in AgentT, Coherent(a), Follows(a),
         NEW e \in Endpoint
  PROVE  RequestTo(a, e) = RequestNow(e)
BY RequestFacts DEF RequestNow, Follows

\* Every step of the session is one that the settings alone allow.
LEMMA StepRefines == Inv /\ [Next]_vars => [ConfigNext]_configVars
<1> SUFFICES ASSUME Inv, [Next]_vars PROVE [ConfigNext]_configVars
  OBVIOUS
<1> USE DEF Inv
<1> agent \in AgentT /\ Coherent(agent) /\ (loaded => Follows(agent))
  BY DEF AgentInv, UrlsCoherent, AgentFollowsSettings
<1> Endpoint = {"kv", "nodes", "self", "leader", "peers"}
  BY DEF Endpoint
<1>1. CASE Load \/ BeginBlock \/ CommitBlock \/ RollbackBlock
  BY <1>1 DEF Load, BeginBlock, CommitBlock, RollbackBlock, Silent,
              SettingsStep, ConfigNext
<1>2. CASE Ping0
  <2>1. sent' = <<RequestNow("self")>>
    BY <1>2, AskedNow DEF Ping0, Calling
  <2>2. CallStep
    BY <1>2, <2>1 DEF Ping0, Calling, CallStep
  <2>3. QED
    BY <2>2 DEF ConfigNext
<1>3. CASE StatusPeers
  <2> DEFINE asked == Memoize(agent, "leader")
  <2>1. asked \in AgentT /\ Coherent(asked) /\ (loaded => Follows(asked))
    BY AskedFacts
  <2>2. \/ sent' = <<RequestNow("leader")>>
        \/ sent' = <<RequestNow("leader"), RequestNow("peers")>>
    BY <1>3, <2>1, AskedNow DEF StatusPeers, Calling
  <2>3. UNCHANGED gucVars \/ Abort("failed")
    BY <1>3 DEF StatusPeers, Answers, Fails
  <2>4. CallStep
    BY <1>3, <2>2, <2>3 DEF StatusPeers, Calling, CallStep
  <2>5. QED
    BY <2>4 DEF ConfigNext
<1>4. ASSUME NEW e \in {"leader", "kv"}, Call(e) PROVE [ConfigNext]_configVars
  <2>1. sent' = <<RequestNow(e)>>
    BY <1>4, AskedNow DEF Call, Calling
  <2>2. UNCHANGED gucVars \/ Abort("failed")
    BY <1>4 DEF Call, Answers, Fails
  <2>3. CallStep
    BY <1>4, <2>1, <2>2 DEF Call, Calling, CallStep
  <2>4. QED
    BY <2>3 DEF ConfigNext
<1>5. ASSUME NEW s \in Setting, Show(s) PROVE [ConfigNext]_configVars
  BY <1>5 DEF Show, ConfigNext
<1>6. ASSUME NEW s \in Setting, NEW x \in Input[s] \cup {NoValue},
SetRefused(s, x)
      PROVE  [ConfigNext]_configVars
  BY <1>6 DEF SetRefused, Silent, SettingsStep, ConfigNext
<1>7. ASSUME NEW s \in Setting, NEW x \in Input[s] \cup {NoValue},
             NEW how \in How, Set(s, x, how)
      PROVE  [ConfigNext]_configVars
  BY <1>7 DEF Set, Silent, SettingsStep, ConfigNext
<1>8. ASSUME NEW h \in PingHost, NEW p \in PingPort, Ping2(h, p)
      PROVE  [ConfigNext]_configVars
  <2>1. PICK read \in {h, OverRead} :
          sent' = <<RequestTo(NewAgent(read, Narrow(p)), "self")>>
    BY <1>8 DEF Ping2
  <2>2. read \in Name /\ Narrow(p) \in UInt16
    BY SessionAssumption, ConfigAssumption, NarrowType
  <2>3. sent' = <<PingOf(read, p)>>
    BY <2>1, <2>2, NewAgentFacts, RequestFacts DEF PingOf
  <2>4. CallStep
    BY <1>8, <2>2, <2>3 DEF Ping2, Calling, CallStep
  <2>5. QED
    BY <2>4 DEF ConfigNext
<1>9. CASE UNCHANGED vars
  BY <1>9 DEF vars, configVars
<1>10. CASE CallUnasked
  <2>1. UNCHANGED gucVars \/ Abort("failed")
    BY <1>10 DEF CallUnasked, Answers, Fails
  <2>2. CallStep
    BY <1>10, <2>1 DEF CallUnasked, Calling, CallStep
  <2>3. QED
    BY <2>2 DEF ConfigNext
<1>11. QED
  BY <1>1, <1>2, <1>3, <1>4, <1>5, <1>6, <1>7, <1>8, <1>9, <1>10 DEF Next

\* Whatever the settings and however long the session, the requests are those
\* of a backend that keeps no agent object and memoises no URL.
THEOREM SessionImplementsConfig == Spec => RefinesConfig
<1>1. Init => ConfigInit
  BY DEF Init, ConfigInit
<1>2. QED
  BY <1>1, StepRefines, Invariance, PTL DEF Spec, RefinesConfig, ConfigSpec
=============================================================================
