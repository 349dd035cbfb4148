------------------------------ MODULE Session ------------------------------
(***************************************************************************)
(* One PostgreSQL backend with pg_consul loaded (src/pg_consul.cpp): the   *)
(* GUC hooks copy the settings into the global pgConsulAgent, and the SQL  *)
(* functions take the URL and the timeout of a request from that copy.     *)
(***************************************************************************)
EXTENDS ConfigSession

CONSTANT OverRead  \* what a text argument read past its end turns into

ASSUME SessionAssumption == OverRead \in Name

VARIABLES
  agent,      \* pgConsulAgent
  shown       \* what the last statement printed, when it was a SHOW

vars == <<gucVars, agent, sent, shown>>

Request == [url : Url, timeout : UInt16]

Init ==
  /\ GucInit
  /\ agent = NewAgent(DEFAULT_HOST, DEFAULT_PORT)
  /\ sent = <<>>
  /\ shown = NoValue

-----------------------------------------------------------------------------
\* Faulty: the hook of the timeout forgets the agent.
AssignHookNoTimeout(a, s, x) ==
  CASE s = "host" -> SetHost(a, x)
    [] s = "port" -> SetPort(a, Narrow(x))
    [] OTHER -> a

\* pg_consul_agent_{host,port,timeout}_assign_hook
AssignHook(a, s, x) ==
  CASE s = "host" -> SetHost(a, x)
    [] s = "port" -> SetPort(a, Narrow(x))
    [] s = "timeout" -> SetTimeoutMs(a, Narrow(x))

\* Faulty: the end of a transaction changes the settings, and no hook runs.
RunNoHooks(a) == a

\* PostgreSQL calls a hook when the value changes, host before port.
Reassign(a, s) == IF guc'[s] = guc[s] THEN a ELSE AssignHook(a, s, guc'[s])
RunHooks(a) ==
  IF loaded THEN Reassign(Reassign(Reassign(a, "host"), "port"), "timeout")
  ELSE a

\* A statement that neither asks the consul agent nor prints a setting.
Silent == sent' = <<>> /\ shown' = NoValue

\* _PG_init, on the first call of any of the functions.
Load ==
  /\ txn # "failed"
  /\ LoadGuc
  /\ agent' = AssignHook(AssignHook(AssignHook(agent,
                "host", guc'["host"]), "port", guc'["port"]),
                "timeout", guc'["timeout"])
  /\ Silent

Set(s, x, how) ==
  /\ SetGuc(s, x, how)
  /\ agent' = IF loaded THEN AssignHook(agent, s, guc'[s]) ELSE agent
  /\ Silent

\* A value the check hook or the range refuses is an error.
SetRefused(s, x) ==
  /\ txn # "failed"
  /\ loaded /\ ~Accepts(s, x)
  /\ Abort("failed")
  /\ agent' = RunHooks(agent)
  /\ Silent

BeginBlock == Begin /\ UNCHANGED agent /\ Silent

CommitBlock == Commit /\ agent' = RunHooks(agent) /\ Silent

RollbackBlock ==
  /\ txn # "idle"
  /\ Abort("idle")
  /\ agent' = RunHooks(agent)
  /\ Silent

-----------------------------------------------------------------------------
RequestTo(a, e) == [url |-> MemoizedUrl(a, e), timeout |-> a.timeoutMs]

Calling == loaded /\ txn # "failed"

\* consul_agent_ping(): no error leaves the function.
Ping0 ==
  /\ Calling
  /\ agent' = Memoize(agent, "self")
  /\ sent' = <<RequestTo(agent, "self")>>
  /\ UNCHANGED gucVars /\ shown' = NoValue

\* Faulty: the settings' agent is pointed at the host that is pinged.
Ping2Global(h, p) ==
  /\ Calling
  /\ agent' = Memoize(SetPort(SetHost(agent, h), Narrow(p)), "self")
  /\ sent' = <<RequestTo(SetPort(SetHost(agent, h), Narrow(p)), "self")>>
  /\ UNCHANGED gucVars /\ shown' = NoValue

\* consul_agent_ping(host, port) asks an agent of its own. The host is read
\* as a C string out of a text datum that no NUL ends.
Ping2(h, p) ==
  /\ Calling
  /\ \E read \in {h, OverRead} :
       sent' = <<RequestTo(NewAgent(read, Narrow(p)), "self")>>
  /\ UNCHANGED <<gucVars, agent>> /\ shown' = NoValue

\* A call that answers, and one that ends in ereport(ERROR).
Answers(a) == agent' = a /\ UNCHANGED gucVars /\ shown' = NoValue
Fails(a) == Abort("failed") /\ agent' = RunHooks(a) /\ shown' = NoValue

\* A call that ends before it asks: consul_kv_get(NULL), or an error in the
\* set-up of a set-returning function.
CallUnasked == /\ Calling
               /\ sent' = <<>>
               /\ Answers(agent) \/ Fails(agent)

\* consul_status_leader() and consul_kv_get(): one request.
Call(e) ==
  /\ Calling
  /\ sent' = <<RequestTo(agent, e)>>
  /\ Answers(Memoize(agent, e)) \/ Fails(Memoize(agent, e))

\* consul_status_peers(): the leader, then the peers.
StatusPeers ==
  LET asked == Memoize(agent, "leader")
      both == <<RequestTo(agent, "leader"), RequestTo(asked, "peers")>>
  IN /\ Calling
     /\ \/ /\ sent' = <<RequestTo(agent, "leader")>>
           /\ Fails(asked)
        \/ /\ sent' = both
           /\ Answers(Memoize(asked, "peers")) \/ Fails(Memoize(asked, "peers"))

\* SHOW: the hooks of the two numbers return a pointer into a string that is
\* gone, so that what is printed may be anything (NoValue: not the number).
Show(s) ==
  /\ Calling
  /\ shown' \in CASE s = "host" -> {guc["host"]}
                  [] s = "port" -> {agent.port, NoValue}
                  [] s = "timeout" -> {agent.timeoutMs, NoValue}
  /\ UNCHANGED <<gucVars, agent>> /\ sent' = <<>>

Next ==
  \/ Load \/ BeginBlock \/ CommitBlock \/ RollbackBlock
  \/ Ping0 \/ StatusPeers \/ CallUnasked
  \/ Call("leader") \/ Call("kv")
  \/ \E s \in Setting : Show(s)
  \/ \E s \in Setting : \E x \in Input[s] \cup {NoValue} :
       \/ SetRefused(s, x)
       \/ \E how \in How : Set(s, x, how)
  \/ \E h \in PingHost, p \in PingPort : Ping2(h, p)

Spec == Init /\ [][Next]_vars

-----------------------------------------------------------------------------
\* The types of the session's state.
TypeOK ==
  /\ GucTypeOK
  /\ agent \in AgentT
  /\ sent \in Seq(Request)

\* Every memoised URL is the one made from the agent's present host and port.
UrlsCoherent == Coherent(agent)

\* Once loaded, the agent holds the settings in force, whatever SETs, SET
\* LOCALs, errors, commits and rollbacks came between.
Follows(a) == /\ a.host = guc["host"]
              /\ a.port = guc["port"]
              /\ a.timeoutMs = guc["timeout"]
AgentFollowsSettings == loaded => Follows(agent)

\* The requests of one statement all go to one agent, with one timeout.
OneAgentPerStatement ==
  \A i, j \in DOMAIN sent :
    /\ sent[i].url.host = sent[j].url.host
    /\ sent[i].url.port = sent[j].url.port
    /\ sent[i].timeout = sent[j].timeout

\* No request goes out with timeout 0, which libcurl takes for no timeout.
RequestsExpire == \A i \in DOMAIN sent : sent[i].timeout # 0

\* The backend implements the settings' promise: with all its memoised URLs
\* it sends the requests a backend without any agent object would send.
RefinesConfig == ConfigSpec

-----------------------------------------------------------------------------
(* What the tests expect of SHOW and of consul_agent_ping(host, port).     *)

\* SHOW prints the value in force (expected/011_gucs_port.out).
ShowPrintsSetting ==
  [][\A s \in Setting : Show(s) => shown' = guc[s]]_vars

\* A ping asks the agent it names, and nobody when that cannot be: the host as
\* it stands (test/sql/100, line 9), an invalid port not at all (16 to 19).
PingAsksNamedAgent ==
  [][\A h \in PingHost, p \in PingPort :
       Ping2(h, p) => \A i \in DOMAIN sent' :
         sent'[i].url.host = h /\ sent'[i].url.port = p]_vars
=============================================================================
