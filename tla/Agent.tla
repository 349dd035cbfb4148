------------------------------- MODULE Agent -------------------------------
(***************************************************************************)
(* consul::Agent (include/consul/agent.hpp): where the consul agent is and *)
(* the URLs built from that, each memoised until the host or port changes. *)
(* An agent is a record; every method is an operator from agents to agents.*)
(* The private members cluster_ and leader_ are never read and left out.   *)
(***************************************************************************)
EXTENDS Integers

CONSTANTS
  Name,          \* every string a host may be
  DEFAULT_HOST,  \* "127.0.0.1"
  NoUrl          \* the empty string: nothing memoised

DEFAULT_PORT == 8500
DEFAULT_TIMEOUT_MS == 1000

UINT16_MAX == 65535
UInt16 == 0 .. UINT16_MAX  \* std::uint16_t

\* Faulty: an int is kept as it is.
Widen(n) == n

\* What the conversion of an int to std::uint16_t does.
Narrow(n) == n % (UINT16_MAX + 1)

\* The five endpoints. The prefix of kv is memoised, the key appended per call.
Endpoint == {"kv", "nodes", "self", "leader", "peers"}

Url == [host : Name, port : UInt16, endpoint : Endpoint]

ASSUME AgentAssumption ==
  /\ DEFAULT_HOST \in Name
  /\ NoUrl \notin Url

AgentT == [host : Name, port : UInt16, timeoutMs : UInt16,
           memo : [Endpoint -> Url \cup {NoUrl}]]

NothingMemoised == [e \in Endpoint |-> NoUrl]

NewAgent(h, p) == [host |-> h, port |-> p, timeoutMs |-> DEFAULT_TIMEOUT_MS,
                   memo |-> NothingMemoised]

\* Faulty: the URL of one endpoint survives the invalidation.
InvalidateMemoizedUrlsButPeers(a) ==
  [a EXCEPT !.memo = [NothingMemoised EXCEPT !["peers"] = a.memo["peers"]]]

InvalidateMemoizedUrls(a) == [a EXCEPT !.memo = NothingMemoised]

SetHost(a, h) == [InvalidateMemoizedUrls(a) EXCEPT !.host = h]

\* Faulty: a port change leaves the memoised URLs standing.
SetPortOnly(a, p) == [a EXCEPT !.port = p]

SetPort(a, p) == [InvalidateMemoizedUrls(a) EXCEPT !.port = p]

\* The timeout is no part of a URL: nothing is invalidated.
SetTimeoutMs(a, t) == [a EXCEPT !.timeoutMs = t]

BuildUrl(a, e) == [host |-> a.host, port |-> a.port, endpoint |-> e]

\* The agent after the URL of endpoint e has been asked for ...
Memoize(a, e) ==
  IF a.memo[e] = NoUrl THEN [a EXCEPT !.memo[e] = BuildUrl(a, e)] ELSE a

\* ... and the URL handed out.
MemoizedUrl(a, e) == Memoize(a, e).memo[e]

-----------------------------------------------------------------------------
\* A memoised URL is the one the current host and port make.
Coherent(a) == \A e \in Endpoint : a.memo[e] \in {NoUrl, BuildUrl(a, e)}

=============================================================================
