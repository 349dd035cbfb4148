---------------------------- MODULE StatusCalls ----------------------------
(***************************************************************************)
(* consul_agent_ping, consul_status_leader, consul_status_peers and the    *)
(* tool consul-status against an agent whose raft cluster elects, loses    *)
(* and changes while they run.  status_peers asks twice, for the leader    *)
(* and then for the peers, and sets the leader bit by comparing the two    *)
(* answers; the tool asks for each section it prints, one after the other, *)
(* and stops at the first it cannot have.                                  *)
(***************************************************************************)
EXTENDS HttpGet, Sequences, FiniteSets

CONSTANTS
  Peer,       \* raft addresses, as consul reports them
  Colons,     \* those of them that are not host:port (IPv6)
  PeerLists,  \* the lists of peers the cluster goes through
  Document,   \* the JSON object of /v1/agent/self
  Garbage,    \* no JSON at all
  Nobody,     \* consul::Peer{}: no host, port 0, printed ":0"
  Unasked     \* no answer yet

Leaders == Peer \cup {Nobody}

ASSUME StatusAssumption ==
  /\ PeerLists \subseteq Seq(Peer)
  /\ Colons \subseteq Peer
  /\ Nobody \notin Peer
  /\ {Empty, Truncated, Garbage, Document, Unasked} \cap (Leaders \cup PeerLists) = {}

VARIABLES
  leader,  \* the raft leader, Nobody when there is none
  peers,   \* the raft peers
  call,    \* "none", or what runs: "ping", "leader", "peers" or "tool"
  wanted,  \* the tool: the sections to print
  printed, \* the tool: those it has printed
  asked,   \* the endpoint of the last request
  told,    \* the leader as an earlier answer of the call named it
  listed,  \* the peers the tool has printed
  result,  \* what the last call returned, see ResultOK
  led,     \* history: who led at some time during the call
  lists,   \* history: the lists of peers during the call
  waited   \* history: ticks spent in the requests of the call before this one

raftVars == <<leader, peers>>
toolVars == <<wanted, printed, listed>>
callVars == <<call, asked, told, result, waited, toolVars>>
history == <<led, lists>>
vars == <<httpVars, raftVars, callVars, history>>

Members(list) == {list[i] : i \in DOMAIN list}

Init ==
  /\ HttpInit
  /\ leader \in Leaders
  /\ peers \in PeerLists
  /\ call = "none" /\ asked = "none" /\ waited = 0
  /\ told = Unasked /\ listed = Unasked /\ wanted = {} /\ printed = {}
  /\ result = [kind |-> "none"]
  /\ led = {} /\ lists = {}

-----------------------------------------------------------------------------
(* The cluster, as far as the agent's two status endpoints show it.        *)
Remember == /\ led' = led \cup {leader'}
            /\ lists' = lists \cup {peers'}

Elect(p) == /\ p \in (Members(peers) \cup {Nobody}) \ {leader}
            /\ leader' = p
            /\ UNCHANGED <<httpVars, peers, callVars>>
            /\ Remember

ChangePeers(l) == /\ l # peers /\ leader \in Members(l) \cup {Nobody}
                  /\ peers' = l
                  /\ UNCHANGED <<httpVars, leader, callVars>>
                  /\ Remember

\* The agent answers out of what the cluster is at that moment.
AgentAnswers ==
  /\ phase = "sent"
  /\ LET doc == CASE asked = "self" -> Document
                  [] asked = "leader" -> leader
                  [] asked = "peers" -> peers
     IN \E strange \in BOOLEAN :
          \/ \E d \in {doc, Document, Garbage, Empty} : Respond(200, d, strange)
          \/ Respond(500, Garbage, strange)
  /\ UNCHANGED <<raftVars, callVars, history>>

\* What happens to a request on its way.
OnTheWay(step) == step /\ UNCHANGED <<raftVars, callVars, history>>

-----------------------------------------------------------------------------
(* Peer::InitFromJson, Peers::InitFromJson and Json::parse on the text of  *)
(* a response.  A text cut off is none of JSON (Json, CutIsNoticed).       *)
ParsesAsPeer(text) == text \in (Peer \ Colons) \cup {Nobody}
ParsesAsPeers(text) ==
  text \in PeerLists /\ Len(text) > 0 /\ \A i \in DOMAIN text : ParsesAsPeer(text[i])
ParsesAsJson(text) == text \in {Document} \cup Leaders \cup PeerLists

\* Faulty: the loop goes on after the first match, and "no leader" matches.
FlaggedLoosely(list, who) ==
  [i \in DOMAIN list |->
     [peer |-> list[i], leader |-> list[i] = who \/ who = Nobody]]

\* The first peer that equals the leader gets the bit.
Flagged(list, who) ==
  [i \in DOMAIN list |->
     [peer |-> list[i],
      leader |-> list[i] = who /\ \A j \in 1 .. i - 1 : list[j] # who]]

Start(function, endpoint, sections) ==
  /\ call = "none"
  /\ call' = function /\ asked' = endpoint
  /\ told' = Unasked /\ listed' = Unasked /\ waited' = 0
  /\ wanted' = sections /\ printed' = {}
  /\ result' = [kind |-> "none"]
  /\ Send
  /\ led' = {leader} /\ lists' = {peers}
  /\ UNCHANGED raftVars

Return(r) ==
  /\ call' = "none" /\ result' = r
  /\ UNCHANGED <<httpVars, raftVars, asked, told, waited, toolVars, history>>

\* The next request of the same call.
AskNext(endpoint) ==
  /\ asked' = endpoint /\ waited' = waited + clock
  /\ Send
  /\ UNCHANGED <<raftVars, call, result, history>>

Answered == Finished /\ phase = "done" /\ code = 200
Error == [kind |-> "error"]

PingReturns ==
  /\ call = "ping" /\ Finished
  /\ Return([kind |-> "bool", value |-> Answered])

\* Faulty: a reply that broke off is read as far as it came.
LeaderReturnsPartial ==
  /\ call = "leader" /\ Finished
  /\ \/ ~Answered /\ Return(Error)
     \/ /\ Answered
        /\ Return([kind |-> "text",
                  value |-> IF Text \in Peer THEN Text ELSE Nobody])

LeaderReturns ==
  /\ call = "leader" /\ Finished
  /\ \/ ~Answered /\ Return(Error)
     \/ Answered /\ Text = Empty /\ Return([kind |-> "null"])
     \/ /\ Answered /\ Text # Empty /\ ParsesAsPeer(Text)
        /\ Return([kind |-> "text", value |-> Text])
     \/ Answered /\ Text # Empty /\ ~ParsesAsPeer(Text) /\ Return(Error)

\* Faulty: a leader that could not be had is asked for again.
PeersToldLeaderRetry ==
  /\ call = "peers" /\ asked = "leader" /\ Finished
  /\ told' = IF ParsesAsPeer(Text) THEN Text ELSE Nobody
  /\ AskNext(IF ParsesAsPeer(Text) THEN "peers" ELSE "leader")
  /\ UNCHANGED toolVars

\* consul_status_peers, after the leader's answer: an error, or the request
\* for the peers.
PeersToldLeader ==
  /\ call = "peers" /\ asked = "leader" /\ Finished
  /\ \/ ~(Answered /\ ParsesAsPeer(Text)) /\ Return(Error)
     \/ /\ Answered /\ ParsesAsPeer(Text)
        /\ told' = Text /\ AskNext("peers") /\ UNCHANGED toolVars

PeersReturns ==
  /\ call = "peers" /\ asked = "peers" /\ Finished
  /\ \/ ~(Answered /\ ParsesAsPeers(Text)) /\ Return(Error)
     \/ /\ Answered /\ ParsesAsPeers(Text)
        /\ Return([kind |-> "rows", rows |-> Flagged(Text, told)])

-----------------------------------------------------------------------------
(* consul-status: main() runs statusLeader, statusPeers and statusSelf.    *)

\* What -s may ask for, "all" being the default.
Sections == {{"leader"}, {"peers"}, {"self"}, {"leader", "peers", "self"}}

First(S) == CASE "leader" \in S -> "leader"
              [] "leader" \notin S /\ "peers" \in S -> "peers"
              [] OTHER -> "self"

Prints(section, text) == CASE section = "leader" -> ParsesAsPeer(text)
                           [] section = "peers" -> ParsesAsPeers(text)
                           [] section = "self" -> ParsesAsJson(text)

Exit(status) == [kind |-> "exit", status |-> status]
ToolHasAnswer == call = "tool" /\ asked \notin printed /\ Finished

\* An exception is a LOG(FATAL), and that aborts.
ToolFails ==
  /\ ToolHasAnswer
  /\ \/ phase = "threw" /\ Return(Exit("ABORT"))
     \/ phase = "done" /\ code # 200 /\ Return(Exit("TEMPFAIL"))
     \/ Answered /\ ~Prints(asked, Text) /\ Return(Exit("PROTOCOL"))

\* Faulty: a section that is not there is passed over.
ToolPrintsAny ==
  /\ ToolHasAnswer
  /\ printed' = printed \cup {asked}
  /\ told' = IF asked = "leader" /\ Prints(asked, Text) THEN Text ELSE told
  /\ listed' = IF asked = "peers" /\ Prints(asked, Text) THEN Text ELSE listed
  /\ UNCHANGED <<httpVars, raftVars, call, asked, result, waited, wanted, history>>

ToolPrints ==
  /\ ToolHasAnswer /\ Answered /\ Prints(asked, Text)
  /\ printed' = printed \cup {asked}
  /\ told' = IF asked = "leader" THEN Text ELSE told
  /\ listed' = IF asked = "peers" THEN Text ELSE listed
  /\ UNCHANGED <<httpVars, raftVars, call, asked, result, waited, wanted, history>>

ToolGoesOn ==
  /\ call = "tool" /\ asked \in printed /\ printed # wanted
  /\ AskNext(First(wanted \ printed))
  /\ UNCHANGED <<told, toolVars>>

ToolEnds == call = "tool" /\ printed = wanted /\ Return(Exit("OK"))

-----------------------------------------------------------------------------
FunctionStep ==
  \/ PingReturns \/ LeaderReturns \/ PeersToldLeader \/ PeersReturns
  \/ ToolFails \/ ToolPrints \/ ToolGoesOn \/ ToolEnds

Next ==
  \/ \E p \in Leaders : Elect(p)
  \/ \E l \in PeerLists : ChangePeers(l)
  \/ AgentAnswers
  \/ OnTheWay(Receive) \/ OnTheWay(Cease) \/ OnTheWay(Tick) \/ OnTheWay(Expire)
  \/ Start("ping", "self", {}) \/ Start("leader", "leader", {})
  \/ Start("peers", "leader", {})
  \/ \E S \in Sections : Start("tool", First(S), S)
  \/ FunctionStep

\* Time passes, the timer of libcurl fires, and the backend runs. Nothing is
\* asked of the server or of the network.
Fairness == /\ WF_vars(OnTheWay(Tick))
            /\ WF_vars(OnTheWay(Expire))
            /\ WF_vars(FunctionStep)

Spec == Init /\ [][Next]_vars /\ Fairness

-----------------------------------------------------------------------------
Row == [peer : Peer, leader : BOOLEAN]
Status == {"OK", "TEMPFAIL", "PROTOCOL", "ABORT"}
ResultOK(r) ==
  \/ r \in {[kind |-> "none"], [kind |-> "null"], Error}
  \/ r \in {[kind |-> "bool", value |-> b] : b \in BOOLEAN}
  \/ r.kind = "text" /\ r = [kind |-> "text", value |-> r.value] /\ r.value \in Leaders
  \/ r.kind = "rows" /\ r = [kind |-> "rows", rows |-> r.rows] /\ r.rows \in Seq(Row)
  \/ r \in {Exit(s) : s \in Status}

\* The types of the state of a call.
TypeOK ==
  /\ phase \in {"idle", "sent", "body", "done", "threw"}
  /\ code \in {0, 200, 500} /\ odd \in BOOLEAN
  /\ got \in 0 .. Pieces /\ clock \in 0 .. Timeout
  /\ leader \in Leaders /\ peers \in PeerLists
  /\ call \in {"none", "ping", "leader", "peers", "tool"}
  /\ asked \in {"none", "self", "leader", "peers"}
  /\ told \in Leaders \cup {Unasked} /\ listed \in PeerLists \cup {Unasked}
  /\ wanted \in Sections \cup {{}} /\ printed \subseteq wanted
  /\ waited \in Nat
  /\ ResultOK(result)

\* Whatever broke off or came late, a leader that status_leader names did lead
\* while the call ran, and ":0" is returned only if nobody did at some time.
LeaderIsGenuine == result.kind = "text" => result.value \in led

\* The rows of status_peers are a list the cluster really had during the call,
\* whole and in its order; a flagged row led at some time during the call, and
\* one is flagged if the leader that was reported is in the list.
RowsAreGenuine ==
  result.kind = "rows" =>
    LET column == [i \in DOMAIN result.rows |-> result.rows[i].peer]
        flags == {i \in DOMAIN result.rows : result.rows[i].leader}
    IN /\ column \in lists
       /\ \A i \in flags : column[i] \in led
       /\ (flags # {}) = (told \in Members(column))
       /\ \A i, j \in flags : i = j

\* What consul-status has printed was so while it ran; it exits with EX_OK if
\* and only if every section it was asked for was printed, and otherwise stops
\* short of the rest (playground/consul_status.cpp 304-323).
ToolTellsTruth ==
  /\ "leader" \in printed => told \in led
  /\ "peers" \in printed => listed \in lists
  /\ result.kind = "exit" => /\ result.status = "OK" <=> printed = wanted
                             /\ result.status # "OK" =>
                                  asked = First(wanted \ printed)

\* A call waits for one timeout for each request it has made: the set timeout
\* does not bound the time of status_peers, nor that of consul-status.
Requests == CASE call = "tool" -> Cardinality(printed \cup {asked})
              [] call = "peers" /\ asked = "peers" -> 2
              [] OTHER -> 1
WaitIsBounded == waited + clock <= Requests * Timeout \/ call = "none"

\* Every call returns, though the agent may never answer.
CallsReturn == call # "none" ~> call = "none"

-----------------------------------------------------------------------------
(* Each call looks at the leader, and at the peers, at one moment of its   *)
(* own: that in which the agent composes the answer.                       *)
SeenLeader == IF asked = "leader" /\ body \in Leaders THEN body ELSE told
SeenPeers == IF asked = "peers" /\ body \in PeerLists THEN body ELSE listed

View == INSTANCE StatusView WITH seenLeader <- SeenLeader, seenPeers <- SeenPeers

\* Of the leader and the peers the calls return what each was at one moment of
\* the call, the leader's before that of the peers.
RefinesView == View!Spec

-----------------------------------------------------------------------------
(* What the source says of a missing leader.                               *)

\* An empty answer means "no leader" (peer.hpp, lines 32 to 36): no text that
\* reads as one is returned.
LeaderTextNamesPeer == result.kind = "text" => result.value \in Peer

=============================================================================
