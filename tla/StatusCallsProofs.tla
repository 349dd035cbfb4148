-------------------------- MODULE StatusCallsProofs --------------------------
(***************************************************************************)
(* Proofs that what the status functions and consul-status return of a     *)
(* cluster was so during the call, that they wait no longer than a timeout *)
(* for each request, and that they implement StatusView, for any peers,    *)
(* any lists of peers, any number of pieces and any timeout.               *)
(*                                                                         *)
(* The argument: an agent composes its answer while its request is under   *)
(* way, and a request is under way only while the call that made it runs;  *)
(* so the answer is of a moment of the call, and so is whatever the call   *)
(* has kept of it.                                                         *)
(***************************************************************************)
EXTENDS StatusCalls, LeastNumber, FiniteSetTheorems

AllSections == {"leader", "peers", "self"}

(* What the call has seen, it saw while it ran. *)
Seeing ==
  /\ call # "none" => leader \in led /\ peers \in lists
  /\ InFlight => call # "none"
  /\ asked = "leader" /\ body \in Leaders => body \in led
  /\ asked = "peers" /\ body \in PeerLists => body \in lists
  /\ told # Unasked => told \in led
  /\ listed # Unasked => listed \in lists
  /\ phase = "sent" => body = Empty

(* How far a call of a function is. *)
Calling ==
  /\ call # "none" => result = [kind |-> "none"]
  /\ call = "ping" => asked = "self"
  /\ call = "leader" => asked = "leader" /\ told = Unasked
  /\ call = "peers" => /\ listed = Unasked /\ asked \in {"leader", "peers"}
                       /\ asked = "leader" => told = Unasked
                       /\ asked = "peers" => told # Unasked

(* How far the tool is. *)
Printing ==
  /\ "leader" \in printed => told # Unasked
  /\ "peers" \in printed => listed # Unasked
  /\ call = "tool" =>
       /\ wanted \in Sections /\ asked \in wanted
       /\ asked \notin printed => asked = First(wanted \ printed)
       /\ asked \in printed => ~InFlight
       /\ "leader" \notin printed => told = Unasked
       /\ "peers" \notin printed => listed = Unasked
       /\ asked = "leader" /\ asked \in printed => told = body
       /\ asked = "peers" /\ asked \in printed => listed = body

Exits == result.kind = "exit" =>
           /\ result.status = "OK" <=> printed = wanted
           /\ result.status # "OK" => asked = First(wanted \ printed)

Returned == LeaderIsGenuine /\ RowsAreGenuine /\ Exits

Waiting == call # "none" => waited <= (Requests - 1) * Timeout

Inv == TypeOK /\ Seeing /\ Calling /\ Printing /\ Returned /\ Waiting

-----------------------------------------------------------------------------
(* The sections of the tool *)

(* The first section that is left is one that is left. *)
LEMMA FirstLeft ==
  ASSUME NEW S \in Sections \cup {{}}, NEW T \in SUBSET S, T # S
  PROVE  First(S \ T) \in S \ T
<1>1. S \subseteq AllSections
  BY DEF Sections, AllSections
<1> QED
  BY <1>1 DEF First, AllSections

LEMMA FirstOf ==
  ASSUME NEW S \in Sections
  PROVE  First(S) \in S /\ First(S) \in AllSections /\ First(S \ {}) = First(S)
         /\ S \subseteq AllSections
<1>1. S # {} /\ S \subseteq AllSections /\ S \ {} = S
  BY DEF Sections, AllSections
<1> QED
  BY <1>1, FirstLeft

(* Sections are counted. *)
LEMMA CountSections ==
  ASSUME NEW S \in SUBSET AllSections
  PROVE  /\ IsFiniteSet(S) /\ Cardinality(S) \in Nat
         /\ \A x : IF x \in S THEN Cardinality(S \cup {x}) = Cardinality(S)
                   ELSE Cardinality(S \cup {x}) = Cardinality(S) + 1
<1>1. IsFiniteSet(AllSections)
  <2>1. IsFiniteSet({}) /\ IsFiniteSet({} \cup {"leader"})
    BY FS_EmptySet, FS_AddElement
  <2>2. IsFiniteSet(({} \cup {"leader"}) \cup {"peers"})
    BY <2>1, FS_AddElement
  <2>3. IsFiniteSet((({} \cup {"leader"}) \cup {"peers"}) \cup {"self"})
    BY <2>2, FS_AddElement
  <2>4. AllSections = (({} \cup {"leader"}) \cup {"peers"}) \cup {"self"}
    BY DEF AllSections
  <2> QED
    BY <2>3, <2>4
<1>2. IsFiniteSet(S)
  BY <1>1, FS_Subset
<1>3. \A x : IF x \in S THEN Cardinality(S \cup {x}) = Cardinality(S)
             ELSE Cardinality(S \cup {x}) = Cardinality(S) + 1
  BY <1>2, FS_AddElement
<1> QED
  BY <1>2, <1>3, FS_CardinalityType

(* One request more allows for one timeout more. *)
LEMMA OneMore ==
  ASSUME NEW n \in Nat, NEW m \in Nat, m = n + 1, NEW w \in Nat, NEW c \in 0 .. Timeout,
         w <= (n - 1) * Timeout
  PROVE  w + c <= (m - 1) * Timeout
<1>1. Timeout \in Nat
  BY HttpAssumption
<1>2. (m - 1) * Timeout = (n - 1) * Timeout + Timeout
  <2>1. \A k \in Int, t \in Int : (k + 1) * t = k * t + t
    OBVIOUS
  <2>2. n - 1 \in Int /\ m - 1 = (n - 1) + 1
    OBVIOUS
  <2> QED
    BY <1>1, <2>1, <2>2
<1>3. (n - 1) * Timeout \in Int
  BY <1>1
<1> QED
  BY <1>1, <1>2, <1>3

-----------------------------------------------------------------------------
(* The leader bit *)

LEMMA FlaggedRows ==
  ASSUME NEW list \in Seq(Peer), NEW who
  PROVE  LET rows == Flagged(list, who)
             column == [i \in DOMAIN rows |-> rows[i].peer]
             flags == {i \in DOMAIN rows : rows[i].leader}
         IN /\ rows \in Seq(Row)
            /\ column = list
            /\ \A i \in flags : column[i] = who
            /\ (flags # {}) = (who \in Members(column))
            /\ \A i, j \in flags : i = j
<1> DEFINE rows == Flagged(list, who)
           column == [i \in DOMAIN rows |-> rows[i].peer]
           flags == {i \in DOMAIN rows : rows[i].leader}
           n == Len(list)
<1>0. n \in Nat /\ list \in [1 .. n -> Peer] /\ DOMAIN list = 1 .. n
  OBVIOUS
<1>1. /\ DOMAIN rows = 1 .. n
      /\ \A i \in 1 .. n : /\ rows[i].peer = list[i]
                           /\ rows[i].leader =
                                (list[i] = who /\ \A j \in 1 .. i - 1 : list[j] # who)
                           /\ rows[i] \in Row
  BY <1>0 DEF Flagged, Row
<1>2. rows \in Seq(Row)
  <2>1. rows = [i \in 1 .. n |-> rows[i]]
    BY <1>0 DEF Flagged
  <2>2. rows \in [1 .. n -> Row]
    BY <1>1, <2>1
  <2> QED
    BY <1>0, <2>2
<1>3. column = list
  BY <1>0, <1>1
<1>4. \A i \in flags : i \in 1 .. n /\ list[i] = who /\ \A j \in 1 .. i - 1 : list[j] # who
  BY <1>1
<1>5. \A i, j \in flags : i = j
  <2>1. SUFFICES ASSUME NEW i \in flags, NEW j \in flags, i < j PROVE FALSE
    BY <1>0, <1>4
  <2>2. i \in 1 .. j - 1 /\ list[i] = who
    BY <1>0, <1>4, <2>1
  <2> QED
    BY <1>4, <2>2
<1>6. who \in Members(list) => flags # {}
  <2>1. SUFFICES ASSUME who \in Members(list) PROVE flags # {}
    OBVIOUS
  <2> DEFINE hits == {i \in 1 .. n : list[i] = who}
  <2>2. hits \in SUBSET Nat /\ hits # {}
    BY <1>0, <2>1 DEF Members
  <2> HIDE DEF hits
  <2>3. PICK f \in hits : \A y \in hits : f <= y
    BY <2>2, LeastNatural
  <2> USE DEF hits
  <2>4. f \in 1 .. n /\ list[f] = who /\ \A j \in 1 .. f - 1 : list[j] # who
    BY <1>0, <2>3
  <2>5. f \in flags
    BY <1>1, <2>4
  <2> QED
    BY <2>5
<1>7. flags # {} => who \in Members(list)
  BY <1>0, <1>4 DEF Members
<1>8. (flags # {}) = (who \in Members(column))
  BY <1>3, <1>6, <1>7
<1> HIDE DEF rows, n
<1>9. \A i \in flags : column[i] = who
  BY <1>3, <1>4
<1> QED
  BY <1>2, <1>3, <1>5, <1>8, <1>9 DEF rows

-----------------------------------------------------------------------------
(* Steps of the cluster, of the network and of the agent *)

(* Elections and changes of the peers add to what the call may tell. *)
LEMMA ClusterInv ==
  ASSUME Inv, \/ \E p \in Leaders : Elect(p)
              \/ \E l \in PeerLists : ChangePeers(l)
  PROVE  Inv'
<1>1. /\ UNCHANGED <<httpVars, callVars>> /\ Remember
      /\ leader' \in Leaders /\ peers' \in PeerLists
  <2>1. CASE \E p \in Leaders : Elect(p)
    BY <2>1 DEF Elect, Inv, TypeOK
  <2>2. CASE \E l \in PeerLists : ChangePeers(l)
    BY <2>2 DEF ChangePeers, Inv, TypeOK
  <2> QED
    BY <2>1, <2>2
<1>2. /\ led \subseteq led' /\ lists \subseteq lists' /\ leader' \in led' /\ peers' \in lists'
  BY <1>1 DEF Remember
<1>3. /\ phase' = phase /\ code' = code /\ body' = body /\ odd' = odd /\ got' = got
      /\ clock' = clock /\ call' = call /\ asked' = asked /\ told' = told
      /\ result' = result /\ waited' = waited /\ wanted' = wanted
      /\ printed' = printed /\ listed' = listed
  BY <1>1 DEF httpVars, callVars, toolVars
<1>4. TypeOK'
  BY <1>1, <1>3 DEF Inv, TypeOK
<1>5. Seeing'
  BY <1>2, <1>3 DEF Inv, Seeing, InFlight
<1>6. Calling' /\ Printing'
  BY <1>3 DEF Inv, Calling, Printing, InFlight
<1>7. Returned'
  <2>1. LeaderIsGenuine' /\ Exits'
    BY <1>2, <1>3 DEF Inv, Returned, LeaderIsGenuine, Exits
  <2>2. RowsAreGenuine'
    BY <1>2, <1>3 DEF Inv, Returned, RowsAreGenuine
  <2> QED
    BY <2>1, <2>2 DEF Returned
<1>8. Waiting'
  BY <1>3 DEF Inv, Waiting, Requests
<1> QED
  BY <1>4, <1>5, <1>6, <1>7, <1>8 DEF Inv

(* What happens to a request changes nothing of the call. *)
LEMMA HttpInv ==
  ASSUME Inv, UNCHANGED <<raftVars, callVars, history>>,
         code' \in {0, 200, 500}, odd' \in BOOLEAN,
         got' \in 0 .. Pieces, clock' \in 0 .. Timeout,
         phase' \in {"idle", "sent", "body", "done", "threw"},
         InFlight' => InFlight,
         phase' = "sent" => body' = Empty,
         \/ body' = body
         \/ /\ InFlight
            /\ asked = "leader" /\ body' \in Leaders => body' = leader
            /\ asked = "peers" /\ body' \in PeerLists => body' = peers
  PROVE  Inv'
<1>1. /\ leader' = leader /\ peers' = peers /\ call' = call /\ asked' = asked
      /\ told' = told /\ result' = result /\ waited' = waited /\ wanted' = wanted
      /\ printed' = printed /\ listed' = listed /\ led' = led /\ lists' = lists
  BY DEF raftVars, callVars, toolVars, history
<1>2. TypeOK'
  BY <1>1 DEF Inv, TypeOK
<1>3. Seeing'
  BY <1>1 DEF Inv, Seeing
<1>4. Calling'
  BY <1>1 DEF Inv, Calling
<1>5. Printing'
  BY <1>1 DEF Inv, Printing
<1>6. Returned'
  <2>1. LeaderIsGenuine' /\ Exits'
    BY <1>1 DEF Inv, Returned, LeaderIsGenuine, Exits
  <2>2. RowsAreGenuine'
    BY <1>1 DEF Inv, Returned, RowsAreGenuine
  <2> QED
    BY <2>1, <2>2 DEF Returned
<1>7. Waiting'
  BY <1>1 DEF Inv, Waiting, Requests
<1> QED
  BY <1>2, <1>3, <1>4, <1>5, <1>6, <1>7 DEF Inv

LEMMA OnTheWayInv ==
  ASSUME Inv, \/ OnTheWay(Receive) \/ OnTheWay(Cease) \/ OnTheWay(Tick)
              \/ OnTheWay(Expire)
  PROVE  Inv'
<1>1. TypeOK /\ Seeing
  BY DEF Inv
<1>2. CASE OnTheWay(Receive)
  <2>1. got' \in 0 .. Pieces
    BY <1>1, <1>2, HttpAssumption DEF OnTheWay, Receive, TypeOK
  <2> QED
    BY <1>1, <1>2, <2>1, HttpInv DEF OnTheWay, Receive, TypeOK, Seeing, InFlight
<1>3. CASE OnTheWay(Cease) \/ OnTheWay(Expire)
  BY <1>1, <1>3, HttpInv DEF OnTheWay, Cease, Expire, End, TypeOK, InFlight
<1>4. CASE OnTheWay(Tick)
  <2>1. clock' \in 0 .. Timeout
    BY <1>1, <1>4, HttpAssumption DEF OnTheWay, Tick, TypeOK
  <2> QED
    BY <1>1, <1>4, <2>1, HttpInv DEF OnTheWay, Tick, TypeOK, Seeing, InFlight
<1> QED
  BY <1>2, <1>3, <1>4

(* The agent's answer, if it is one, is of the cluster now. *)
LEMMA AnswerBody ==
  ASSUME Inv, AgentAnswers
  PROVE  /\ asked = "leader" /\ body' \in Leaders => body' = leader
         /\ asked = "peers" /\ body' \in PeerLists => body' = peers
BY StatusAssumption DEF AgentAnswers, Respond, Leaders

LEMMA AnswersInv ==
  ASSUME Inv, AgentAnswers
  PROVE  Inv'
<1>1. /\ phase = "sent" /\ phase' = "body" /\ code' \in {0, 200, 500} /\ odd' \in BOOLEAN
      /\ UNCHANGED <<got, clock>> /\ UNCHANGED <<raftVars, callVars, history>>
  BY DEF AgentAnswers, Respond
<1> QED
  BY <1>1, AnswerBody, HttpInv DEF Inv, TypeOK, InFlight

-----------------------------------------------------------------------------
(* Steps of a call *)

LEMMA StartInv ==
  ASSUME Inv, NEW f, NEW endpoint, NEW S, Start(f, endpoint, S),
         \/ f = "ping" /\ endpoint = "self" /\ S = {}
         \/ f \in {"leader", "peers"} /\ endpoint = "leader" /\ S = {}
         \/ f = "tool" /\ S \in Sections /\ endpoint = First(S)
  PROVE  Inv'
<1>1. /\ call' = f /\ asked' = endpoint /\ told' = Unasked /\ listed' = Unasked
      /\ waited' = 0 /\ wanted' = S /\ printed' = {} /\ result' = [kind |-> "none"]
      /\ phase' = "sent" /\ code' = 0 /\ body' = Empty /\ odd' = FALSE /\ got' = 0
      /\ clock' = 0 /\ led' = {leader} /\ lists' = {peers} /\ leader' = leader
      /\ peers' = peers
  BY DEF Start, Send, raftVars
<1>2. /\ f \in {"ping", "leader", "peers", "tool"} /\ endpoint \in AllSections
      /\ S \in Sections \cup {{}}
  BY FirstOf DEF AllSections
<1>3. Empty \notin Leaders \cup PeerLists
  BY StatusAssumption
<1>4. TypeOK'
  <2>1. 0 \in 0 .. Pieces /\ 0 \in 0 .. Timeout
    BY HttpAssumption
  <2>2. ResultOK(result')
    BY <1>1 DEF ResultOK
  <2>3. endpoint \in {"none", "self", "leader", "peers"}
    BY <1>2 DEF AllSections
  <2>4. ResultOK(result)'
    BY <2>2 DEF ResultOK
  <2> QED
    BY <1>1, <1>2, <2>1, <2>3, <2>4 DEF Inv, TypeOK
<1>5. Seeing'
  BY <1>1, <1>2, <1>3 DEF Seeing, InFlight
<1>6. Calling'
  BY <1>1 DEF Calling
<1>7. Printing'
  BY <1>1, FirstOf DEF Printing, InFlight
<1>8. Returned'
  BY <1>1 DEF Returned, LeaderIsGenuine, RowsAreGenuine, Exits
<1>9. Waiting'
  <2>1. Requests' \in Nat \ {0}
    <3>1. CASE call' = "tool"
      <4>1. endpoint \in AllSections /\ Cardinality({} \cup {endpoint}) = Cardinality({}) + 1
        BY <1>2, CountSections
      <4>2. Cardinality({}) = 0
        BY FS_EmptySet
      <4> QED
        BY <1>1, <3>1, <4>1, <4>2 DEF Requests
    <3>2. CASE call' # "tool"
      BY <1>1, <3>2 DEF Requests
    <3> QED
      BY <3>1, <3>2
  <2>2. (Requests' - 1) * Timeout >= 0
    <3>1. \A n \in Nat : n * Timeout >= 0
      BY HttpAssumption
    <3>2. \A n \in Nat \ {0} : n - 1 \in Nat
      OBVIOUS
    <3>3. \A n \in Nat \ {0} : (n - 1) * Timeout >= 0
      BY <3>1, <3>2
    <3> QED
      BY <2>1, <3>3
  <2> QED
    BY <1>1, <2>2 DEF Waiting
<1> QED
  BY <1>4, <1>5, <1>6, <1>7, <1>8, <1>9 DEF Inv

(* A call returns a result that is as it should be. *)
LEMMA ReturnInv ==
  ASSUME Inv, NEW r, Return(r), ~InFlight, ResultOK(r),
         r.kind = "text" => r.value \in led,
         r.kind = "rows" => RowsAreGenuine', r.kind = "exit" => Exits'
  PROVE  Inv'
<1>1. /\ call' = "none" /\ result' = r /\ leader' = leader /\ peers' = peers
      /\ asked' = asked /\ told' = told /\ waited' = waited /\ wanted' = wanted
      /\ printed' = printed /\ listed' = listed /\ led' = led /\ lists' = lists
      /\ phase' = phase /\ code' = code /\ body' = body /\ odd' = odd /\ got' = got
      /\ clock' = clock
  BY DEF Return, httpVars, raftVars, toolVars, history
<1>2. TypeOK'
  BY <1>1 DEF Inv, TypeOK
<1>3. Seeing'
  BY <1>1 DEF Inv, Seeing, InFlight
<1>4. Calling' /\ Printing' /\ Waiting'
  BY <1>1 DEF Inv, Calling, Printing, Waiting
<1>5. LeaderIsGenuine' /\ Exits'
  BY <1>1 DEF LeaderIsGenuine, Exits
<1>6. RowsAreGenuine'
  BY <1>1 DEF RowsAreGenuine
<1> QED
  BY <1>2, <1>3, <1>4, <1>5, <1>6 DEF Inv, Returned

(* A text that parses is the whole body, and so something of the cluster.  *)
LEMMA TextIsBody ==
  ASSUME TypeOK, Text \in Leaders \cup PeerLists
  PROVE  Text = body
<1>1. Empty \notin Leaders \cup PeerLists /\ Truncated \notin Leaders \cup PeerLists
  BY StatusAssumption
<1>2. got = 0 \/ got = Pieces \/ got \in 1 .. Pieces - 1
  BY HttpAssumption DEF TypeOK
<1>3. got = Pieces => ~(got = 0) /\ ~(got \in 1 .. Pieces - 1)
  BY HttpAssumption
<1> QED
  BY <1>1, <1>2, <1>3 DEF Text

(* The next request of a call: nothing is returned yet. *)
LEMMA AskNextInv ==
  ASSUME Inv, NEW endpoint \in AllSections, AskNext(endpoint), call # "none",
         UNCHANGED <<wanted, printed, listed>>,
         told' = told \/ (told' \in Leaders /\ told' \in led),
         Calling', Printing', Requests' = Requests + 1, Requests \in Nat
  PROVE  Inv'
<1>1. /\ call' = call /\ result' = result /\ leader' = leader /\ peers' = peers
      /\ asked' = endpoint /\ waited' = waited + clock /\ wanted' = wanted
      /\ printed' = printed /\ listed' = listed /\ led' = led /\ lists' = lists
      /\ phase' = "sent" /\ code' = 0 /\ body' = Empty /\ odd' = FALSE /\ got' = 0
      /\ clock' = 0
  BY DEF AskNext, Send, raftVars, history
<1>2. Empty \notin Leaders \cup PeerLists
  BY StatusAssumption
<1>3. waited' \in Nat
  BY <1>1, HttpAssumption DEF Inv, TypeOK
<1>4. TypeOK'
  <2>1. 0 \in 0 .. Pieces /\ 0 \in 0 .. Timeout
    BY HttpAssumption
  <2> QED
    BY <1>1, <1>3, <2>1 DEF Inv, TypeOK, AllSections
<1>5. Seeing'
  BY <1>1, <1>2 DEF Inv, Seeing, InFlight
<1>6. result = [kind |-> "none"]
  BY DEF Inv, Calling
<1>7. Returned'
  BY <1>1, <1>6 DEF Returned, LeaderIsGenuine, RowsAreGenuine, Exits
<1>8. Waiting'
  <2>1. waited + clock <= (Requests' - 1) * Timeout
    <3>1. waited \in Nat /\ clock \in 0 .. Timeout /\ waited <= (Requests - 1) * Timeout
      BY DEF Inv, TypeOK, Waiting
    <3>2. Requests' \in Nat
      OBVIOUS
    <3> QED
      BY <3>1, <3>2, OneMore
  <2> QED
    BY <1>1, <2>1 DEF Waiting
<1> QED
  BY <1>4, <1>5, <1>7, <1>8 DEF Inv

-----------------------------------------------------------------------------
(* Every step of a function *)

LEMMA FunctionInv ==
  ASSUME Inv, PingReturns \/ LeaderReturns \/ PeersToldLeader \/ PeersReturns
  PROVE  Inv'
<1>0. TypeOK /\ Seeing /\ Calling /\ Printing /\ (Finished => ~InFlight)
  BY DEF Inv, Finished, InFlight
<1>1. CASE PingReturns
  <2> DEFINE r == [kind |-> "bool", value |-> Answered]
  <2>1. Return(r) /\ ~InFlight
    BY <1>0, <1>1 DEF PingReturns
  <2>2. r \in {[kind |-> "bool", value |-> b] : b \in BOOLEAN}
    BY DEF Answered, Finished
  <2>3. ResultOK(r) /\ r.kind = "bool"
    BY <2>2 DEF ResultOK
  <2> HIDE DEF r
  <2> QED
    BY <2>1, <2>3, ReturnInv
<1>2. CASE LeaderReturns
  <2>0. ~InFlight
    BY <1>0, <1>2 DEF LeaderReturns
  <2>1. ResultOK(Error) /\ Error.kind = "error"
    BY DEF ResultOK, Error
  <2>2. CASE Return(Error)
    BY <2>0, <2>1, <2>2, ReturnInv
  <2>3. CASE Return([kind |-> "null"])
    <3>1. ResultOK([kind |-> "null"])
      BY DEF ResultOK
    <3> QED
      BY <2>0, <2>3, <3>1, ReturnInv
  <2>4. CASE ParsesAsPeer(Text) /\ Return([kind |-> "text", value |-> Text])
    <3>1. Text \in Leaders
      BY <2>4, StatusAssumption DEF ParsesAsPeer, Leaders
    <3>2. Text \in led
      BY <1>0, <1>2, <3>1, TextIsBody DEF LeaderReturns, Calling, Seeing
    <3>3. ResultOK([kind |-> "text", value |-> Text])
      BY <3>1 DEF ResultOK
    <3> QED
      BY <2>0, <2>4, <3>2, <3>3, ReturnInv
  <2> QED
    BY <1>2, <2>2, <2>3, <2>4 DEF LeaderReturns
<1>3. CASE PeersToldLeader
  <2>1. CASE Return(Error)
    <3>1. ResultOK(Error) /\ Error.kind = "error"
      BY DEF ResultOK, Error
    <3> QED
      BY <1>0, <1>3, <2>1, <3>1, ReturnInv DEF PeersToldLeader
  <2>2. CASE /\ ParsesAsPeer(Text) /\ told' = Text /\ AskNext("peers")
             /\ UNCHANGED toolVars
    <3>1. Text \in Leaders
      BY <2>2, StatusAssumption DEF ParsesAsPeer, Leaders
    <3>2. told' \in Leaders /\ told' \in led /\ told' # Unasked
      BY <1>0, <1>3, <2>2, <3>1, TextIsBody, StatusAssumption
      DEF PeersToldLeader, Seeing
    <3>3. /\ call = "peers" /\ call' = call /\ result' = result /\ asked' = "peers"
          /\ UNCHANGED <<wanted, printed, listed>> /\ asked = "leader"
      BY <1>3, <2>2 DEF PeersToldLeader, AskNext, toolVars
    <3>4. Calling' /\ Printing'
      BY <1>0, <3>2, <3>3 DEF Calling, Printing
    <3>5. Requests = 1 /\ Requests' = 2
      BY <3>3 DEF Requests
    <3>6. Requests' = Requests + 1 /\ Requests \in Nat
      BY <3>5
    <3> QED
      BY <2>2, <3>2, <3>3, <3>4, <3>6, AskNextInv DEF AllSections
  <2> QED
    BY <1>3, <2>1, <2>2 DEF PeersToldLeader
<1>4. CASE PeersReturns
  <2>1. CASE Return(Error)
    <3>1. ResultOK(Error) /\ Error.kind = "error"
      BY DEF ResultOK, Error
    <3> QED
      BY <1>0, <1>4, <2>1, <3>1, ReturnInv DEF PeersReturns
  <2>2. CASE /\ ParsesAsPeers(Text)
             /\ Return([kind |-> "rows", rows |-> Flagged(Text, told)])
    <3> DEFINE rows == Flagged(Text, told)
               r == [kind |-> "rows", rows |-> rows]
               column == [i \in DOMAIN rows |-> rows[i].peer]
               flags == {i \in DOMAIN rows : rows[i].leader}
    <3>1. Text \in PeerLists /\ Text \in Seq(Peer)
      BY <2>2, StatusAssumption DEF ParsesAsPeers
    <3>2. Text \in lists
      BY <1>0, <1>4, <3>1, TextIsBody DEF PeersReturns, Seeing
    <3>3. /\ rows \in Seq(Row) /\ column = Text
          /\ \A i \in flags : column[i] = told
          /\ (flags # {}) = (told \in Members(column))
          /\ \A i, j \in flags : i = j
      BY <3>1, FlaggedRows
    <3>4. told \in led
      BY <1>0, <1>4 DEF PeersReturns, Calling, Seeing
    <3> HIDE DEF rows
    <3>5. ResultOK(r)
      BY <3>3 DEF ResultOK
    <3>6. result' = r /\ told' = told /\ lists' = lists /\ led' = led
      BY <2>2 DEF Return, history, rows
    <3>7. RowsAreGenuine'
      <4>1. column \in lists' /\ \A i \in flags : column[i] \in led'
        BY <3>2, <3>3, <3>4, <3>6
      <4>2. (flags # {}) = (told' \in Members(column))
        BY <3>3, <3>6
      <4> QED
        BY <3>3, <3>6, <4>1, <4>2 DEF RowsAreGenuine, Members
    <3>8. r.kind = "rows" /\ ~InFlight /\ Return(r)
      BY <1>0, <1>4, <2>2 DEF PeersReturns, rows
    <3> HIDE DEF r
    <3> QED
      BY <3>5, <3>7, <3>8, ReturnInv
  <2> QED
    BY <1>4, <2>1, <2>2 DEF PeersReturns
<1> QED
  BY <1>1, <1>2, <1>3, <1>4

(* Every step of the tool. *)
LEMMA ToolInv ==
  ASSUME Inv, ToolFails \/ ToolPrints \/ ToolGoesOn \/ ToolEnds
  PROVE  Inv'
<1>0. /\ TypeOK /\ Seeing /\ Calling /\ Printing /\ (Finished => ~InFlight)
      /\ call = "tool" /\ wanted \in Sections /\ asked \in wanted
      /\ printed \subseteq wanted /\ wanted \subseteq AllSections
      /\ printed \subseteq AllSections
  BY FirstOf DEF Inv, Finished, InFlight, Printing, TypeOK, ToolFails, ToolPrints,
                 ToolGoesOn, ToolEnds, ToolHasAnswer
<1>1. CASE ToolFails
  <2>1. PICK st \in {"ABORT", "TEMPFAIL", "PROTOCOL"} : Return(Exit(st))
    BY <1>1 DEF ToolFails
  <2>2. ~InFlight /\ asked \notin printed
    BY <1>0, <1>1 DEF ToolFails, ToolHasAnswer
  <2>3. /\ ResultOK(Exit(st)) /\ Exit(st).kind = "exit" /\ Exit(st).status = st
        /\ st # "OK"
    BY DEF ResultOK, Exit, Status
  <2>4. /\ result' = Exit(st) /\ printed' = printed /\ wanted' = wanted
        /\ asked' = asked
    BY <2>1 DEF Return, toolVars
  <2>5. printed # wanted /\ asked = First(wanted \ printed)
    BY <1>0, <2>2 DEF Printing
  <2>6. Exits'
    BY <2>3, <2>4, <2>5 DEF Exits
  <2> QED
    BY <2>1, <2>2, <2>3, <2>6, ReturnInv
<1>2. CASE ToolPrints
  <2>1. /\ printed' = printed \cup {asked} /\ asked \notin printed
        /\ told' = (IF asked = "leader" THEN Text ELSE told)
        /\ listed' = (IF asked = "peers" THEN Text ELSE listed)
        /\ Prints(asked, Text) /\ ~InFlight
        /\ leader' = leader /\ peers' = peers /\ call' = call /\ asked' = asked
        /\ result' = result /\ waited' = waited /\ wanted' = wanted
        /\ led' = led /\ lists' = lists /\ phase' = phase /\ code' = code
        /\ body' = body /\ odd' = odd /\ got' = got /\ clock' = clock
    BY <1>0, <1>2 DEF ToolPrints, ToolHasAnswer, httpVars, raftVars, history
  <2>2. asked = "leader" => Text \in Leaders /\ Text = body /\ Text \in led
                            /\ Text # Unasked
    <3>1. SUFFICES ASSUME asked = "leader" PROVE Text \in Leaders /\ Text = body
                     /\ Text \in led /\ Text # Unasked
      OBVIOUS
    <3>2. Text \in Leaders
      BY <2>1, <3>1, StatusAssumption DEF Prints, ParsesAsPeer, Leaders
    <3> QED
      BY <1>0, <3>1, <3>2, TextIsBody, StatusAssumption DEF Seeing
  <2>3. asked = "peers" => Text \in PeerLists /\ Text = body /\ Text \in lists
                           /\ Text # Unasked
    <3>1. SUFFICES ASSUME asked = "peers" PROVE Text \in PeerLists /\ Text = body
                     /\ Text \in lists /\ Text # Unasked
      OBVIOUS
    <3>2. Text \in PeerLists
      BY <2>1, <3>1 DEF Prints, ParsesAsPeers
    <3> QED
      BY <1>0, <3>1, <3>2, TextIsBody, StatusAssumption DEF Seeing
  <2>4. TypeOK'
    <3>1. told' \in Leaders \cup {Unasked} /\ listed' \in PeerLists \cup {Unasked}
      BY <1>0, <2>1, <2>2, <2>3 DEF TypeOK
    <3>2. printed' \subseteq wanted'
      BY <1>0, <2>1
    <3> QED
      BY <1>0, <2>1, <3>1, <3>2 DEF TypeOK
  <2>5. Seeing'
    BY <1>0, <2>1, <2>2, <2>3 DEF Seeing, InFlight
  <2>6. Calling'
    BY <1>0, <2>1 DEF Calling
  <2>7. Printing'
    <3>1. asked' \in printed' /\ ~InFlight'
      BY <2>1 DEF InFlight
    <3>2. "leader" \in printed' => told' # Unasked
      BY <1>0, <2>1, <2>2 DEF Printing
    <3>3. "peers" \in printed' => listed' # Unasked
      BY <1>0, <2>1, <2>3 DEF Printing
    <3>4. "leader" \notin printed' => told' = Unasked
      BY <1>0, <2>1 DEF Printing
    <3>5. "peers" \notin printed' => listed' = Unasked
      BY <1>0, <2>1 DEF Printing
    <3>6. (asked' = "leader" => told' = body') /\ (asked' = "peers" => listed' = body')
      BY <2>1, <2>2, <2>3
    <3> QED
      BY <1>0, <2>1, <3>1, <3>2, <3>3, <3>4, <3>5, <3>6 DEF Printing
  <2>8. Returned'
    BY <1>0, <2>1 DEF Calling, Returned, LeaderIsGenuine, RowsAreGenuine, Exits
  <2>9. Waiting'
    <3>1. printed' \cup {asked'} = printed \cup {asked}
      BY <2>1
    <3>2. Requests' = Requests
      BY <1>0, <2>1, <3>1 DEF Requests
    <3> QED
      BY <2>1, <3>2 DEF Inv, Waiting
  <2> QED
    BY <2>4, <2>5, <2>6, <2>7, <2>8, <2>9 DEF Inv
<1>3. CASE ToolGoesOn
  <2> DEFINE next == First(wanted \ printed)
  <2>1. /\ AskNext(next) /\ UNCHANGED <<told, wanted, printed, listed>>
        /\ asked \in printed /\ printed # wanted
    BY <1>3 DEF ToolGoesOn, toolVars
  <2>2. next \in wanted \ printed
    BY <1>0, <2>1, FirstLeft
  <2>3. next \in AllSections
    BY <1>0, <2>2
  <2>4. /\ call' = call /\ result' = result /\ asked' = next
    BY <2>1 DEF AskNext
  <2> HIDE DEF next
  <2>5. Calling'
    BY <1>0, <2>1, <2>4 DEF Calling
  <2>6. Printing'
    BY <1>0, <2>1, <2>2, <2>4 DEF Printing, next
  <2>7. Requests' = Requests + 1 /\ Requests \in Nat
    <3>1. Requests = Cardinality(printed \cup {asked})
          /\ Requests' = Cardinality(printed \cup {next})
      BY <1>0, <2>1, <2>4 DEF Requests
    <3>2. /\ Cardinality(printed \cup {asked}) = Cardinality(printed)
          /\ Cardinality(printed \cup {next}) = Cardinality(printed) + 1
          /\ Cardinality(printed) \in Nat
      BY <1>0, <2>1, <2>2, CountSections
    <3> QED
      BY <3>1, <3>2
  <2> QED
    BY <1>0, <2>1, <2>3, <2>5, <2>6, <2>7, AskNextInv
<1>4. CASE ToolEnds
  <2>1. Return(Exit("OK")) /\ printed = wanted
    BY <1>4 DEF ToolEnds
  <2>2. ~InFlight
    BY <1>0, <2>1 DEF Printing
  <2>3. ResultOK(Exit("OK")) /\ Exit("OK").kind = "exit" /\ Exit("OK").status = "OK"
    BY DEF ResultOK, Exit, Status
  <2>4. result' = Exit("OK") /\ printed' = printed /\ wanted' = wanted
    BY <2>1 DEF Return, toolVars
  <2>5. Exits'
    BY <2>1, <2>3, <2>4 DEF Exits
  <2> QED
    BY <2>1, <2>2, <2>3, <2>5, ReturnInv
<1> QED
  BY <1>1, <1>2, <1>3, <1>4

LEMMA InitInv == Init => Inv
<1>1. SUFFICES ASSUME Init PROVE Inv
  OBVIOUS
<1>2. 0 \in 0 .. Pieces /\ 0 \in 0 .. Timeout
  BY HttpAssumption
<1>3. Empty \notin Leaders \cup PeerLists
  BY StatusAssumption
<1>4. TypeOK
  BY <1>1, <1>2 DEF Init, HttpInit, TypeOK, ResultOK
<1>5. Seeing /\ Calling /\ Printing /\ Waiting
  BY <1>1, <1>3 DEF Init, HttpInit, Seeing, Calling, Printing, Waiting, InFlight
<1>6. Returned
  BY <1>1 DEF Init, Returned, LeaderIsGenuine, RowsAreGenuine, Exits
<1> QED
  BY <1>4, <1>5, <1>6 DEF Inv

LEMMA StepInv == Inv /\ [Next]_vars => Inv'
<1>1. SUFFICES ASSUME Inv, [Next]_vars PROVE Inv'
  OBVIOUS
<1>2. CASE \/ \E p \in Leaders : Elect(p)
           \/ \E l \in PeerLists : ChangePeers(l)
  BY <1>1, <1>2, ClusterInv
<1>3. CASE AgentAnswers
  BY <1>1, <1>3, AnswersInv
<1>4. CASE OnTheWay(Receive) \/ OnTheWay(Cease) \/ OnTheWay(Tick) \/ OnTheWay(Expire)
  BY <1>1, <1>4, OnTheWayInv
<1>5. CASE Start("ping", "self", {}) \/ Start("leader", "leader", {})
           \/ Start("peers", "leader", {})
  BY <1>1, <1>5, StartInv
<1>6. CASE \E S \in Sections : Start("tool", First(S), S)
  BY <1>1, <1>6, StartInv
<1>7. CASE FunctionStep
  BY <1>1, <1>7, FunctionInv, ToolInv DEF FunctionStep
<1>8. CASE UNCHANGED vars
  BY <1>1, <1>8 DEF vars, httpVars, raftVars, callVars, toolVars, history, Inv, TypeOK,
     Seeing, Calling, Printing, Returned, LeaderIsGenuine, RowsAreGenuine, Exits,
     Waiting, InFlight, Requests
<1> QED
  BY <1>1, <1>2, <1>3, <1>4, <1>5, <1>6, <1>7, <1>8 DEF Next

(* Inv is an inductive invariant of the calls. *)
LEMMA Invariance == Spec => []Inv
BY InitInv, StepInv, PTL DEF Spec

(* The state of a call keeps its types. *)
THEOREM TypeCorrect == Spec => []TypeOK
BY Invariance, PTL DEF Inv

(* A leader that status_leader names led while the call ran, whatever the  *)
(* network and the cluster did meanwhile (pg_consul.cpp 440-476).          *)
THEOREM LeaderAlwaysGenuine == Spec => []LeaderIsGenuine
BY Invariance, PTL DEF Inv, Returned

(* The rows of status_peers are a list the cluster had during the call,    *)
(* and the flagged one led during it (pg_consul.cpp 523-570).              *)
THEOREM RowsAlwaysGenuine == Spec => []RowsAreGenuine
BY Invariance, PTL DEF Inv, Returned

(* consul-status prints nothing that was not so while it ran, and exits    *)
(* with EX_OK just when it has printed all.                                *)
THEOREM ToolAlwaysTellsTruth == Spec => []ToolTellsTruth
<1>1. Inv => ToolTellsTruth
  BY DEF Inv, Seeing, Printing, Returned, Exits, ToolTellsTruth
<1> QED
  BY <1>1, Invariance, PTL

(* A call never waits longer than one timeout for each of its requests.    *)
THEOREM WaitAlwaysBounded == Spec => []WaitIsBounded
<1>1. Inv => WaitIsBounded
  <2>1. SUFFICES ASSUME Inv, call # "none" PROVE waited + clock <= Requests * Timeout
    BY DEF WaitIsBounded
  <2>2. /\ waited \in Nat /\ clock \in 0 .. Timeout
        /\ waited <= (Requests - 1) * Timeout
    BY <2>1 DEF Inv, TypeOK, Waiting
  <2>3. Requests \in Nat
    <3>1. CASE call = "tool"
      <4>1. printed \cup {asked} \subseteq AllSections
        BY <2>1, <3>1, FirstOf DEF Inv, Printing, TypeOK
      <4> QED
        BY <3>1, <4>1, CountSections DEF Requests
    <3>2. CASE call # "tool"
      BY <3>2 DEF Requests
    <3> QED
      BY <3>1, <3>2
  <2>4. \A n \in Nat : (n - 1) * Timeout + Timeout = n * Timeout /\ n * Timeout \in Int
    <3>1. \A k \in Int, t \in Int : (k + 1) * t = k * t + t
      OBVIOUS
    <3>2. \A n \in Nat : n - 1 \in Int /\ n = (n - 1) + 1
      OBVIOUS
    <3> QED
      BY <3>1, <3>2, HttpAssumption
  <2> QED
    BY <2>2, <2>3, <2>4, HttpAssumption
<1> QED
  BY <1>1, Invariance, PTL

-----------------------------------------------------------------------------
(* StatusCalls implements StatusView: the moment at which a call sees the  *)
(* leader, or the peers, is that in which the agent composes its answer.   *)

LEMMA InitRefines == Init => View!Init
<1>1. SUFFICES ASSUME Init PROVE View!Init
  OBVIOUS
<1>2. SeenLeader = Unasked /\ SeenPeers = Unasked
  BY <1>1 DEF Init, SeenLeader, SeenPeers
<1> QED
  BY <1>1, <1>2 DEF Init, View!Init, Leaders

(* A step that leaves the call and the answer alone leaves the view alone. *)
LEMMA ViewKept ==
  ASSUME UNCHANGED <<asked, body, told, listed>>
  PROVE  SeenLeader' = SeenLeader /\ SeenPeers' = SeenPeers
BY DEF SeenLeader, SeenPeers

LEMMA ClusterRefines ==
  ASSUME Inv, \/ \E p \in Leaders : Elect(p)
              \/ \E l \in PeerLists : ChangePeers(l)
  PROVE  View!ClusterMoves
<1>1. /\ leader' \in Leaders /\ peers' \in PeerLists
      /\ UNCHANGED <<httpVars, callVars>>
  BY DEF Elect, ChangePeers, Inv, TypeOK
<1>2. SeenLeader' = SeenLeader /\ SeenPeers' = SeenPeers
  BY <1>1, ViewKept DEF httpVars, callVars, toolVars
<1> QED
  BY <1>1, <1>2 DEF View!ClusterMoves, callVars, toolVars, Leaders

LEMMA AnswerRefines ==
  ASSUME Inv, AgentAnswers
  PROVE  View!SeeLeader \/ View!SeePeers \/ UNCHANGED View!vars
<1>1. /\ phase = "sent" /\ body = Empty /\ call # "none"
      /\ leader' = leader /\ peers' = peers /\ call' = call /\ asked' = asked
      /\ told' = told /\ listed' = listed /\ result' = result
      /\ InFlight
  BY DEF AgentAnswers, Respond, Inv, Seeing, InFlight, raftVars, callVars, toolVars
<1>2. body \notin Leaders /\ body \notin PeerLists
  BY <1>1, StatusAssumption
<1>3. call \in {"ping", "leader", "peers", "tool"}
  BY <1>1 DEF Inv, TypeOK
<1>4. CASE asked = "leader" /\ body' \in Leaders
  <2>1. told = Unasked /\ call \in {"leader", "peers", "tool"}
    BY <1>1, <1>3, <1>4 DEF Inv, Calling, Printing
  <2>2. SeenLeader = Unasked /\ SeenLeader' = leader /\ SeenPeers' = SeenPeers
    BY <1>1, <1>2, <1>4, <2>1, AnswerBody DEF SeenLeader, SeenPeers
  <2>3. View!SeeLeader
    BY <1>1, <2>1, <2>2 DEF View!SeeLeader
  <2> QED
    BY <2>3
<1>5. CASE asked = "peers" /\ body' \in PeerLists
  <2>1. /\ listed = Unasked /\ call \in {"peers", "tool"}
        /\ call = "peers" => told # Unasked
    BY <1>1, <1>3, <1>5 DEF Inv, Calling, Printing
  <2>2. SeenPeers = Unasked /\ SeenPeers' = peers /\ SeenLeader' = SeenLeader
    BY <1>1, <1>2, <1>5, <2>1, AnswerBody DEF SeenLeader, SeenPeers
  <2>3. View!SeePeers
    BY <1>1, <2>1, <2>2 DEF View!SeePeers
  <2> QED
    BY <2>3
<1>6. CASE ~(asked = "leader" /\ body' \in Leaders) /\ ~(asked = "peers" /\ body' \in PeerLists)
  <2>1. SeenLeader' = SeenLeader /\ SeenPeers' = SeenPeers
    BY <1>1, <1>2, <1>6 DEF SeenLeader, SeenPeers
  <2> QED
    BY <1>1, <2>1 DEF View!vars
<1> QED
  BY <1>4, <1>5, <1>6

LEMMA OnTheWayRefines ==
  ASSUME OnTheWay(Receive) \/ OnTheWay(Cease) \/ OnTheWay(Tick) \/ OnTheWay(Expire)
  PROVE  UNCHANGED View!vars
<1>1. body' = body /\ UNCHANGED <<raftVars, callVars>>
  BY DEF OnTheWay, Receive, Cease, Tick, Expire, End
<1>2. SeenLeader' = SeenLeader /\ SeenPeers' = SeenPeers
  BY <1>1, ViewKept DEF callVars, toolVars
<1> QED
  BY <1>1, <1>2 DEF View!vars, raftVars, callVars, toolVars

LEMMA StartRefines ==
  ASSUME NEW f \in {"ping", "leader", "peers", "tool"}, NEW endpoint, NEW S,
         Start(f, endpoint, S)
  PROVE  View!Begin(f)
<1>1. /\ call = "none" /\ call' = f /\ told' = Unasked /\ listed' = Unasked
      /\ result' = [kind |-> "none"] /\ body' = Empty /\ UNCHANGED <<leader, peers>>
  BY DEF Start, Send, raftVars
<1>2. SeenLeader' = Unasked /\ SeenPeers' = Unasked
  BY <1>1, StatusAssumption DEF SeenLeader, SeenPeers
<1> QED
  BY <1>1, <1>2 DEF View!Begin

(* A result that the view allows is returned. *)
LEMMA ReturnRefines ==
  ASSUME NEW r, Return(r), call # "none", View!MayReturn(r)
  PROVE  View!Return
<1>1. /\ call' = "none" /\ result' = r /\ UNCHANGED <<leader, peers, told, listed>>
      /\ UNCHANGED <<asked, body>>
  BY DEF Return, httpVars, raftVars, toolVars
<1>2. SeenLeader' = SeenLeader /\ SeenPeers' = SeenPeers
  BY <1>1, ViewKept
<1> QED
  BY <1>1, <1>2 DEF View!Return

LEMMA FunctionRefines ==
  ASSUME Inv, PingReturns \/ LeaderReturns \/ PeersToldLeader \/ PeersReturns
  PROVE  View!Return \/ View!KeepLeader
<1>0. TypeOK /\ Calling
  BY DEF Inv
<1>1. CASE PingReturns
  <2>1. [kind |-> "bool", value |-> Answered] \in
          {[kind |-> "bool", value |-> b] : b \in BOOLEAN}
    BY DEF Answered, Finished
  <2>2. View!MayReturn([kind |-> "bool", value |-> Answered]) /\ call = "ping"
    BY <1>1, <2>1 DEF PingReturns, View!MayReturn
  <2> QED
    BY <1>1, <2>2, ReturnRefines DEF PingReturns
<1>2. CASE LeaderReturns
  <2>1. CASE Return(Error)
    <3>1. View!MayReturn(Error) /\ call # "none"
      BY <1>2 DEF LeaderReturns, View!MayReturn, Error
    <3> QED
      BY <2>1, <3>1, ReturnRefines
  <2>2. CASE Return([kind |-> "null"])
    <3>1. View!MayReturn([kind |-> "null"]) /\ call # "none"
      BY <1>2 DEF LeaderReturns, View!MayReturn
    <3> QED
      BY <2>2, <3>1, ReturnRefines
  <2>3. CASE ParsesAsPeer(Text) /\ Return([kind |-> "text", value |-> Text])
    <3>1. Text \in Leaders /\ asked = "leader" /\ call = "leader"
      BY <1>0, <1>2, <2>3, StatusAssumption DEF ParsesAsPeer, Leaders, LeaderReturns,
                                                Calling
    <3>2. SeenLeader = Text /\ Text # Unasked
      BY <1>0, <3>1, TextIsBody, StatusAssumption DEF SeenLeader
    <3>3. View!MayReturn([kind |-> "text", value |-> Text])
      BY <3>1, <3>2 DEF View!MayReturn
    <3> QED
      BY <2>3, <3>1, <3>3, ReturnRefines
  <2> QED
    BY <1>2, <2>1, <2>2, <2>3 DEF LeaderReturns
<1>3. CASE PeersToldLeader
  <2>1. CASE Return(Error)
    <3>1. View!MayReturn(Error) /\ call # "none"
      BY <1>3 DEF PeersToldLeader, View!MayReturn, Error
    <3> QED
      BY <2>1, <3>1, ReturnRefines
  <2>2. CASE ParsesAsPeer(Text) /\ told' = Text /\ AskNext("peers") /\ UNCHANGED toolVars
    <3>1. Text \in Leaders /\ asked = "leader" /\ call = "peers"
      BY <1>3, <2>2, StatusAssumption DEF ParsesAsPeer, Leaders, PeersToldLeader
    <3>2. SeenLeader = Text /\ Text # Unasked
      BY <1>0, <3>1, TextIsBody, StatusAssumption DEF SeenLeader
    <3>3. /\ asked' = "peers" /\ body' = Empty /\ listed' = listed /\ listed = Unasked
          /\ UNCHANGED <<leader, peers, call, result>>
      BY <1>0, <2>2, <3>1 DEF AskNext, Send, toolVars, raftVars, Calling
    <3>4. SeenLeader' = told' /\ SeenPeers = Unasked /\ SeenPeers' = Unasked
      BY <2>2, <3>1, <3>3, StatusAssumption DEF SeenLeader, SeenPeers
    <3>5. View!KeepLeader
      BY <2>2, <3>1, <3>2, <3>3, <3>4 DEF View!KeepLeader
    <3> QED
      BY <3>5
  <2> QED
    BY <1>3, <2>1, <2>2 DEF PeersToldLeader
<1>4. CASE PeersReturns
  <2>1. CASE Return(Error)
    <3>1. View!MayReturn(Error) /\ call # "none"
      BY <1>4 DEF PeersReturns, View!MayReturn, Error
    <3> QED
      BY <2>1, <3>1, ReturnRefines
  <2>2. CASE ParsesAsPeers(Text) /\ Return([kind |-> "rows", rows |-> Flagged(Text, told)])
    <3>1. Text \in PeerLists /\ asked = "peers" /\ call = "peers" /\ told # Unasked
      BY <1>0, <1>4, <2>2 DEF ParsesAsPeers, PeersReturns, Calling
    <3>2. SeenPeers = Text /\ Text # Unasked
      BY <1>0, <3>1, TextIsBody, StatusAssumption DEF SeenPeers
    <3>3. View!Flagged(SeenPeers, told) = Flagged(Text, told)
      BY <3>2 DEF View!Flagged, Flagged
    <3>4. View!MayReturn([kind |-> "rows", rows |-> Flagged(Text, told)])
      BY <3>1, <3>2, <3>3 DEF View!MayReturn
    <3> QED
      BY <2>2, <3>1, <3>4, ReturnRefines
  <2> QED
    BY <1>4, <2>1, <2>2 DEF PeersReturns
<1> QED
  BY <1>1, <1>2, <1>3, <1>4

LEMMA ToolRefines ==
  ASSUME Inv, ToolFails \/ ToolPrints \/ ToolGoesOn \/ ToolEnds
  PROVE  View!Return \/ View!KeepLeader \/ View!KeepPeers \/ UNCHANGED View!vars
<1>0. TypeOK /\ Printing /\ call = "tool"
  BY DEF Inv, ToolFails, ToolPrints, ToolGoesOn, ToolEnds, ToolHasAnswer
<1>1. ASSUME NEW st \in Status, Return(Exit(st)) PROVE View!Return
  <2>1. View!MayReturn(Exit(st))
    BY <1>0, <1>1 DEF View!MayReturn, Exit, Status, View!Status
  <2> QED
    BY <1>0, <1>1, <2>1, ReturnRefines
<1>2. CASE ToolFails \/ ToolEnds
  BY <1>1, <1>2 DEF ToolFails, ToolEnds, Status
<1>3. CASE ToolPrints
  <2>1. /\ told' = (IF asked = "leader" THEN Text ELSE told)
        /\ listed' = (IF asked = "peers" THEN Text ELSE listed)
        /\ Prints(asked, Text)
        /\ UNCHANGED <<leader, peers, call, asked, result, body>>
    BY <1>3 DEF ToolPrints, httpVars, raftVars
  <2>2. CASE asked = "leader"
    <3>1. Text \in Leaders /\ told' = Text /\ listed' = listed
      BY <2>1, <2>2, StatusAssumption DEF Prints, ParsesAsPeer, Leaders
    <3>2. Text = body /\ Text # Unasked
      BY <1>0, <3>1, TextIsBody, StatusAssumption
    <3>3. SeenLeader = Text /\ SeenLeader' = SeenLeader /\ SeenPeers' = SeenPeers
      BY <2>1, <2>2, <3>1, <3>2 DEF SeenLeader, SeenPeers
    <3>4. View!KeepLeader
      BY <1>0, <2>1, <3>1, <3>2, <3>3 DEF View!KeepLeader
    <3> QED
      BY <3>4
  <2>3. CASE asked = "peers"
    <3>1. Text \in PeerLists /\ listed' = Text /\ told' = told
      BY <2>1, <2>3 DEF Prints, ParsesAsPeers
    <3>2. Text = body /\ Text # Unasked
      BY <1>0, <3>1, TextIsBody, StatusAssumption
    <3>3. SeenPeers = Text /\ SeenLeader' = SeenLeader /\ SeenPeers' = SeenPeers
      BY <2>1, <2>3, <3>1, <3>2 DEF SeenLeader, SeenPeers
    <3>4. View!KeepPeers
      BY <1>0, <2>1, <3>1, <3>2, <3>3 DEF View!KeepPeers
    <3> QED
      BY <3>4
  <2>4. CASE asked # "leader" /\ asked # "peers"
    <3>1. told' = told /\ listed' = listed
      BY <2>1, <2>4
    <3>2. SeenLeader' = SeenLeader /\ SeenPeers' = SeenPeers
      BY <2>1, <3>1, ViewKept
    <3> QED
      BY <2>1, <3>1, <3>2 DEF View!vars
  <2> QED
    BY <2>2, <2>3, <2>4
<1>4. CASE ToolGoesOn
  <2>1. /\ UNCHANGED <<leader, peers, call, result, told, listed>> /\ body' = Empty
        /\ asked \in printed
    BY <1>4 DEF ToolGoesOn, AskNext, Send, toolVars, raftVars
  <2>2. SeenLeader' = told /\ SeenPeers' = listed
    BY <2>1, StatusAssumption DEF SeenLeader, SeenPeers
  <2>3. SeenLeader = told /\ SeenPeers = listed
    BY <1>0, <2>1 DEF SeenLeader, SeenPeers, Printing
  <2> QED
    BY <2>1, <2>2, <2>3 DEF View!vars
<1> QED
  BY <1>2, <1>3, <1>4

LEMMA StepRefines == Inv /\ [Next]_vars => [View!Next]_(View!vars)
<1>1. SUFFICES ASSUME Inv, [Next]_vars PROVE [View!Next]_(View!vars)
  OBVIOUS
<1>2. CASE \/ \E p \in Leaders : Elect(p)
           \/ \E l \in PeerLists : ChangePeers(l)
  BY <1>1, <1>2, ClusterRefines DEF View!Next
<1>3. CASE AgentAnswers
  BY <1>1, <1>3, AnswerRefines DEF View!Next
<1>4. CASE OnTheWay(Receive) \/ OnTheWay(Cease) \/ OnTheWay(Tick) \/ OnTheWay(Expire)
  BY <1>4, OnTheWayRefines
<1>5. CASE Start("ping", "self", {}) \/ Start("leader", "leader", {})
           \/ Start("peers", "leader", {})
  BY <1>5, StartRefines DEF View!Next
<1>6. CASE \E S \in Sections : Start("tool", First(S), S)
  BY <1>6, StartRefines DEF View!Next
<1>7. CASE FunctionStep
  BY <1>1, <1>7, FunctionRefines, ToolRefines DEF FunctionStep, View!Next
<1>8. CASE UNCHANGED vars
  <2>1. UNCHANGED <<httpVars, raftVars, callVars>>
    BY <1>8 DEF vars
  <2>2. SeenLeader' = SeenLeader /\ SeenPeers' = SeenPeers
    BY <2>1, ViewKept DEF httpVars, callVars, toolVars
  <2> QED
    BY <2>1, <2>2 DEF View!vars, raftVars, callVars, toolVars
<1> QED
  BY <1>1, <1>2, <1>3, <1>4, <1>5, <1>6, <1>7, <1>8 DEF Next

(* What the status functions and consul-status tell of a changing cluster  *)
(* is what each saw of the leader at one moment of its call and of the     *)
(* peers at one moment, whatever became of the requests.                   *)
THEOREM StatusCallsImplementView == Spec => RefinesView
BY InitRefines, StepRefines, Invariance, PTL DEF Spec, RefinesView, View!Spec
=============================================================================
