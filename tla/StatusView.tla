------------------------------ MODULE StatusView ------------------------------
(***************************************************************************)
(* What consul_agent_ping, consul_status_leader, consul_status_peers and   *)
(* the consul-status tool promise about a raft cluster that changes while  *)
(* they run: each looks at the leader at one moment and at the peers at    *)
(* one moment, both of them within the call, and what it returns or prints *)
(* is what it saw.  status_peers looks at the leader first; the two        *)
(* moments are not the same, so that a leader need not be among the peers. *)
(*                                                                         *)
(* StatusCalls, which models the requests, implements this specification.  *)
(***************************************************************************)
EXTENDS Naturals, Sequences

CONSTANTS
  Peer,       \* raft addresses
  PeerLists,  \* the lists of peers the cluster goes through
  Nobody,     \* there is no leader
  Unasked     \* not looked at in this call

VARIABLES
  leader, peers,          \* the cluster
  call,                   \* the function or the tool that runs, or "none"
  seenLeader, seenPeers,  \* what it saw
  told, listed,           \* what it holds on to, or has printed
  result                  \* what the last one returned

vars == <<leader, peers, call, seenLeader, seenPeers, told, listed, result>>

Init ==
  /\ leader \in Peer \cup {Nobody} /\ peers \in PeerLists
  /\ call = "none" /\ result = [kind |-> "none"]
  /\ seenLeader = Unasked /\ seenPeers = Unasked
  /\ told = Unasked /\ listed = Unasked

ClusterMoves ==
  /\ leader' \in Peer \cup {Nobody} /\ peers' \in PeerLists
  /\ UNCHANGED <<call, seenLeader, seenPeers, told, listed, result>>

Begin(f) ==
  /\ call = "none" /\ call' = f
  /\ seenLeader' = Unasked /\ seenPeers' = Unasked
  /\ told' = Unasked /\ listed' = Unasked
  /\ result' = [kind |-> "none"]
  /\ UNCHANGED <<leader, peers>>

SeeLeader ==
  /\ call \in {"leader", "peers", "tool"}
  /\ seenLeader = Unasked /\ seenLeader' = leader
  /\ UNCHANGED <<leader, peers, call, seenPeers, told, listed, result>>

SeePeers ==
  /\ call \in {"peers", "tool"} /\ (call = "peers" => told # Unasked)
  /\ seenPeers = Unasked /\ seenPeers' = peers
  /\ UNCHANGED <<leader, peers, call, seenLeader, told, listed, result>>

KeepLeader ==
  /\ call \in {"peers", "tool"}
  /\ seenLeader # Unasked /\ told' = seenLeader
  /\ UNCHANGED <<leader, peers, call, seenLeader, seenPeers, listed, result>>

KeepPeers ==
  /\ call = "tool"
  /\ seenPeers # Unasked /\ listed' = seenPeers
  /\ UNCHANGED <<leader, peers, call, seenLeader, seenPeers, told, result>>

\* The first peer that is the leader is flagged.
Flagged(list, who) ==
  [k \in DOMAIN list |->
     [peer |-> list[k],
      leader |-> list[k] = who /\ \A j \in 1 .. k - 1 : list[j] # who]]

Status == {"OK", "TEMPFAIL", "PROTOCOL", "ABORT"}

MayReturn(r) ==
  \/ call # "tool" /\ r = [kind |-> "error"]
  \/ call = "ping" /\ r \in {[kind |-> "bool", value |-> b] : b \in BOOLEAN}
  \/ call = "leader" /\ r = [kind |-> "null"]
  \/ /\ call = "leader" /\ seenLeader # Unasked
     /\ r = [kind |-> "text", value |-> seenLeader]
  \/ /\ call = "peers" /\ told # Unasked /\ seenPeers # Unasked
     /\ r = [kind |-> "rows", rows |-> Flagged(seenPeers, told)]
  \/ call = "tool" /\ r \in {[kind |-> "exit", status |-> s] : s \in Status}

Return ==
  /\ call # "none" /\ call' = "none"
  /\ MayReturn(result')
  /\ UNCHANGED <<leader, peers, seenLeader, seenPeers, told, listed>>

Next ==
  \/ ClusterMoves
  \/ \E f \in {"ping", "leader", "peers", "tool"} : Begin(f)
  \/ SeeLeader \/ SeePeers \/ KeepLeader \/ KeepPeers
  \/ Return

Spec == Init /\ [][Next]_vars
=============================================================================
