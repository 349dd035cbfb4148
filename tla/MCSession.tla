----------------------------- MODULE MCSession -----------------------------
(***************************************************************************)
(* Session on a small instance: one other host, one other port, one other  *)
(* timeout, and a timeout that is refused; a ping of a port that is none.  *)
(***************************************************************************)
EXTENDS Session

CONSTANTS localhost, remote, badHost, garbled

MCName == {localhost, remote, badHost, garbled}
MCValidHost == {localhost, remote}
MCPingPort == {-1}

AllInput == [s \in Setting |->
  CASE s = "host" -> {remote} [] s = "port" -> {8501} [] s = "timeout" -> {0, 10}]
PlaceInput == [s \in Setting |-> IF s = "host" THEN {remote, badHost} ELSE {}]
=============================================================================
