------------------------------ MODULE MCBase64 ------------------------------
(* Base64 on every value of up to seven bytes out of three that between them *)
(* set and clear each bit, with lines of two groups and buffers that cut   *)
(* groups at every place.                                                  *)
EXTENDS Base64

MCValue == UNION {[1 .. n -> {0, 90, 255}] : n \in 0 .. 7}
=============================================================================
