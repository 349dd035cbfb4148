------------------------------ MODULE MCConsulKv ------------------------------
(* ConsulKv with a directory and a key in it, and two or three runs.       *)
EXTENDS ConsulKv

CONSTANTS dir, file, s1, s2

MCUnder == [k \in Key |-> IF k = dir THEN {dir, file} ELSE {file}]

Command(m, keys) == [method |-> m, keys |-> keys, value |-> m = "PUT",
                     cas |-> NoCas, session |-> NoSession, recurse |-> FALSE]

MCCommandLine ==
  {Command("PUT", <<file>>), [Command("PUT", <<file>>) EXCEPT !.cas = 1],
   [Command("PUT", <<file>>) EXCEPT !.session = s1],
   [Command("PUT", <<file>>) EXCEPT !.session = s2],
   [Command("PUT", <<file>>) EXCEPT !.session = s1, !.cas = 1],
   [Command("PUT", <<file>>) EXCEPT !.value = FALSE],
   Command("GET", <<dir, file>>), [Command("GET", <<dir>>) EXCEPT !.recurse = TRUE],
   Command("DELETE", <<file, dir>>), [Command("DELETE", <<dir>>) EXCEPT !.recurse = TRUE],
   [Command("DELETE", <<file>>) EXCEPT !.cas = 1]}

MCUnset == {Command("unset", <<file>>), Command("PUT", <<file>>)}
=============================================================================
