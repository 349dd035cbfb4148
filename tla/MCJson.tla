-------------------------------- MODULE MCJson --------------------------------
(* Json on every text of up to three characters, and on longer texts with  *)
(* any one character missing or another in its place, cut anywhere, with   *)
(* room for two lists or objects around a value.                           *)
EXTENDS JsonText

Samples == {
  <<"[", "1", ",", " ", "0", "]", " ">>,
  <<"[", "[", "[", "t", "]", "]", "]">>,
  <<"[", "[", "[", "]", ",", "1", "]", "]">>,
  <<"{", Quote, Quote, ":", "[", "t", "]", "}">>,
  <<"{", Quote, "1", Quote, ":", "0", ",", Quote, "1", Quote, ":", "t", "}">>,
  <<"{", Quote, Quote, ":", "[", "[", "t", "]", "]", ",", Quote, Quote, ":", "1", "}">>,
  <<"[", Quote, Backslash, Quote, "]", Quote, "]">>,
  <<Quote, Backslash, Backslash, "e", "]", Quote>>,
  <<"[", "-", "1", "0", ".", "0", "e", "-", "1", "]">>}

Missing(s) == {SubSeq(s, 1, k - 1) \o SubSeq(s, k + 1, Len(s)) : k \in DOMAIN s}
Changed(s) == {[s EXCEPT ![k] = c] : k \in DOMAIN s, c \in Character}

MCDocuments ==
  UNION {[1 .. n -> Character] : n \in 0 .. 3}
  \cup Samples \cup UNION {Missing(s) \cup Changed(s) : s \in Samples}
=============================================================================
