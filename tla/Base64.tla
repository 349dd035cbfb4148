-------------------------------- MODULE Base64 --------------------------------
(***************************************************************************)
(* The base64 streams a value goes through: base64::encoder, behind        *)
(* KVPair::valueEncoded(), and base64::decoder, behind KVPair::InitFromJson*)
(* (src/b64--cencode.cpp, src/b64--cdecode.cpp, include/b64, kv_pair.hpp). *)
(*                                                                         *)
(* Both read a stream in blocks of the buffer size and carry a half-built  *)
(* character from block to block in their state; the code is a coroutine   *)
(* (a switch into a loop) whose step says where in a group it was left.    *)
(* A step of the specification takes one character, or ends a block.       *)
(* Bytes and the 64 symbols are numbers; the masks and shifts of the code  *)
(* are \div, % and *, on bits that do not overlap.                         *)
(***************************************************************************)
EXTENDS Naturals, Sequences, FiniteSets

CONSTANTS
  Value,           \* the values that are encoded, sequences of bytes
  BUFFERSIZE,      \* the buffer sizes of the streams (4096 in the code)
  CHARS_PER_LINE,  \* 72 in the code
  Junk             \* what an uninitialised cell of a buffer may hold

Byte == 0 .. 255
Symbol == 0 .. 63
Pad == 64          \* '='
Newline == 65      \* '\n'
Code == Symbol \cup {Pad, Newline}

ASSUME Base64Assumption ==
  /\ Value \subseteq Seq(Byte)
  /\ BUFFERSIZE \subseteq Nat \ 0 .. 3
  /\ CHARS_PER_LINE \in Nat \ {0} /\ CHARS_PER_LINE % 4 = 0
  /\ Junk \subseteq Byte /\ Junk # {}

VARIABLES
  phase,   \* "encoding", "encoded", "decoding" or "done"
  size,    \* the buffer size of both streams
  value,   \* the value
  begin,   \* how much of its stream the coder had read before this block
  length,  \* what it has read now: gcount()
  at,      \* how much of that it has taken
  out,     \* the output buffer as far as it was touched; of the decoder, up to
           \* and including *plainchar
  enc,     \* base64_encodestate, result and step as in the registers
  dec,     \* step of base64_decodestate; its plainchar is at the end of out
  text,    \* what the encoder has written
  plain    \* what the decoder has written

vars == <<phase, size, value, begin, length, at, out, enc, dec, text, plain>>

Coding == phase \in {"encoding", "encoded"}

EncodeStart == [step |-> "A", result |-> 0, stepcount |-> 0]

\* istream.read(buffer, size) after n characters of s: what there is to read.
Gcount(s, n) == IF Len(s) - n < size THEN Len(s) - n ELSE size

Init ==
  /\ phase = "encoding"
  /\ size \in BUFFERSIZE
  /\ value \in Value
  /\ begin = 0 /\ length = Gcount(value, 0) /\ at = 0
  /\ out = <<>> /\ enc = EncodeStart /\ dec = "a"
  /\ text = <<>> /\ plain = <<>>

-----------------------------------------------------------------------------
(* Streams: blocks are read until one falls short. *)

Stream == IF phase = "encoding" THEN value ELSE text
Here == Stream[begin + at + 1]

LastRead == length < size

Take == at < length /\ at' = at + 1

NextBlock ==
  /\ at = length /\ ~LastRead
  /\ begin' = begin + length /\ length' = Gcount(Stream, begin + length) /\ at' = 0

EndOfStream == at = length /\ LastRead

\* Faulty: a buffer for as many symbols as bytes.
CodeBufferSingle == size

\* The buffers of the two streams.
CodeBuffer == 2 * size
PlainBuffer == size

-----------------------------------------------------------------------------
(* base64_encode_block *)

\* Faulty: a line one group too long; the count of groups is not reset.
LineFullLate(n) == n > CHARS_PER_LINE \div 4
GroupsAlways(n) == n

\* A newline after every CHARS_PER_LINE characters.
LineFull(n) == n = CHARS_PER_LINE \div 4
GroupsOnLine(n) == IF LineFull(n) THEN 0 ELSE n

EncodeA ==
  /\ enc.step = "A"
  /\ out' = Append(out, Here \div 4)
  /\ enc' = [enc EXCEPT !.step = "B", !.result = (Here % 4) * 16]

EncodeB ==
  /\ enc.step = "B"
  /\ out' = Append(out, enc.result + Here \div 16)
  /\ enc' = [enc EXCEPT !.step = "C", !.result = (Here % 16) * 4]

EncodeC ==
  /\ enc.step = "C"
  /\ LET group == Append(Append(out, enc.result + Here \div 64), Here % 64)
         n == enc.stepcount + 1
     IN /\ out' = IF LineFull(n) THEN Append(group, Newline) ELSE group
        /\ enc' = [step |-> "A", result |-> Here % 64, stepcount |-> GroupsOnLine(n)]

EncodeByte ==
  /\ phase = "encoding" /\ Take
  /\ EncodeA \/ EncodeB \/ EncodeC
  /\ UNCHANGED <<phase, size, value, begin, length, dec, text, plain>>

\* Faulty: the state does not outlive a block.
EncodeBlockAfresh ==
  /\ phase = "encoding" /\ NextBlock
  /\ text' = text \o out /\ out' = <<>> /\ enc' = EncodeStart
  /\ UNCHANGED <<phase, size, value, dec, plain>>

EncodeBlock ==
  /\ phase = "encoding" /\ NextBlock
  /\ text' = text \o out /\ out' = <<>>
  /\ UNCHANGED <<phase, size, value, enc, dec, plain>>

\* base64_encode_blockend: the last group is padded, in the same buffer.
Blockend ==
  CASE enc.step = "A" -> <<Newline>>
    [] enc.step = "B" -> <<enc.result, Pad, Pad, Newline>>
    [] enc.step = "C" -> <<enc.result, Pad, Newline>>

EncodeEnd ==
  /\ phase = "encoding" /\ EndOfStream
  /\ text' = text \o out \o Blockend /\ out' = Blockend
  /\ enc' = EncodeStart /\ phase' = "encoded"
  /\ UNCHANGED <<size, value, begin, length, at, dec, plain>>

\* KVPair::valueEncoded drops one newline, if there is one at the end.  What is
\* left goes to the decoder, whose state has a plainchar of 0.
Strip(s) ==
  IF s # <<>> /\ s[Len(s)] = Newline THEN SubSeq(s, 1, Len(s) - 1) ELSE s

ValueEncoded ==
  /\ phase = "encoded" /\ phase' = "decoding"
  /\ text' = Strip(text)
  /\ begin' = 0 /\ length' = Gcount(Strip(text), 0) /\ at' = 0
  /\ out' = <<0>> /\ dec' = "a"
  /\ UNCHANGED <<size, value, enc, plain>>

-----------------------------------------------------------------------------
(* base64_decode_block: what is no symbol is passed over.  *plainchar is   *)
(* being built; the cell after one that is complete holds what it held.    *)

Build(bits) == [out EXCEPT ![Len(out)] = bits]
Complete(bits) == [out EXCEPT ![Len(out)] = @ + bits]

DecodeA == dec = "a" /\ dec' = "b" /\ out' = Build(Here * 4)
DecodeB == dec = "b" /\ dec' = "c" /\ out' = Append(Complete(Here \div 16), (Here % 16) * 16)
DecodeC == dec = "c" /\ dec' = "d" /\ out' = Append(Complete(Here \div 4), (Here % 4) * 64)
DecodeD == dec = "d" /\ dec' = "a" /\ \E j \in Junk : out' = Append(Complete(Here), j)

DecodeChar ==
  /\ phase = "decoding" /\ Take
  /\ \/ Here \in Symbol /\ (DecodeA \/ DecodeB \/ DecodeC \/ DecodeD)
     \/ Here \notin Symbol /\ UNCHANGED <<out, dec>>
  /\ UNCHANGED <<phase, size, value, begin, length, enc, text, plain>>

\* The characters that are complete.
Completed == SubSeq(out, 1, Len(out) - 1)

\* Faulty: plainchar of the state is not put back into the buffer.
CarriedNothing == 0

\* The one that is not, which the state carries into the next block.
Carried == out[Len(out)]

DecodeBlock ==
  /\ phase = "decoding" /\ NextBlock
  /\ plain' = plain \o Completed /\ out' = <<Carried>>
  /\ UNCHANGED <<phase, size, value, enc, dec, text>>

DecodeEnd ==
  /\ phase = "decoding" /\ EndOfStream
  /\ plain' = plain \o Completed
  /\ dec' = "a" /\ phase' = "done"
  /\ UNCHANGED <<size, value, begin, length, at, out, enc, text>>

Next == \/ EncodeByte \/ EncodeBlock \/ EncodeEnd
        \/ ValueEncoded
        \/ DecodeChar \/ DecodeBlock \/ DecodeEnd

Spec == Init /\ [][Next]_vars

-----------------------------------------------------------------------------
(* Properties *)

(* The states of the codec have the shapes of the C structures. *)
TypeOK ==
  /\ phase \in {"encoding", "encoded", "decoding", "done"}
  /\ size \in BUFFERSIZE /\ value \in Value
  /\ begin \in Nat /\ length \in 0 .. size /\ at \in 0 .. length
  /\ out \in Seq(IF Coding THEN Code ELSE Byte)
  /\ enc \in [step : {"A", "B", "C"}, result : Symbol,
              stepcount : 0 .. CHARS_PER_LINE \div 4 - 1]
  /\ dec \in {"a", "b", "c", "d"}
  /\ text \in Seq(Code) /\ plain \in Seq(Byte)

(* What RFC 4648 makes of a value: three bytes are a number of 24 bits, of *)
(* which each six are a symbol; those that have no bit of the value are    *)
(* padding.                                                                *)
ByteAt(s, i) == IF i <= Len(s) THEN s[i] ELSE 0
Group(s, g) == 65536 * ByteAt(s, 3 * g + 1) + 256 * ByteAt(s, 3 * g + 2)
               + ByteAt(s, 3 * g + 3)
Sextet(s, k) ==
  (Group(s, (k - 1) \div 4) \div <<262144, 4096, 64, 1>>[((k - 1) % 4) + 1]) % 64
Reference(s) ==
  [k \in 1 .. 4 * ((Len(s) + 2) \div 3) |->
     IF 6 * (k - 1) < 8 * Len(s) THEN Sextet(s, k) ELSE Pad]

\* The number of characters up to p that are no newlines.
Ink(t, p) == Cardinality({q \in 1 .. p : t[q] # Newline})

(* Newlines apart, the encoder writes the standard encoding of the value,  *)
(* wherever the blocks divide it.                                          *)
EncodesStandard ==
  phase # "encoding" =>
    /\ Ink(text, Len(text)) = Len(Reference(value))
    /\ \A p \in DOMAIN text :
         text[p] # Newline => text[p] = Reference(value)[Ink(text, p)]

(* What the decoder makes of an encoded value is that value, wherever the  *)
(* blocks divide the text and whatever the buffers held.                   *)
RoundTrip == phase = "done" => plain = value

(* No line of the text is longer than CHARS_PER_LINE. *)
LinesFit ==
  \A i \in 1 .. Len(text) - CHARS_PER_LINE :
    \E j \in i .. i + CHARS_PER_LINE : text[j] = Newline

(* No block runs over the buffer the stream allocated for it, 2 * N cells  *)
(* for the encoder and N for the decoder, wherever in a group it starts.   *)
BlocksFit == Len(out) <= IF Coding THEN CodeBuffer ELSE PlainBuffer

(* The comment of valueEncoded(): "Remove trailing newline from encoder"   *)
(* (include/consul/kv_pair.hpp:235).                                       *)
NoTrailingNewline ==
  phase \in {"decoding", "done"} /\ text # <<>> => text[Len(text)] # Newline
=============================================================================
