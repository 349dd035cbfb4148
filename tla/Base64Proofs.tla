----------------------------- MODULE Base64Proofs -----------------------------
(***************************************************************************)
(* Proofs about the base64 streams, for every value, buffer size and line  *)
(* length: the encoder writes the standard encoding in lines that fit, the *)
(* decoder brings the value back, and no block runs over its buffer.       *)
(*                                                                         *)
(* The argument: how many bytes were taken says where in a group the       *)
(* encoder is, what it carries, and how many symbols there are on the line.*)
(* How many symbols were taken says the same of the decoder.               *)
(***************************************************************************)
EXTENDS Base64, FiniteSetTheorems, SequenceTheorems, TLAPS

(* How much of its stream the coder at work has taken. *)
Taken == begin + at

(* The text is the encoding so far, of n symbols. *)
Encodes(v, t, n) ==
  /\ Ink(t, Len(t)) = n /\ n <= Len(Reference(v))
  /\ \A p \in 1 .. Len(t) :
       t[p] # Newline => t[p] = Reference(v)[Ink(t, p)]

(* The lines of the text fit, and its last one has n characters. *)
Fits(t) ==
  \A i \in 1 .. Len(t) - CHARS_PER_LINE :
    \E j \in i .. i + CHARS_PER_LINE : t[j] = Newline
Lines(t, n) ==
  /\ Fits(t) /\ n \in 0 .. Len(t)
  /\ n = Len(t) \/ t[Len(t) - n] = Newline

(* The block read is where the stream was left, and ends with it at most.  *)
StreamInv ==
  phase \in {"encoding", "decoding"} =>
    begin \in 0 .. Len(Stream) /\ length = Gcount(Stream, begin)

(* What the step of the encoder says of the bytes taken, and its result of *)
(* the last of them.                                                       *)
GroupInv ==
  /\ enc.step = "A" => Taken % 3 = 0
  /\ enc.step = "B" => Taken % 3 = 1 /\ enc.result = (value[Taken] % 4) * 16
  /\ enc.step = "C" => Taken % 3 = 2 /\ enc.result = (value[Taken] % 16) * 4

(* The text after n bytes, with m groups on its last line. *)
Progress(v, t, n, m) ==
  /\ Encodes(v, t, 4 * (n \div 3) + (n % 3))
  /\ Lines(t, 4 * m + (n % 3))

EncodeInv ==
  /\ phase = "encoding" =>
       GroupInv /\ plain = <<>> /\ Progress(value, text \o out, Taken, enc.stepcount)
  /\ phase # "encoding" => Encodes(value, text, Len(Reference(value))) /\ Fits(text)
  /\ phase = "encoded" =>
       plain = <<>> /\ text # <<>> /\ text[Len(text)] = Newline

(* The bytes that the first m symbols complete, and what they say of the   *)
(* next one.                                                               *)
Symbols(v) == (8 * Len(v) + 5) \div 6
TakenSymbols ==
  IF Ink(text, Taken) <= Symbols(value) THEN Ink(text, Taken) ELSE Symbols(value)
Complete3(m) == (3 * m) \div 4
Partial(v, m) ==
  LET b == ByteAt(v, Complete3(m) + 1) IN
  CASE m % 4 = 1 -> (b \div 4) * 4
    [] m % 4 = 2 -> (b \div 16) * 16
    [] m % 4 = 3 -> (b \div 64) * 64

(* What m symbols made of a value: its bytes so far, and the one in hand.   *)
Decoded(v, d, m) ==
  /\ Len(d) = Complete3(m) + 1
  /\ \A i \in 1 .. Complete3(m) : d[i] = v[i]
  /\ m % 4 # 0 => d[Len(d)] = Partial(v, m)

(* The step of the decoder says where in a group it is. *)
Where(d, m) ==
  /\ d = "a" <=> m % 4 = 0
  /\ d = "b" <=> m % 4 = 1
  /\ d = "c" <=> m % 4 = 2
  /\ d = "d" <=> m % 4 = 3

DecodeInv ==
  phase = "decoding" =>
    /\ out # <<>> /\ Where(dec, TakenSymbols)
    /\ Decoded(value, plain \o out, TakenSymbols)

(* How many cells a block has touched when it has taken as many characters.*)
(* A block that starts right before a newline is ahead by a cell, and one  *)
(* that starts within a group of the decoder, until the group is complete. *)
BufferInv ==
  /\ phase = "encoding" =>
       /\ enc.step = "A" => Len(out) <= 2 * at \/ (at = 1 /\ Len(out) <= 3)
       /\ enc.step = "B" => Len(out) <= 2 * at
       /\ enc.step = "C" => Len(out) <= 2 * at - 1 \/ (at = 0 /\ Len(out) = 0)
  /\ phase = "encoded" => Len(out) <= 4
  /\ phase = "decoding" =>
       \/ Len(out) <= at
       \/ /\ Len(out) = at + 1
          /\ \/ at = 0
             \/ at = 1 /\ dec # "b"
             \/ at = 2 /\ dec \in {"a", "d"}
             \/ at = 3 /\ dec = "a"
  /\ phase = "done" => Len(out) <= size

Inv == TypeOK /\ StreamInv /\ EncodeInv /\ DecodeInv /\ BufferInv /\ RoundTrip

-----------------------------------------------------------------------------
(* Numbers and groups *)

LEMMA ByteRange == \A b : b \in Byte <=> b \in Nat /\ b < 256
BY DEF Byte

LEMMA SymbolRange == \A c : c \in Symbol <=> c \in Nat /\ c < 64
BY DEF Symbol

(* What six of the 24 bits of three bytes are. *)
LEMMA Sextets ==
  \A b, c, d \in Nat : b < 256 /\ c < 256 /\ d < 256 =>
    LET n == 65536 * b + 256 * c + d IN
    /\ (n \div 262144) % 64 = b \div 4
    /\ (n \div 4096) % 64 = (b % 4) * 16 + c \div 16
    /\ (n \div 64) % 64 = (c % 16) * 4 + d \div 64
    /\ (n \div 1) % 64 = d % 64
BY SMTT(30)

(* A place in the encoding is one of four in a group. *)
LEMMA Places ==
  \A g \in Nat :
    /\ (4 * g + 1 - 1) \div 4 = g /\ ((4 * g + 1 - 1) % 4) + 1 = 1
    /\ (4 * g + 2 - 1) \div 4 = g /\ ((4 * g + 2 - 1) % 4) + 1 = 2
    /\ (4 * g + 3 - 1) \div 4 = g /\ ((4 * g + 3 - 1) % 4) + 1 = 3
    /\ (4 * g + 4 - 1) \div 4 = g /\ ((4 * g + 4 - 1) % 4) + 1 = 4
OBVIOUS

LEMMA ByteAtRange ==
  ASSUME NEW v \in Seq(Byte), NEW n \in Nat \ {0}
  PROVE  ByteAt(v, n) \in Nat /\ ByteAt(v, n) < 256
<1>1. CASE n <= Len(v)
  <2>1. v[n] \in Byte
    BY <1>1
  <2> QED
    BY <1>1, <2>1, ByteRange DEF ByteAt
<1>2. CASE ~(n <= Len(v))
  BY <1>2 DEF ByteAt
<1> QED
  BY <1>1, <1>2

(* The four symbols of a group of three bytes. *)
LEMMA GroupSextets ==
  ASSUME NEW v \in Seq(Byte), NEW g \in Nat
  PROVE  LET b == ByteAt(v, 3 * g + 1)
             c == ByteAt(v, 3 * g + 2)
             d == ByteAt(v, 3 * g + 3)
         IN /\ Sextet(v, 4 * g + 1) = b \div 4
            /\ Sextet(v, 4 * g + 2) = (b % 4) * 16 + c \div 16
            /\ Sextet(v, 4 * g + 3) = (c % 16) * 4 + d \div 64
            /\ Sextet(v, 4 * g + 4) = d % 64
<1> DEFINE w == <<262144, 4096, 64, 1>>
<1>1. w[1] = 262144 /\ w[2] = 4096 /\ w[3] = 64 /\ w[4] = 1
  OBVIOUS
<1>2. \A k : Sextet(v, k) = (Group(v, (k - 1) \div 4) \div w[((k - 1) % 4) + 1]) % 64
  BY DEF Sextet
<1> HIDE DEF w
<1>3. /\ Sextet(v, 4 * g + 1) = (Group(v, g) \div 262144) % 64
      /\ Sextet(v, 4 * g + 2) = (Group(v, g) \div 4096) % 64
      /\ Sextet(v, 4 * g + 3) = (Group(v, g) \div 64) % 64
      /\ Sextet(v, 4 * g + 4) = (Group(v, g) \div 1) % 64
  <2>1. Sextet(v, 4 * g + 1) = (Group(v, g) \div w[1]) % 64
    BY <1>2, Places
  <2>2. Sextet(v, 4 * g + 2) = (Group(v, g) \div w[2]) % 64
    BY <1>2, Places
  <2>3. Sextet(v, 4 * g + 3) = (Group(v, g) \div w[3]) % 64
    BY <1>2, Places
  <2>4. Sextet(v, 4 * g + 4) = (Group(v, g) \div w[4]) % 64
    BY <1>2, Places
  <2> QED
    BY <1>1, <2>1, <2>2, <2>3, <2>4
<1> DEFINE b == ByteAt(v, 3 * g + 1)
           c == ByteAt(v, 3 * g + 2)
           d == ByteAt(v, 3 * g + 3)
<1>4. b \in Nat /\ c \in Nat /\ d \in Nat /\ b < 256 /\ c < 256 /\ d < 256
  BY ByteAtRange
<1>5. Group(v, g) = 65536 * b + 256 * c + d
  BY DEF Group
<1> HIDE DEF b, c, d
<1>6. /\ (Group(v, g) \div 262144) % 64 = b \div 4
      /\ (Group(v, g) \div 4096) % 64 = (b % 4) * 16 + c \div 16
      /\ (Group(v, g) \div 64) % 64 = (c % 16) * 4 + d \div 64
      /\ (Group(v, g) \div 1) % 64 = d % 64
  BY <1>4, <1>5, Sextets
<1>7. /\ Sextet(v, 4 * g + 1) = b \div 4
      /\ Sextet(v, 4 * g + 2) = (b % 4) * 16 + c \div 16
      /\ Sextet(v, 4 * g + 3) = (c % 16) * 4 + d \div 64
      /\ Sextet(v, 4 * g + 4) = d % 64
  BY <1>3, <1>6
<1> QED
  BY <1>7 DEF b, c, d

(* What the encoding is at the places of a group. *)
LEMMA ReferenceAt ==
  ASSUME NEW v \in Seq(Byte)
  PROVE  /\ Len(Reference(v)) = 4 * ((Len(v) + 2) \div 3)
         /\ \A k \in 1 .. 4 * ((Len(v) + 2) \div 3) :
              Reference(v)[k] = IF 6 * (k - 1) < 8 * Len(v) THEN Sextet(v, k) ELSE Pad
<1> DEFINE n == 4 * ((Len(v) + 2) \div 3)
<1>1. n \in Nat
  OBVIOUS
<1> HIDE DEF n
<1>2. Reference(v) = [k \in 1 .. n |->
                        IF 6 * (k - 1) < 8 * Len(v) THEN Sextet(v, k) ELSE Pad]
  BY DEF Reference, n
<1>3. Len(Reference(v)) = n
  BY <1>1, <1>2
<1> QED
  BY <1>2, <1>3 DEF n

LEMMA SextetRange ==
  ASSUME NEW v \in Seq(Byte), NEW k \in Nat \ {0}
  PROVE  Sextet(v, k) \in Nat /\ Sextet(v, k) < 64
<1> DEFINE g == (k - 1) \div 4
<1>1. g \in Nat
  OBVIOUS
<1>2. k \in {4 * g + 1, 4 * g + 2, 4 * g + 3, 4 * g + 4}
  OBVIOUS
<1> HIDE DEF g
<1>3. \A n \in {3 * g + 1, 3 * g + 2, 3 * g + 3} :
        ByteAt(v, n) \in Nat /\ ByteAt(v, n) < 256
  BY <1>1, ByteAtRange
<1>4. \A b, c \in Nat : b < 256 /\ c < 256 =>
        /\ b \div 4 \in Nat /\ b \div 4 < 64
        /\ (b % 4) * 16 + c \div 16 \in Nat /\ (b % 4) * 16 + c \div 16 < 64
        /\ (b % 16) * 4 + c \div 64 \in Nat /\ (b % 16) * 4 + c \div 64 < 64
        /\ c % 64 \in Nat /\ c % 64 < 64
  OBVIOUS
<1> DEFINE b == ByteAt(v, 3 * g + 1)
           c == ByteAt(v, 3 * g + 2)
           d == ByteAt(v, 3 * g + 3)
<1>5. /\ Sextet(v, 4 * g + 1) = b \div 4
      /\ Sextet(v, 4 * g + 2) = (b % 4) * 16 + c \div 16
      /\ Sextet(v, 4 * g + 3) = (c % 16) * 4 + d \div 64
      /\ Sextet(v, 4 * g + 4) = d % 64
  BY <1>1, GroupSextets
<1>6. b \in Nat /\ c \in Nat /\ d \in Nat /\ b < 256 /\ c < 256 /\ d < 256
  BY <1>3
<1> HIDE DEF b, c, d
<1>7. \A n \in {4 * g + 1, 4 * g + 2, 4 * g + 3, 4 * g + 4} :
        Sextet(v, n) \in Nat /\ Sextet(v, n) < 64
  BY <1>4, <1>5, <1>6
<1> QED
  BY <1>2, <1>7

LEMMA NoNewlines ==
  ASSUME NEW v \in Seq(Byte), NEW k \in 1 .. Len(Reference(v))
  PROVE  Reference(v)[k] # Newline
<1>1. /\ Len(Reference(v)) = 4 * ((Len(v) + 2) \div 3)
      /\ Reference(v)[k] = IF 6 * (k - 1) < 8 * Len(v) THEN Sextet(v, k) ELSE Pad
  BY ReferenceAt
<1>2. k \in Nat \ {0}
  BY <1>1
<1>3. Sextet(v, k) \in Nat /\ Sextet(v, k) < 64
  BY <1>2, SextetRange
<1> QED
  BY <1>1, <1>3 DEF Pad, Newline

-----------------------------------------------------------------------------
(* Characters that are no newlines *)

LEMMA InkType ==
  ASSUME NEW t, NEW p \in Nat
  PROVE  Ink(t, p) \in Nat /\ Ink(t, 0) = 0
<1>1. IsFiniteSet({q \in 1 .. p : t[q] # Newline})
  <2>1. IsFiniteSet(1 .. p)
    BY FS_Interval
  <2> QED
    BY <2>1, FS_Subset
<1>2. {q \in 1 .. 0 : t[q] # Newline} = {}
  OBVIOUS
<1> QED
  BY <1>1, <1>2, FS_CardinalityType, FS_EmptySet DEF Ink

(* One character more. *)
LEMMA InkStep ==
  ASSUME NEW t, NEW p \in Nat
  PROVE  Ink(t, p + 1) = IF t[p + 1] = Newline THEN Ink(t, p) ELSE Ink(t, p) + 1
<1> DEFINE S(n) == {q \in 1 .. n : t[q] # Newline}
<1>1. IsFiniteSet(S(p)) /\ p + 1 \notin S(p)
  <2>1. IsFiniteSet(1 .. p)
    BY FS_Interval
  <2>2. p + 1 \notin 1 .. p
    OBVIOUS
  <2> QED
    BY <2>1, <2>2, FS_Subset
<1>2. 1 .. p + 1 = (1 .. p) \cup {p + 1}
  OBVIOUS
<1>3. S(p + 1) = IF t[p + 1] = Newline THEN S(p) ELSE S(p) \cup {p + 1}
  BY <1>2
<1>4. Ink(t, p) = Cardinality(S(p)) /\ Ink(t, p + 1) = Cardinality(S(p + 1))
  BY DEF Ink
<1> HIDE DEF S
<1>5. Cardinality(S(p) \cup {p + 1}) = Cardinality(S(p)) + 1
  BY <1>1, FS_AddElement
<1> QED
  BY <1>3, <1>4, <1>5

(* Texts that agree so far. *)
LEMMA InkSame ==
  ASSUME NEW s, NEW t, NEW p \in Nat, \A q \in 1 .. p : s[q] = t[q]
  PROVE  Ink(s, p) = Ink(t, p)
<1>1. {q \in 1 .. p : s[q] # Newline} = {q \in 1 .. p : t[q] # Newline}
  OBVIOUS
<1> QED
  BY <1>1 DEF Ink

-----------------------------------------------------------------------------
(* A text with one character more, or one less *)

LEMMA AppendAt ==
  ASSUME NEW S, NEW t \in Seq(S), NEW c \in S
  PROVE  /\ Append(t, c) \in Seq(S) /\ Len(Append(t, c)) = Len(t) + 1
         /\ Append(t, c)[Len(t) + 1] = c /\ Append(t, c) # <<>>
         /\ \A p \in 1 .. Len(t) : Append(t, c)[p] = t[p]
<1>1. /\ Append(t, c) \in Seq(S) /\ Len(Append(t, c)) = Len(t) + 1
      /\ Append(t, c)[Len(t) + 1] = c
      /\ \A p \in 1 .. Len(t) : Append(t, c)[p] = t[p]
  OBVIOUS
<1>2. Append(t, c) # <<>>
  <2> DEFINE u == Append(t, c)
  <2>1. Len(u) = Len(t) + 1
    BY <1>1
  <2> HIDE DEF u
  <2>2. u # <<>>
    BY <2>1
  <2> QED
    BY <2>2 DEF u
<1> QED
  BY <1>1, <1>2

LEMMA AppendTo ==
  ASSUME NEW S, NEW s \in Seq(S), NEW t \in Seq(S), NEW c \in S
  PROVE  s \o Append(t, c) = Append(s \o t, c)
OBVIOUS

LEMMA OneAfter ==
  ASSUME NEW S, NEW s \in Seq(S), NEW t \in Seq(S), NEW c \in S
  PROVE  /\ s \o <<c>> = Append(s, c)
         /\ (s \o t) \o <<c>> = s \o Append(t, c)
<1>1. \A u \in Seq(S) : u \o <<c>> = Append(u, c)
  OBVIOUS
<1>2. s \o t \in Seq(S)
  OBVIOUS
<1>3. s \o Append(t, c) = Append(s \o t, c)
  BY AppendTo
<1> QED
  BY <1>1, <1>2, <1>3

(* The ends of an encoding, appended character by character. *)
LEMMA EndAppended ==
  ASSUME NEW S, NEW s \in Seq(S), NEW a \in S, NEW b \in S, NEW c \in S, NEW d \in S
  PROVE  /\ s \o <<a, b, c>> = Append(Append(Append(s, a), b), c)
         /\ s \o <<a, b, c, d>> = Append(Append(Append(Append(s, a), b), c), d)
<1>1. /\ <<a>> \in Seq(S) /\ <<a, b>> \in Seq(S) /\ <<a, b, c>> \in Seq(S)
      /\ <<a, b>> = Append(<<a>>, b)
      /\ <<a, b, c>> = Append(<<a, b>>, c)
      /\ <<a, b, c, d>> = Append(<<a, b, c>>, d)
  OBVIOUS
<1>2. s \o <<a>> = Append(s, a)
  BY OneAfter
<1>3. s \o <<a, b>> = Append(s \o <<a>>, b)
  BY <1>1, AppendTo
<1>4. s \o <<a, b, c>> = Append(s \o <<a, b>>, c)
  BY <1>1, AppendTo
<1>5. s \o <<a, b, c, d>> = Append(s \o <<a, b, c>>, d)
  BY <1>1, AppendTo
<1> QED
  BY <1>2, <1>3, <1>4, <1>5

(* All of a sequence but the last of it. *)
LEMMA AllButLast ==
  ASSUME NEW S, NEW s \in Seq(S), s # <<>>
  PROVE  LET t == SubSeq(s, 1, Len(s) - 1) IN
         /\ t \in Seq(S) /\ Len(t) = Len(s) - 1
         /\ \A p \in 1 .. Len(s) - 1 : t[p] = s[p]
         /\ s[Len(s)] \in S /\ Append(t, s[Len(s)]) = s
<1> DEFINE t == SubSeq(s, 1, Len(s) - 1)
<1>1. Len(s) \in Nat \ {0} /\ s[Len(s)] \in S
  OBVIOUS
<1>2. \A p \in 1 .. Len(s) - 1 : s[p] \in S
  OBVIOUS
<1>3. /\ t \in Seq(S)
      /\ Len(t) = IF 1 <= Len(s) - 1 THEN Len(s) - 1 - 1 + 1 ELSE 0
      /\ \A p \in 1 .. Len(s) - 1 - 1 + 1 : t[p] = s[1 + p - 1]
  BY <1>1, <1>2, SubSeqProperties
<1> HIDE DEF t
<1>4. Len(t) = Len(s) - 1
  <2>1. \A n \in Nat \ {0} : (IF 1 <= n - 1 THEN n - 1 - 1 + 1 ELSE 0) = n - 1
    OBVIOUS
  <2>2. Len(t) = IF 1 <= Len(s) - 1 THEN Len(s) - 1 - 1 + 1 ELSE 0
    BY <1>3
  <2> QED
    BY <1>1, <2>1, <2>2
<1>5. \A p \in 1 .. Len(s) - 1 : t[p] = s[p]
  BY <1>1, <1>3
<1>6. Append(t, s[Len(s)]) = s
  <2> DEFINE u == Append(t, s[Len(s)])
  <2>1. /\ u \in Seq(S) /\ Len(u) = Len(t) + 1 /\ u[Len(t) + 1] = s[Len(s)]
        /\ \A p \in 1 .. Len(t) : u[p] = t[p]
    BY <1>1, <1>3, AppendAt
  <2> HIDE DEF u
  <2>2. Len(u) = Len(s) /\ \A p \in 1 .. Len(u) : u[p] = s[p]
    BY <1>1, <1>4, <1>5, <2>1
  <2>3. u = s
    BY <2>1, <2>2, SeqEqual
  <2> QED
    BY <2>3 DEF u
<1> QED
  BY <1>1, <1>3, <1>4, <1>5, <1>6 DEF t

LEMMA EncodesSymbol ==
  ASSUME NEW t \in Seq(Code), NEW n \in Nat, NEW c \in Code, NEW v \in Seq(Byte),
         Encodes(v, t, n), n + 1 <= Len(Reference(v)), c = Reference(v)[n + 1]
  PROVE  Encodes(v, Append(t, c), n + 1)
<1> DEFINE u == Append(t, c)
<1>1. /\ Len(u) = Len(t) + 1 /\ u[Len(t) + 1] = c
      /\ \A p \in 1 .. Len(t) : u[p] = t[p]
  BY AppendAt
<1> HIDE DEF u
<1>2. c # Newline
  <2>1. n + 1 \in 1 .. Len(Reference(v))
    BY ReferenceAt
  <2> QED
    BY <2>1, NoNewlines
<1>3. \A p \in 0 .. Len(t) : Ink(u, p) = Ink(t, p)
  BY <1>1, InkSame
<1>4. Ink(u, Len(t) + 1) = n + 1
  <2>1. Ink(u, Len(t)) = n
    BY <1>3 DEF Encodes
  <2>2. u[Len(t) + 1] # Newline
    BY <1>1, <1>2
  <2> QED
    BY <2>1, <2>2, InkStep
<1>5. ASSUME NEW p \in 1 .. Len(u), u[p] # Newline
      PROVE  u[p] = Reference(v)[Ink(u, p)]
  <2>1. CASE p \in 1 .. Len(t)
    BY <1>1, <1>3, <1>5, <2>1 DEF Encodes
  <2>2. CASE p = Len(t) + 1
    BY <1>1, <1>4, <2>2
  <2> QED
    BY <1>1, <2>1, <2>2
<1> QED
  BY <1>1, <1>4, <1>5 DEF Encodes, u

LEMMA EncodesNewline ==
  ASSUME NEW v \in Seq(Byte), NEW t \in Seq(Code), NEW n \in Nat
  PROVE  Encodes(v, Append(t, Newline), n) <=> Encodes(v, t, n)
<1> DEFINE u == Append(t, Newline)
<1>1. /\ Len(u) = Len(t) + 1 /\ u[Len(t) + 1] = Newline
      /\ \A p \in 1 .. Len(t) : u[p] = t[p]
  BY AppendAt DEF Code
<1> HIDE DEF u
<1>2. \A p \in 0 .. Len(t) : Ink(u, p) = Ink(t, p)
  BY <1>1, InkSame
<1>3. Ink(u, Len(u)) = Ink(t, Len(t))
  BY <1>1, <1>2, InkStep
<1>4. ASSUME Encodes(v, t, n)
      PROVE  Encodes(v, u, n)
  BY <1>1, <1>2, <1>3, <1>4 DEF Encodes
<1>5. ASSUME Encodes(v, u, n)
      PROVE  Encodes(v, t, n)
  BY <1>1, <1>2, <1>3, <1>5 DEF Encodes
<1> QED
  BY <1>4, <1>5 DEF u

LEMMA LinesSymbol ==
  ASSUME NEW t \in Seq(Code), NEW n \in Nat, NEW c \in Code,
         Lines(t, n), n < CHARS_PER_LINE
  PROVE  Lines(Append(t, c), n + 1)
<1> DEFINE u == Append(t, c)
<1>1. /\ Len(u) = Len(t) + 1 /\ \A p \in 1 .. Len(t) : u[p] = t[p]
  BY AppendAt
<1> HIDE DEF u
<1>2. CHARS_PER_LINE \in Nat
  BY Base64Assumption
<1>3. n = Len(t) \/ t[Len(t) - n] = Newline
  BY DEF Lines
<1>4. ASSUME NEW i \in 1 .. Len(u) - CHARS_PER_LINE
      PROVE  \E j \in i .. i + CHARS_PER_LINE : u[j] = Newline
  <2>1. CASE i <= Len(t) - CHARS_PER_LINE
    <3>1. PICK j \in i .. i + CHARS_PER_LINE : t[j] = Newline
      BY <1>2, <2>1 DEF Lines, Fits
    <3>2. j \in 1 .. Len(t)
      BY <1>2, <2>1
    <3> QED
      BY <1>1, <3>1, <3>2
  <2>2. CASE i = Len(t) + 1 - CHARS_PER_LINE
    <3>1. /\ Len(t) - n \in i .. i + CHARS_PER_LINE
          /\ Len(t) - n \in 1 .. Len(t) /\ n # Len(t)
      BY <1>2, <2>2
    <3> QED
      BY <1>1, <1>3, <3>1
  <2> QED
    BY <1>1, <1>2, <2>1, <2>2
<1>5. n + 1 = Len(u) \/ u[Len(u) - (n + 1)] = Newline
  <2>1. CASE n = Len(t)
    BY <1>1, <2>1
  <2>2. CASE n # Len(t)
    <3>1. Len(u) - (n + 1) = Len(t) - n /\ Len(t) - n \in 1 .. Len(t)
      BY <1>1, <2>2 DEF Lines
    <3> QED
      BY <1>1, <1>3, <2>2, <3>1
  <2> QED
    BY <2>1, <2>2
<1>6. n + 1 \in 0 .. Len(u)
  BY <1>1 DEF Lines
<1> QED
  BY <1>4, <1>5, <1>6 DEF Lines, Fits, u

LEMMA LinesNewline ==
  ASSUME NEW t \in Seq(Code), NEW n \in Nat, Lines(t, n), n <= CHARS_PER_LINE
  PROVE  Lines(Append(t, Newline), 0)
<1> DEFINE u == Append(t, Newline)
<1>1. /\ Len(u) = Len(t) + 1 /\ u[Len(t) + 1] = Newline
      /\ \A p \in 1 .. Len(t) : u[p] = t[p]
  BY AppendAt DEF Code
<1> HIDE DEF u
<1>2. CHARS_PER_LINE \in Nat
  BY Base64Assumption
<1>3. ASSUME NEW i \in 1 .. Len(u) - CHARS_PER_LINE
      PROVE  \E j \in i .. i + CHARS_PER_LINE : u[j] = Newline
  <2>1. CASE i <= Len(t) - CHARS_PER_LINE
    <3>1. PICK j \in i .. i + CHARS_PER_LINE : t[j] = Newline
      BY <1>2, <2>1 DEF Lines, Fits
    <3>2. j \in 1 .. Len(t)
      BY <1>2, <2>1
    <3> QED
      BY <1>1, <3>1, <3>2
  <2>2. CASE i = Len(t) + 1 - CHARS_PER_LINE
    <3>1. Len(t) + 1 \in i .. i + CHARS_PER_LINE
      BY <1>2, <2>2
    <3> QED
      BY <1>1, <3>1
  <2> QED
    BY <1>1, <1>2, <2>1, <2>2
<1>4. u[Len(u) - 0] = Newline /\ 0 \in 0 .. Len(u)
  BY <1>1
<1> QED
  BY <1>3, <1>4 DEF Lines, Fits, u

(* The beginning of a text that fits, fits. *)
LEMMA FitsBefore ==
  ASSUME NEW s, NEW t, Len(s) \in Nat, Len(t) \in Nat, Len(s) <= Len(t),
         \A p \in 1 .. Len(s) : s[p] = t[p], Fits(t)
  PROVE  Fits(s)
<1>1. CHARS_PER_LINE \in Nat
  BY Base64Assumption
<1>2. ASSUME NEW i \in 1 .. Len(s) - CHARS_PER_LINE
      PROVE  \E j \in i .. i + CHARS_PER_LINE : s[j] = Newline
  <2>1. PICK j \in i .. i + CHARS_PER_LINE : t[j] = Newline
    BY <1>1 DEF Fits
  <2>2. j \in 1 .. Len(s)
    BY <1>1
  <2> QED
    BY <2>1, <2>2
<1> QED
  BY <1>2 DEF Fits
-----------------------------------------------------------------------------
(* What the three steps of the encoder write is the next of the encoding *)

LEMMA ByteIn ==
  ASSUME NEW v \in Seq(Byte), NEW n \in 1 .. Len(v)
  PROVE  v[n] \in Nat /\ v[n] < 256 /\ ByteAt(v, n) = v[n]
<1>1. v[n] \in Byte
  OBVIOUS
<1> QED
  BY <1>1, ByteRange DEF ByteAt

LEMMA ReferenceGroup ==
  ASSUME NEW v \in Seq(Byte), NEW g \in Nat, 3 * g + 1 <= Len(v)
  PROVE  /\ Len(Reference(v)) \in Nat /\ 4 * g + 4 <= Len(Reference(v))
         /\ Reference(v)[4 * g + 1] = v[3 * g + 1] \div 4
         /\ 3 * g + 1 = Len(v) =>
              /\ Reference(v)[4 * g + 2] = (v[3 * g + 1] % 4) * 16
              /\ Reference(v)[4 * g + 3] = Pad /\ Reference(v)[4 * g + 4] = Pad
              /\ Len(Reference(v)) = 4 * g + 4
         /\ 3 * g + 2 <= Len(v) =>
              Reference(v)[4 * g + 2] = (v[3 * g + 1] % 4) * 16 + v[3 * g + 2] \div 16
         /\ 3 * g + 2 = Len(v) =>
              /\ Reference(v)[4 * g + 3] = (v[3 * g + 2] % 16) * 4
              /\ Reference(v)[4 * g + 4] = Pad
              /\ Len(Reference(v)) = 4 * g + 4
         /\ 3 * g + 3 <= Len(v) =>
              /\ Reference(v)[4 * g + 3] = (v[3 * g + 2] % 16) * 4 + v[3 * g + 3] \div 64
              /\ Reference(v)[4 * g + 4] = v[3 * g + 3] % 64
<1> DEFINE R == Reference(v)
           b == ByteAt(v, 3 * g + 1)
           c == ByteAt(v, 3 * g + 2)
           d == ByteAt(v, 3 * g + 3)
<1>1. /\ Len(R) = 4 * ((Len(v) + 2) \div 3)
      /\ \A k \in 1 .. Len(R) :
           R[k] = IF 6 * (k - 1) < 8 * Len(v) THEN Sextet(v, k) ELSE Pad
  BY ReferenceAt
<1>2. /\ Sextet(v, 4 * g + 1) = b \div 4
      /\ Sextet(v, 4 * g + 2) = (b % 4) * 16 + c \div 16
      /\ Sextet(v, 4 * g + 3) = (c % 16) * 4 + d \div 64
      /\ Sextet(v, 4 * g + 4) = d % 64
  BY GroupSextets
<1>3. /\ b = v[3 * g + 1] /\ b \in Nat /\ b < 256
      /\ c = IF 3 * g + 2 <= Len(v) THEN v[3 * g + 2] ELSE 0
      /\ d = IF 3 * g + 3 <= Len(v) THEN v[3 * g + 3] ELSE 0
      /\ c \in Nat /\ d \in Nat
  BY ByteAtRange DEF ByteAt
<1>4. /\ Len(R) \in Nat /\ 4 * g + 4 <= Len(R)
      /\ 3 * g + 2 >= Len(v) => Len(R) = 4 * g + 4
  BY <1>1
<1> HIDE DEF R, b, c, d
<1>5. /\ R[4 * g + 1] = Sextet(v, 4 * g + 1)
      /\ R[4 * g + 2] = Sextet(v, 4 * g + 2)
      /\ R[4 * g + 3] = IF 3 * g + 2 <= Len(v) THEN Sextet(v, 4 * g + 3) ELSE Pad
      /\ R[4 * g + 4] = IF 3 * g + 3 <= Len(v) THEN Sextet(v, 4 * g + 4) ELSE Pad
  BY <1>1, <1>4
<1>6. R[4 * g + 1] = v[3 * g + 1] \div 4
  BY <1>2, <1>3, <1>5
<1>7. ASSUME 3 * g + 1 = Len(v)
      PROVE  /\ R[4 * g + 2] = (v[3 * g + 1] % 4) * 16
             /\ R[4 * g + 3] = Pad /\ R[4 * g + 4] = Pad
  BY <1>2, <1>3, <1>5, <1>7
<1>8. ASSUME 3 * g + 2 <= Len(v)
      PROVE  R[4 * g + 2] = (v[3 * g + 1] % 4) * 16 + v[3 * g + 2] \div 16
  BY <1>2, <1>3, <1>5, <1>8
<1>9. ASSUME 3 * g + 2 = Len(v)
      PROVE  R[4 * g + 3] = (v[3 * g + 2] % 16) * 4 /\ R[4 * g + 4] = Pad
  <2>1. 3 * g + 2 <= Len(v) /\ ~(3 * g + 3 <= Len(v))
    BY <1>9
  <2>2. c = v[3 * g + 2] /\ d \div 64 = 0
    BY <1>3, <2>1
  <2>3. (c % 16) * 4 + 0 = (c % 16) * 4
    BY <1>3
  <2> QED
    BY <1>2, <1>5, <2>1, <2>2, <2>3
<1>10. ASSUME 3 * g + 3 <= Len(v)
       PROVE  /\ R[4 * g + 3] = (v[3 * g + 2] % 16) * 4 + v[3 * g + 3] \div 64
              /\ R[4 * g + 4] = v[3 * g + 3] % 64
  BY <1>2, <1>3, <1>5, <1>10
<1> QED
  BY <1>4, <1>6, <1>7, <1>8, <1>9, <1>10 DEF R

(* A symbol of the text that is no padding is a sextet of the value, and    *)
(* there is one for each six bits.                                          *)
LEMMA ReferenceSymbol ==
  ASSUME NEW v \in Seq(Byte), NEW k \in 1 .. Len(Reference(v))
  PROVE  /\ Reference(v)[k] \in Symbol =>
              k <= Symbols(v) /\ Reference(v)[k] = Sextet(v, k)
         /\ Reference(v)[k] \notin Symbol => k > Symbols(v)
         /\ Symbols(v) \in Nat /\ Symbols(v) <= Len(Reference(v))
         /\ Reference(v)[k] \in Code
<1>1. /\ Len(Reference(v)) = 4 * ((Len(v) + 2) \div 3)
      /\ Reference(v)[k] = IF 6 * (k - 1) < 8 * Len(v) THEN Sextet(v, k) ELSE Pad
  BY ReferenceAt
<1>2. k \in Nat \ {0}
  BY <1>1
<1>3. Sextet(v, k) \in Symbol
  BY <1>2, SextetRange, SymbolRange
<1>4. Pad \notin Symbol
  BY SymbolRange DEF Pad
<1>5. 6 * (k - 1) < 8 * Len(v) <=> k <= Symbols(v)
  BY <1>2 DEF Symbols
<1>6. Symbols(v) \in Nat /\ Symbols(v) <= Len(Reference(v))
  BY <1>1 DEF Symbols
<1>7. CASE 6 * (k - 1) < 8 * Len(v)
  BY <1>1, <1>3, <1>5, <1>6, <1>7 DEF Code
<1>8. CASE ~(6 * (k - 1) < 8 * Len(v))
  <2>1. ~(k <= Symbols(v)) /\ k > Symbols(v)
    BY <1>2, <1>5, <1>6, <1>8
  <2> QED
    BY <1>1, <1>4, <1>6, <1>8, <2>1 DEF Code
<1> QED
  BY <1>7, <1>8
-----------------------------------------------------------------------------
(* base64_encode_block: a byte *)

LEMMA Parameters ==
  /\ CHARS_PER_LINE \div 4 \in Nat \ {0}
  /\ CHARS_PER_LINE = 4 * (CHARS_PER_LINE \div 4)
  /\ TypeOK => value \in Seq(Byte) /\ size \in Nat /\ size >= 4
<1>1. /\ CHARS_PER_LINE \div 4 \in Nat \ {0}
      /\ CHARS_PER_LINE = 4 * (CHARS_PER_LINE \div 4)
  BY Base64Assumption
<1>2. ASSUME TypeOK
      PROVE  value \in Seq(Byte) /\ size \in Nat /\ size >= 4
  BY <1>2, Base64Assumption DEF TypeOK
<1> QED
  BY <1>1, <1>2

(* A line with a whole group to come has room for it. *)
LEMMA LineRoom ==
  ASSUME NEW m \in Nat, m < CHARS_PER_LINE \div 4
  PROVE  /\ 4 * m + 1 < CHARS_PER_LINE /\ 4 * m + 2 < CHARS_PER_LINE
         /\ 4 * m + 3 < CHARS_PER_LINE /\ 4 * m + 4 <= CHARS_PER_LINE
<1> DEFINE l == CHARS_PER_LINE \div 4
<1>1. l \in Nat /\ CHARS_PER_LINE = 4 * l /\ m < l
  BY Parameters
<1> HIDE DEF l
<1> QED
  BY ONLY <1>1, m \in Nat

(* The count of groups on a line stays below the length of a line. *)
LEMMA NextGroup ==
  ASSUME NEW k \in Nat, k < CHARS_PER_LINE \div 4
  PROVE  GroupsOnLine(k + 1) \in 0 .. CHARS_PER_LINE \div 4 - 1
<1> DEFINE l == CHARS_PER_LINE \div 4
<1>1. l \in Nat \ {0}
  BY Parameters
<1>2. GroupsOnLine(k + 1) = IF k + 1 = l THEN 0 ELSE k + 1
  BY DEF GroupsOnLine, LineFull
<1>3. k < l
  OBVIOUS
<1> HIDE DEF l
<1>4. GroupsOnLine(k + 1) \in 0 .. l - 1
  BY <1>1, <1>2, <1>3
<1> QED
  BY <1>4 DEF l

(* Where the encoder is, and what it has in hand. *)
LEMMA ByteInHand ==
  ASSUME Inv, EncodeByte
  PROVE  /\ Taken \in Nat /\ Taken' = Taken + 1 /\ Taken + 1 <= Len(value)
         /\ Here = value[Taken + 1] /\ Here \in Nat /\ Here < 256
         /\ out \in Seq(Code) /\ text \in Seq(Code) /\ text \o out \in Seq(Code)
         /\ value \in Seq(Byte) /\ value' = value /\ text' = text
         /\ enc.step \in {"A", "B", "C"}
         /\ enc.result \in Nat
         /\ enc.stepcount \in Nat /\ enc.stepcount < CHARS_PER_LINE \div 4
         /\ GroupInv
         /\ Progress(value, text \o out, Taken, enc.stepcount)
<1>1. /\ value \in Seq(Byte) /\ size \in Nat
      /\ begin \in Nat /\ length \in Nat /\ at \in Nat
      /\ CHARS_PER_LINE \div 4 \in Nat \ {0}
  BY Parameters DEF Inv, TypeOK
<1>2. phase = "encoding" /\ at < length /\ at' = at + 1 /\ begin' = begin
  BY DEF EncodeByte, Take
<1>3. out \in Seq(Code) /\ text \in Seq(Code) /\ text \o out \in Seq(Code)
  BY <1>2 DEF Inv, TypeOK, Coding
<1>4. Stream = value
  BY <1>2 DEF Stream
<1>5. begin + at + 1 \in 1 .. Len(value)
  BY <1>1, <1>2, <1>4 DEF Inv, StreamInv, Gcount
<1>6. /\ Taken \in Nat /\ Taken' = Taken + 1 /\ Taken + 1 <= Len(value)
      /\ Here = value[Taken + 1] /\ Here \in Nat /\ Here < 256
  BY <1>1, <1>2, <1>4, <1>5, ByteIn DEF Taken, Here
<1>7. /\ enc.step \in {"A", "B", "C"} /\ enc.result \in Nat
      /\ enc.stepcount \in Nat /\ enc.stepcount < CHARS_PER_LINE \div 4
  BY <1>1, SymbolRange DEF Inv, TypeOK
<1>8. value' = value /\ text' = text
  BY DEF EncodeByte
<1>9. GroupInv /\ Progress(value, text \o out, Taken, enc.stepcount)
  BY <1>2 DEF Inv, EncodeInv
<1> QED
  BY <1>1, <1>3, <1>6, <1>7, <1>8, <1>9

(* A symbol more in the text: n of the encoding and m on the line were, k   *)
(* and j are.                                                              *)
Text(v, t, n, m) == Encodes(v, t, n) /\ Lines(t, m)
More(v, n, m, k, j, c) ==
  /\ n \in Nat /\ m \in Nat /\ k = n + 1 /\ j = m + 1
  /\ k <= Len(Reference(v)) /\ m < CHARS_PER_LINE /\ c = Reference(v)[k]

LEMMA SymbolMore ==
  ASSUME NEW v \in Seq(Byte), NEW t \in Seq(Code), NEW n, NEW m, NEW k, NEW j, NEW c,
         Text(v, t, n, m), More(v, n, m, k, j, c)
  PROVE  c \in Code /\ Append(t, c) \in Seq(Code) /\ Text(v, Append(t, c), k, j)
<1>1. k \in 1 .. Len(Reference(v))
  BY ReferenceAt DEF More
<1>2. c \in Code
  BY <1>1, ReferenceSymbol DEF More
<1>3. Append(t, c) \in Seq(Code)
  BY <1>2
<1>4. Encodes(v, Append(t, c), n + 1)
  BY <1>2, EncodesSymbol DEF More, Text
<1>5. Lines(Append(t, c), m + 1)
  BY <1>2, LinesSymbol DEF More, Text
<1> QED
  BY <1>2, <1>3, <1>4, <1>5 DEF More, Text

(* The same, of a text that continues another. *)
LEMMA OneMore ==
  ASSUME NEW v \in Seq(Byte), NEW s \in Seq(Code), NEW t \in Seq(Code),
         NEW n, NEW m, NEW k, NEW j, NEW c,
         Text(v, s \o t, n, m), More(v, n, m, k, j, c)
  PROVE  Append(t, c) \in Seq(Code) /\ Text(v, s \o Append(t, c), k, j)
<1>1. s \o t \in Seq(Code)
  OBVIOUS
<1>2. c \in Code /\ Text(v, Append(s \o t, c), k, j)
  BY <1>1, SymbolMore
<1>3. s \o Append(t, c) = Append(s \o t, c) /\ Append(t, c) \in Seq(Code)
  BY <1>2, AppendTo
<1> QED
  BY <1>2, <1>3

(* A newline more. *)
LEMMA NewlineMore ==
  ASSUME NEW v \in Seq(Byte), NEW s \in Seq(Code), NEW t \in Seq(Code),
         NEW n \in Nat, NEW m \in Nat, Encodes(v, s \o t, n), Lines(s \o t, m),
         m <= CHARS_PER_LINE
  PROVE  /\ Append(t, Newline) \in Seq(Code)
         /\ Encodes(v, s \o Append(t, Newline), n) /\ Lines(s \o Append(t, Newline), 0)
<1>1. Newline \in Code
  BY DEF Code
<1>2. s \o t \in Seq(Code)
  OBVIOUS
<1>3. s \o Append(t, Newline) = Append(s \o t, Newline) /\ Append(t, Newline) \in Seq(Code)
  BY <1>1, AppendTo
<1>4. Encodes(v, Append(s \o t, Newline), n)
  BY <1>2, EncodesNewline
<1>5. Lines(Append(s \o t, Newline), 0)
  BY <1>2, LinesNewline
<1> QED
  BY <1>3, <1>4, <1>5

LEMMA Thirds ==
  \A n \in Nat :
    /\ n \div 3 \in Nat /\ n % 3 \in 0 .. 2
    /\ n % 3 = 0 => n = 3 * (n \div 3) /\ (n + 1) \div 3 = n \div 3 /\ (n + 1) % 3 = 1
    /\ n % 3 = 1 => n = 3 * (n \div 3) + 1 /\ (n + 1) \div 3 = n \div 3 /\ (n + 1) % 3 = 2
    /\ n % 3 = 2 => n = 3 * (n \div 3) + 2 /\ (n + 1) \div 3 = n \div 3 + 1 /\ (n + 1) % 3 = 0
OBVIOUS

LEMMA FirstOfThree ==
  ASSUME NEW v \in Seq(Byte), NEW s \in Seq(Code), NEW t \in Seq(Code),
         NEW n \in Nat, NEW m \in Nat, n % 3 = 0, n + 1 <= Len(v),
         m < CHARS_PER_LINE \div 4, Progress(v, s \o t, n, m)
  PROVE  /\ Append(t, v[n + 1] \div 4) \in Seq(Code)
         /\ Progress(v, s \o Append(t, v[n + 1] \div 4), n + 1, m)
<1> DEFINE g == n \div 3
           c == v[n + 1] \div 4
<1>1. g \in Nat /\ n = 3 * g /\ (n + 1) \div 3 = g /\ (n + 1) % 3 = 1
  BY Thirds
<1> HIDE DEF g
<1>2. c = Reference(v)[4 * g + 1] /\ 4 * g + 1 <= Len(Reference(v))
  <2>1. 3 * g + 1 <= Len(v) /\ n + 1 = 3 * g + 1
    BY <1>1
  <2>2. /\ Len(Reference(v)) \in Nat /\ 4 * g + 4 <= Len(Reference(v))
        /\ Reference(v)[4 * g + 1] = v[3 * g + 1] \div 4
    BY <1>1, <2>1, ReferenceGroup
  <2>3. 4 * g + 1 <= Len(Reference(v))
    BY <1>1, <2>2
  <2> QED
    BY <2>1, <2>2, <2>3
<1> HIDE DEF c
<1>3. Encodes(v, s \o t, 4 * g) /\ Lines(s \o t, 4 * m)
  <2>1. 4 * g + 0 = 4 * g /\ 4 * m + 0 = 4 * m
    BY <1>1
  <2> QED
    BY <2>1 DEF Progress, g
<1>4. 4 * m < CHARS_PER_LINE /\ 4 * m \in Nat /\ 4 * g \in Nat
  BY <1>1, Parameters
<1>5. /\ Append(t, c) \in Seq(Code)
      /\ Encodes(v, s \o Append(t, c), 4 * g + 1) /\ Lines(s \o Append(t, c), 4 * m + 1)
  <2>1. /\ Text(v, s \o t, 4 * g, 4 * m)
        /\ More(v, 4 * g, 4 * m, 4 * g + 1, 4 * m + 1, c)
    BY <1>2, <1>3, <1>4 DEF Text, More
  <2> QED
    BY <2>1, OneMore DEF Text
<1> QED
  BY <1>1, <1>5 DEF Progress, c

LEMMA SecondOfThree ==
  ASSUME NEW v \in Seq(Byte), NEW s \in Seq(Code), NEW t \in Seq(Code),
         NEW n \in Nat, NEW m \in Nat, n % 3 = 1, n + 1 <= Len(v),
         m < CHARS_PER_LINE \div 4, Progress(v, s \o t, n, m)
  PROVE  LET c == (v[n] % 4) * 16 + v[n + 1] \div 16 IN
         /\ Append(t, c) \in Seq(Code)
         /\ Progress(v, s \o Append(t, c), n + 1, m)
<1> DEFINE g == n \div 3
           c == (v[n] % 4) * 16 + v[n + 1] \div 16
<1>1. g \in Nat /\ n = 3 * g + 1 /\ (n + 1) \div 3 = g /\ (n + 1) % 3 = 2
  BY Thirds
<1> HIDE DEF g
<1>2. c = Reference(v)[4 * g + 2] /\ 4 * g + 2 <= Len(Reference(v))
  <2>1. 3 * g + 1 <= Len(v) /\ 3 * g + 2 <= Len(v) /\ n + 1 = 3 * g + 2
    <3>1. Len(v) \in Nat /\ n + 1 <= Len(v) /\ g \in Nat /\ n = 3 * g + 1
      BY <1>1
    <3> QED
      BY ONLY <3>1
  <2>2. /\ Len(Reference(v)) \in Nat /\ 4 * g + 4 <= Len(Reference(v))
        /\ Reference(v)[4 * g + 2] = (v[3 * g + 1] % 4) * 16 + v[3 * g + 2] \div 16
    BY <1>1, <2>1, ReferenceGroup
  <2>3. 4 * g + 2 <= Len(Reference(v))
    BY <1>1, <2>2
  <2> QED
    BY <1>1, <2>1, <2>2, <2>3
<1> HIDE DEF c
<1>3. Encodes(v, s \o t, 4 * g + 1) /\ Lines(s \o t, 4 * m + 1)
  BY DEF Progress, g
<1>4. 4 * m + 1 < CHARS_PER_LINE /\ 4 * m + 1 \in Nat /\ 4 * g + 1 \in Nat
  BY <1>1, Parameters
<1>5. (4 * g + 1) + 1 = 4 * g + 2 /\ (4 * m + 1) + 1 = 4 * m + 2
  BY <1>1
<1>6. /\ Append(t, c) \in Seq(Code)
      /\ Encodes(v, s \o Append(t, c), 4 * g + 2) /\ Lines(s \o Append(t, c), 4 * m + 2)
  <2>1. /\ Text(v, s \o t, 4 * g + 1, 4 * m + 1)
        /\ More(v, 4 * g + 1, 4 * m + 1, 4 * g + 2, 4 * m + 2, c)
    BY <1>2, <1>3, <1>4, <1>5 DEF Text, More
  <2> QED
    BY <2>1, OneMore DEF Text
<1>7. Append(t, c) \in Seq(Code) /\ Progress(v, s \o Append(t, c), n + 1, m)
  BY <1>1, <1>6 DEF Progress
<1> QED
  BY <1>7 DEF c

LEMMA ThirdOfThree ==
  ASSUME NEW v \in Seq(Byte), NEW s \in Seq(Code), NEW t \in Seq(Code),
         NEW n \in Nat, NEW m \in Nat, n % 3 = 2, n + 1 <= Len(v),
         m < CHARS_PER_LINE \div 4, Progress(v, s \o t, n, m)
  PROVE  LET c == (v[n] % 16) * 4 + v[n + 1] \div 64
             u == Append(Append(t, c), v[n + 1] % 64)
             w == IF LineFull(m + 1) THEN Append(u, Newline) ELSE u
         IN w \in Seq(Code) /\ Progress(v, s \o w, n + 1, GroupsOnLine(m + 1))
<1> DEFINE g == n \div 3
           c == (v[n] % 16) * 4 + v[n + 1] \div 64
           d == v[n + 1] % 64
           u == Append(Append(t, c), d)
           w == IF LineFull(m + 1) THEN Append(u, Newline) ELSE u
<1>1. g \in Nat /\ n = 3 * g + 2 /\ (n + 1) \div 3 = g + 1 /\ (n + 1) % 3 = 0
  BY Thirds
<1> HIDE DEF g
<1>2. /\ c = Reference(v)[4 * g + 3] /\ 4 * g + 3 <= Len(Reference(v))
      /\ d = Reference(v)[4 * g + 4] /\ 4 * g + 4 <= Len(Reference(v))
  <2>1. 3 * g + 1 <= Len(v) /\ 3 * g + 3 <= Len(v) /\ n + 1 = 3 * g + 3
    BY <1>1
  <2>2. /\ Len(Reference(v)) \in Nat /\ 4 * g + 4 <= Len(Reference(v))
        /\ Reference(v)[4 * g + 3] = (v[3 * g + 2] % 16) * 4 + v[3 * g + 3] \div 64
        /\ Reference(v)[4 * g + 4] = v[3 * g + 3] % 64
    BY <1>1, <2>1, ReferenceGroup
  <2>3. 4 * g + 3 <= Len(Reference(v))
    BY <1>1, <2>2
  <2> QED
    BY <1>1, <2>1, <2>2, <2>3
<1> HIDE DEF c, d
<1>3. Encodes(v, s \o t, 4 * g + 2) /\ Lines(s \o t, 4 * m + 2)
  BY DEF Progress, g
<1>4. /\ 4 * m + 2 < CHARS_PER_LINE /\ 4 * m + 3 < CHARS_PER_LINE
      /\ 4 * m + 4 <= CHARS_PER_LINE /\ 4 * m + 4 \in Nat
      /\ 4 * m + 2 \in Nat /\ 4 * m + 3 \in Nat
      /\ 4 * g + 2 \in Nat /\ 4 * g + 3 \in Nat /\ 4 * g + 4 \in Nat
  BY <1>1, Parameters
<1>5. /\ (4 * g + 2) + 1 = 4 * g + 3 /\ (4 * g + 3) + 1 = 4 * g + 4
      /\ (4 * m + 2) + 1 = 4 * m + 3 /\ (4 * m + 3) + 1 = 4 * m + 4
  BY <1>1
<1>6. u \in Seq(Code) /\ Encodes(v, s \o u, 4 * g + 4) /\ Lines(s \o u, 4 * m + 4)
  <2>1. /\ Text(v, s \o t, 4 * g + 2, 4 * m + 2)
        /\ More(v, 4 * g + 2, 4 * m + 2, 4 * g + 3, 4 * m + 3, c)
        /\ More(v, 4 * g + 3, 4 * m + 3, 4 * g + 4, 4 * m + 4, d)
    BY <1>2, <1>3, <1>4, <1>5 DEF Text, More
  <2>2. Append(t, c) \in Seq(Code) /\ Text(v, s \o Append(t, c), 4 * g + 3, 4 * m + 3)
    BY <2>1, OneMore
  <2>3. ASSUME NEW x \in Seq(Code), Text(v, s \o x, 4 * g + 3, 4 * m + 3)
        PROVE  Append(x, d) \in Seq(Code) /\ Text(v, s \o Append(x, d), 4 * g + 4, 4 * m + 4)
    BY <2>1, <2>3, OneMore
  <2>4. u \in Seq(Code) /\ Text(v, s \o u, 4 * g + 4, 4 * m + 4)
    BY <2>2, <2>3
  <2> QED
    BY <2>4 DEF Text
<1>7. 4 * (g + 1) + 0 = 4 * g + 4 /\ 4 * 0 + 0 = 0 /\ 4 * (m + 1) + 0 = 4 * m + 4
  BY <1>1
<1> HIDE DEF u
<1>8. w \in Seq(Code) /\ Progress(v, s \o w, n + 1, GroupsOnLine(m + 1))
  <2>1. CASE LineFull(m + 1)
    <3>1. Append(u, Newline) \in Seq(Code) /\ Encodes(v, s \o Append(u, Newline), 4 * g + 4)
          /\ Lines(s \o Append(u, Newline), 0)
      BY <1>4, <1>6, NewlineMore
    <3> QED
      BY <1>1, <1>7, <2>1, <3>1 DEF Progress, GroupsOnLine
  <2>2. CASE ~LineFull(m + 1)
    BY <1>1, <1>6, <1>7, <2>2 DEF Progress, GroupsOnLine
  <2> QED
    BY <2>1, <2>2
<1> QED
  BY <1>8 DEF u, c, d

LEMMA Results ==
  \A b \in Nat : b < 256 =>
    (b % 4) * 16 \in Symbol /\ (b % 16) * 4 \in Symbol /\ b % 64 \in Symbol
BY SymbolRange

(* What a step of the encoder restores. *)
EncState == [step : {"A", "B", "C"}, result : Symbol,
             stepcount : 0 .. CHARS_PER_LINE \div 4 - 1]
Encoder ==
  /\ out \in Seq(Code) /\ enc \in EncState
  /\ GroupInv /\ Progress(value, text \o out, Taken, enc.stepcount)

LEMMA EncodeAStep ==
  ASSUME Inv, EncodeByte, EncodeA
  PROVE  Encoder'
<1>1. /\ Taken \in Nat /\ Taken' = Taken + 1 /\ Taken + 1 <= Len(value)
      /\ Here = value[Taken + 1] /\ Here \in Nat /\ Here < 256
      /\ out \in Seq(Code) /\ text \in Seq(Code)
      /\ value \in Seq(Byte) /\ value' = value /\ text' = text
      /\ enc.stepcount \in Nat /\ enc.stepcount < CHARS_PER_LINE \div 4
      /\ GroupInv /\ Progress(value, text \o out, Taken, enc.stepcount)
  BY ByteInHand
<1>2. enc.step = "A" /\ enc \in EncState
  BY DEF EncodeA, Inv, TypeOK, EncState
<1>3. out' = Append(out, value[Taken + 1] \div 4)
  BY <1>1 DEF EncodeA
<1>4. Taken % 3 = 0
  BY <1>1, <1>2 DEF GroupInv
<1>5. /\ out' \in Seq(Code)
      /\ Progress(value, text \o out', Taken + 1, enc.stepcount)
  BY <1>1, <1>3, <1>4, FirstOfThree
<1>6. (Here % 4) * 16 \in Symbol
  BY <1>1, Results
<1>7. /\ enc' \in EncState /\ enc'.step = "B" /\ enc'.stepcount = enc.stepcount
      /\ enc'.result = (Here % 4) * 16
  BY <1>2, <1>6 DEF EncodeA, EncState
<1>8. (Taken + 1) % 3 = 1
  BY <1>1, <1>4, Thirds
<1>9. GroupInv'
  BY <1>1, <1>7, <1>8 DEF GroupInv
<1>10. Progress(value, text \o out, Taken, enc.stepcount)'
  BY <1>1, <1>5, <1>7 DEF Progress, Encodes, Lines, Fits
<1> QED
  BY <1>5, <1>7, <1>9, <1>10 DEF Encoder

LEMMA EncodeBStep ==
  ASSUME Inv, EncodeByte, EncodeB
  PROVE  Encoder'
<1>1. /\ Taken \in Nat /\ Taken' = Taken + 1 /\ Taken + 1 <= Len(value)
      /\ Here = value[Taken + 1] /\ Here \in Nat /\ Here < 256
      /\ out \in Seq(Code) /\ text \in Seq(Code)
      /\ value \in Seq(Byte) /\ value' = value /\ text' = text
      /\ enc.stepcount \in Nat /\ enc.stepcount < CHARS_PER_LINE \div 4
      /\ GroupInv /\ Progress(value, text \o out, Taken, enc.stepcount)
  BY ByteInHand
<1>2. enc.step = "B" /\ enc \in EncState
  BY DEF EncodeB, Inv, TypeOK, EncState
<1>3. Taken % 3 = 1 /\ enc.result = (value[Taken] % 4) * 16
  BY <1>1, <1>2 DEF GroupInv
<1>4. out' = Append(out, (value[Taken] % 4) * 16 + value[Taken + 1] \div 16)
  BY <1>1, <1>3 DEF EncodeB
<1>5. /\ out' \in Seq(Code)
      /\ Progress(value, text \o out', Taken + 1, enc.stepcount)
  BY <1>1, <1>3, <1>4, SecondOfThree
<1>6. (Here % 16) * 4 \in Symbol
  BY <1>1, Results
<1>7. /\ enc' \in EncState /\ enc'.step = "C" /\ enc'.stepcount = enc.stepcount
      /\ enc'.result = (Here % 16) * 4
  BY <1>2, <1>6 DEF EncodeB, EncState
<1>8. (Taken + 1) % 3 = 2
  BY <1>1, <1>3, Thirds
<1>9. GroupInv'
  BY <1>1, <1>7, <1>8 DEF GroupInv
<1>10. Progress(value, text \o out, Taken, enc.stepcount)'
  BY <1>1, <1>5, <1>7 DEF Progress, Encodes, Lines, Fits
<1> QED
  BY <1>5, <1>7, <1>9, <1>10 DEF Encoder

LEMMA EncodeCStep ==
  ASSUME Inv, EncodeByte, EncodeC
  PROVE  Encoder'
<1>1. /\ Taken \in Nat /\ Taken' = Taken + 1 /\ Taken + 1 <= Len(value)
      /\ Here = value[Taken + 1] /\ Here \in Nat /\ Here < 256
      /\ out \in Seq(Code) /\ text \in Seq(Code)
      /\ value \in Seq(Byte) /\ value' = value /\ text' = text
      /\ enc.stepcount \in Nat /\ enc.stepcount < CHARS_PER_LINE \div 4
      /\ GroupInv /\ Progress(value, text \o out, Taken, enc.stepcount)
  BY ByteInHand
<1>2. enc.step = "C"
  BY DEF EncodeC
<1>3. Taken % 3 = 2 /\ enc.result = (value[Taken] % 16) * 4
  BY <1>1, <1>2 DEF GroupInv
<1> DEFINE n == enc.stepcount + 1
           u == Append(Append(out, (value[Taken] % 16) * 4 + value[Taken + 1] \div 64),
                       value[Taken + 1] % 64)
           w == IF LineFull(n) THEN Append(u, Newline) ELSE u
<1>4. /\ out' = w
      /\ enc' = [step |-> "A", result |-> Here % 64, stepcount |-> GroupsOnLine(n)]
  BY <1>1, <1>3 DEF EncodeC
<1>5. w \in Seq(Code) /\ Progress(value, text \o w, Taken + 1, GroupsOnLine(n))
  BY <1>1, <1>3, ThirdOfThree
<1> HIDE DEF u, w
<1>6. Here % 64 \in Symbol
  BY <1>1, Results
<1>7. GroupsOnLine(n) \in 0 .. CHARS_PER_LINE \div 4 - 1
  BY <1>1, NextGroup
<1> HIDE DEF n
<1>8. /\ enc' \in EncState /\ enc'.step = "A" /\ enc'.stepcount = GroupsOnLine(n)
  BY <1>4, <1>6, <1>7 DEF EncState
<1>9. (Taken + 1) % 3 = 0
  BY <1>1, <1>3, Thirds
<1>10. GroupInv'
  BY <1>1, <1>8, <1>9 DEF GroupInv
<1>11. Progress(value, text \o out, Taken, enc.stepcount)'
  BY <1>1, <1>4, <1>5, <1>8 DEF Progress, Encodes, Lines, Fits
<1> QED
  BY <1>4, <1>5, <1>8, <1>10, <1>11 DEF Encoder

LEMMA EncodeByteFits ==
  ASSUME Inv, EncodeByte, Encoder'
  PROVE  BufferInv'
<1>1. /\ phase = "encoding" /\ phase' = "encoding" /\ at' = at + 1
      /\ at \in Nat /\ out \in Seq(Code)
  BY DEF EncodeByte, Take, Inv, TypeOK, Coding
<1>2. Len(out) \in Nat
  BY <1>1
<1>3. CASE EncodeA
  <2>1. Len(out') = Len(out) + 1
    BY <1>1, <1>3 DEF EncodeA
  <2>2. enc.step = "A" /\ enc'.step = "B"
    BY <1>3 DEF EncodeA, Inv, TypeOK
  <2>3. Len(out) <= 2 * at \/ (at = 1 /\ Len(out) <= 3)
    BY <1>1, <2>2 DEF Inv, BufferInv
  <2>4. Len(out') <= 2 * at'
    BY <1>1, <1>2, <2>1, <2>3
  <2> QED
    BY <1>1, <2>2, <2>4 DEF BufferInv
<1>4. CASE EncodeB
  <2>1. Len(out') = Len(out) + 1
    BY <1>1, <1>4 DEF EncodeB
  <2>2. enc.step = "B" /\ enc'.step = "C"
    BY <1>4 DEF EncodeB, Inv, TypeOK
  <2>3. Len(out) <= 2 * at
    BY <1>1, <2>2 DEF Inv, BufferInv
  <2>4. Len(out') <= 2 * at' - 1
    BY <1>1, <1>2, <2>1, <2>3
  <2> QED
    BY <1>1, <2>2, <2>4 DEF BufferInv
<1>5. CASE EncodeC
  <2>1. Len(out') <= Len(out) + 3 /\ Len(out') \in Nat
    <3> DEFINE u == Append(Append(out, enc.result + Here \div 64), Here % 64)
    <3>1. Len(u) = Len(out) + 2 /\ Len(Append(u, Newline)) = Len(out) + 3
      BY <1>1
    <3>2. out' = u \/ out' = Append(u, Newline)
      BY <1>5 DEF EncodeC
    <3> QED
      BY <1>2, <3>1, <3>2
  <2>2. enc.step = "C" /\ enc'.step = "A"
    BY <1>5 DEF EncodeC
  <2>3. Len(out) <= 2 * at - 1 \/ (at = 0 /\ Len(out) = 0)
    BY <1>1, <2>2 DEF Inv, BufferInv
  <2>4. Len(out') <= 2 * at' \/ (at' = 1 /\ Len(out') <= 3)
    BY <1>1, <1>2, <2>1, <2>3
  <2> QED
    BY <1>1, <2>2, <2>4 DEF BufferInv
<1> QED
  BY <1>3, <1>4, <1>5 DEF EncodeByte

LEMMA EncodeByteSafe ==
  ASSUME Inv, EncodeByte
  PROVE  Inv'
<1>1. Encoder'
  BY EncodeAStep, EncodeBStep, EncodeCStep DEF EncodeByte
<1>2. /\ phase = "encoding" /\ phase' = "encoding"
      /\ size' = size /\ value' = value /\ begin' = begin /\ length' = length
      /\ at' = at + 1 /\ at < length
      /\ dec' = dec /\ text' = text /\ plain' = plain
  BY DEF EncodeByte, Take
<1>3. TypeOK'
  <2>1. length \in Nat /\ at' \in 0 .. length'
    BY <1>2, Parameters DEF Inv, TypeOK
  <2>2. out' \in Seq(IF Coding' THEN Code ELSE Byte)
    BY <1>1, <1>2 DEF Encoder, Coding
  <2>3. enc' \in [step : {"A", "B", "C"}, result : Symbol,
                  stepcount : 0 .. CHARS_PER_LINE \div 4 - 1]
    BY <1>1 DEF Encoder, EncState
  <2> QED
    BY <1>2, <2>1, <2>2, <2>3 DEF Inv, TypeOK
<1>4. StreamInv'
  BY <1>2 DEF Inv, StreamInv, Stream, Gcount
<1>5. EncodeInv'
  BY <1>1, <1>2 DEF Inv, EncodeInv, Encoder
<1>6. DecodeInv' /\ RoundTrip'
  BY <1>2 DEF DecodeInv, RoundTrip
<1>7. BufferInv'
  BY <1>1, EncodeByteFits
<1> QED
  BY <1>3, <1>4, <1>5, <1>6, <1>7 DEF Inv

-----------------------------------------------------------------------------
(* base64_encode_block: the end of a block, and of the stream *)

(* A block is followed by the next, or by the end of the stream. *)
LEMMA NextBlockRead ==
  ASSUME Inv, NextBlock, phase \in {"encoding", "decoding"}, phase' = phase,
         size' = size, value' = value, phase = "decoding" => text' = text
  PROVE  /\ begin' \in Nat /\ length' \in 0 .. size /\ at' = 0
         /\ StreamInv' /\ Taken' = Taken
<1>1. /\ value \in Seq(Byte) /\ text \in Seq(Code) /\ size \in Nat
      /\ begin \in Nat /\ length \in Nat /\ at \in Nat
  BY Parameters DEF Inv, TypeOK
<1>2. Stream' = Stream /\ Len(Stream) \in Nat
  BY <1>1 DEF Stream
<1>3. begin \in 0 .. Len(Stream) /\ length = Gcount(Stream, begin)
  BY DEF Inv, StreamInv
<1>4. /\ at = length /\ begin' = begin + length
      /\ length' = Gcount(Stream, begin + length) /\ at' = 0
  BY DEF NextBlock
<1>5. begin + length \in 0 .. Len(Stream)
  BY <1>1, <1>2, <1>3 DEF Gcount
<1>6. Gcount(Stream, begin + length) \in 0 .. size
  BY <1>1, <1>2, <1>5 DEF Gcount
<1>7. StreamInv'
  BY <1>2, <1>4, <1>5 DEF StreamInv, Gcount
<1>8. Taken' = Taken
  BY <1>1, <1>4 DEF Taken
<1> QED
  BY <1>1, <1>4, <1>6, <1>7, <1>8

LEMMA AllTaken ==
  ASSUME Inv, EndOfStream, phase \in {"encoding", "decoding"}
  PROVE  Taken = Len(Stream)
<1>1. /\ value \in Seq(Byte) /\ text \in Seq(Code) /\ size \in Nat
      /\ begin \in Nat /\ length \in Nat /\ at \in Nat
  BY Parameters DEF Inv, TypeOK
<1>2. Len(Stream) \in Nat
  BY <1>1 DEF Stream
<1>3. begin \in 0 .. Len(Stream) /\ length = Gcount(Stream, begin)
  BY DEF Inv, StreamInv
<1>4. at = length /\ length < size
  BY DEF EndOfStream, LastRead
<1> QED
  BY <1>1, <1>2, <1>3, <1>4 DEF Taken, Gcount

LEMMA EncodeBlockSafe ==
  ASSUME Inv, EncodeBlock
  PROVE  Inv'
<1>1. /\ phase = "encoding" /\ phase' = "encoding" /\ NextBlock
      /\ size' = size /\ value' = value /\ enc' = enc /\ dec' = dec /\ plain' = plain
      /\ text' = text \o out /\ out' = <<>>
  BY DEF EncodeBlock
<1>2. /\ begin' \in Nat /\ length' \in 0 .. size /\ at' = 0
      /\ StreamInv' /\ Taken' = Taken
  BY <1>1, NextBlockRead
<1>3. text \in Seq(Code) /\ out \in Seq(Code)
  BY <1>1 DEF Inv, TypeOK, Coding
<1>4. text' \in Seq(Code) /\ out' \in Seq(Code) /\ text' \o out' = text \o out
  BY <1>1, <1>3
<1>5. TypeOK'
  <2>1. at' \in 0 .. length'
    BY <1>1, <1>2, Parameters DEF Inv, TypeOK
  <2>2. out' \in Seq(IF Coding' THEN Code ELSE Byte)
    BY <1>1, <1>4 DEF Coding
  <2> QED
    BY <1>1, <1>2, <1>4, <2>1, <2>2 DEF Inv, TypeOK
<1>6. EncodeInv'
  <2>1. GroupInv /\ plain = <<>> /\ Progress(value, text \o out, Taken, enc.stepcount)
    BY <1>1 DEF Inv, EncodeInv
  <2>2. GroupInv'
    BY <1>1, <1>2, <2>1 DEF GroupInv
  <2>3. Progress(value, text' \o out', Taken, enc.stepcount)
    BY <1>4, <2>1
  <2>4. Progress(value, text \o out, Taken, enc.stepcount)'
    BY <1>1, <1>2, <2>3 DEF Progress, Encodes, Lines, Fits
  <2> QED
    BY <1>1, <2>1, <2>2, <2>4 DEF EncodeInv
<1>7. DecodeInv' /\ RoundTrip'
  BY <1>1 DEF DecodeInv, RoundTrip
<1>8. BufferInv'
  <2>1. Len(out') = 0
    BY <1>1
  <2> QED
    BY <1>1, <1>2, <2>1 DEF BufferInv
<1> QED
  BY <1>2, <1>5, <1>6, <1>7, <1>8 DEF Inv

(* What the end of the stream adds to the text. *)
Whole(v, t) == Encodes(v, t, Len(Reference(v))) /\ Fits(t)

LEMMA LastNewline ==
  ASSUME NEW v \in Seq(Byte), NEW t \in Seq(Code), NEW m,
         Text(v, t, Len(Reference(v)), m), m \in Nat, m <= CHARS_PER_LINE
  PROVE  Append(t, Newline) \in Seq(Code) /\ Whole(v, Append(t, Newline))
<1>1. Len(Reference(v)) \in Nat /\ Newline \in Code
  BY ReferenceAt DEF Code
<1>2. Encodes(v, Append(t, Newline), Len(Reference(v)))
  BY <1>1, EncodesNewline DEF Text
<1>3. Lines(Append(t, Newline), 0)
  BY LinesNewline DEF Text
<1> QED
  BY <1>1, <1>2, <1>3 DEF Whole, Lines

LEMMA NoneLeft ==
  ASSUME NEW v \in Seq(Byte), NEW t \in Seq(Code), NEW m \in Nat,
         Len(v) % 3 = 0, m < CHARS_PER_LINE \div 4, Progress(v, t, Len(v), m)
  PROVE  Append(t, Newline) \in Seq(Code) /\ Whole(v, Append(t, Newline))
<1> DEFINE g == Len(v) \div 3
<1>1. g \in Nat /\ Len(v) = 3 * g
  BY Thirds
<1>2. Len(Reference(v)) = 4 * g
  BY <1>1, ReferenceAt
<1> HIDE DEF g
<1>3. 4 * g + 0 = 4 * g /\ 4 * m + 0 = 4 * m /\ 4 * m \in Nat /\ 4 * m <= CHARS_PER_LINE
  BY <1>1, Parameters
<1>4. Text(v, t, Len(Reference(v)), 4 * m)
  BY <1>2, <1>3 DEF Progress, Text, g
<1> QED
  BY <1>3, <1>4, LastNewline

LEMMA OneLeft ==
  ASSUME NEW v \in Seq(Byte), NEW t \in Seq(Code), NEW m \in Nat,
         Len(v) % 3 = 1, m < CHARS_PER_LINE \div 4, Progress(v, t, Len(v), m)
  PROVE  LET u == Append(Append(Append(t, (v[Len(v)] % 4) * 16), Pad), Pad) IN
         Append(u, Newline) \in Seq(Code) /\ Whole(v, Append(u, Newline))
<1> DEFINE g == Len(v) \div 3
           c == (v[Len(v)] % 4) * 16
           u == Append(Append(Append(t, c), Pad), Pad)
<1>1. g \in Nat /\ Len(v) = 3 * g + 1
  BY Thirds
<1> HIDE DEF g
<1>2. /\ Reference(v)[4 * g + 2] = c /\ Reference(v)[4 * g + 3] = Pad
      /\ Reference(v)[4 * g + 4] = Pad /\ Len(Reference(v)) = 4 * g + 4
  BY <1>1, ReferenceGroup
<1> HIDE DEF c
<1>3. /\ 4 * m + 1 < CHARS_PER_LINE /\ 4 * m + 2 < CHARS_PER_LINE
      /\ 4 * m + 3 < CHARS_PER_LINE /\ 4 * m + 4 <= CHARS_PER_LINE
  BY LineRoom
<1>4. /\ 4 * m + 1 \in Nat /\ 4 * m + 2 \in Nat /\ 4 * m + 3 \in Nat /\ 4 * m + 4 \in Nat
      /\ 4 * g + 1 \in Nat /\ 4 * g + 2 \in Nat /\ 4 * g + 3 \in Nat /\ 4 * g + 4 \in Nat
      /\ 4 * g + 2 <= 4 * g + 4 /\ 4 * g + 3 <= 4 * g + 4 /\ 4 * g + 4 <= 4 * g + 4
  BY <1>1
<1>5. /\ 4 * m + 2 = (4 * m + 1) + 1 /\ 4 * m + 3 = (4 * m + 2) + 1
      /\ 4 * m + 4 = (4 * m + 3) + 1
      /\ 4 * g + 2 = (4 * g + 1) + 1 /\ 4 * g + 3 = (4 * g + 2) + 1
      /\ 4 * g + 4 = (4 * g + 3) + 1
  BY <1>1
<1>6. /\ More(v, 4 * g + 1, 4 * m + 1, 4 * g + 2, 4 * m + 2, c)
      /\ More(v, 4 * g + 2, 4 * m + 2, 4 * g + 3, 4 * m + 3, Pad)
      /\ More(v, 4 * g + 3, 4 * m + 3, 4 * g + 4, 4 * m + 4, Pad)
  BY <1>2, <1>3, <1>4, <1>5 DEF More
<1>7. Text(v, t, 4 * g + 1, 4 * m + 1)
  BY <1>1 DEF Progress, Text, g
<1>8. u \in Seq(Code) /\ Text(v, u, Len(Reference(v)), 4 * m + 4)
  <2>1. Append(t, c) \in Seq(Code) /\ Text(v, Append(t, c), 4 * g + 2, 4 * m + 2)
    BY <1>6, <1>7, SymbolMore
  <2>2. ASSUME NEW x \in Seq(Code), Text(v, x, 4 * g + 2, 4 * m + 2)
        PROVE  Append(x, Pad) \in Seq(Code) /\ Text(v, Append(x, Pad), 4 * g + 3, 4 * m + 3)
    BY <1>6, <2>2, SymbolMore
  <2>3. ASSUME NEW x \in Seq(Code), Text(v, x, 4 * g + 3, 4 * m + 3)
        PROVE  Append(x, Pad) \in Seq(Code) /\ Text(v, Append(x, Pad), 4 * g + 4, 4 * m + 4)
    BY <1>6, <2>3, SymbolMore
  <2> QED
    BY <1>2, <2>1, <2>2, <2>3
<1> HIDE DEF u
<1>9. Append(u, Newline) \in Seq(Code) /\ Whole(v, Append(u, Newline))
  BY <1>3, <1>4, <1>8, LastNewline
<1> QED
  BY <1>9 DEF u, c

LEMMA TwoLeft ==
  ASSUME NEW v \in Seq(Byte), NEW t \in Seq(Code), NEW m \in Nat,
         Len(v) % 3 = 2, m < CHARS_PER_LINE \div 4, Progress(v, t, Len(v), m)
  PROVE  LET u == Append(Append(t, (v[Len(v)] % 16) * 4), Pad) IN
         Append(u, Newline) \in Seq(Code) /\ Whole(v, Append(u, Newline))
<1> DEFINE g == Len(v) \div 3
           c == (v[Len(v)] % 16) * 4
           u == Append(Append(t, c), Pad)
<1>1. g \in Nat /\ Len(v) = 3 * g + 2
  BY Thirds
<1> HIDE DEF g
<1>2. /\ Reference(v)[4 * g + 3] = c /\ Reference(v)[4 * g + 4] = Pad
      /\ Len(Reference(v)) = 4 * g + 4
  <2>1. 3 * g + 1 <= Len(v)
    BY <1>1
  <2> QED
    BY <1>1, <2>1, ReferenceGroup
<1> HIDE DEF c
<1>3. /\ 4 * m + 2 < CHARS_PER_LINE /\ 4 * m + 3 < CHARS_PER_LINE
      /\ 4 * m + 4 <= CHARS_PER_LINE
  BY LineRoom
<1>4. /\ 4 * m + 2 \in Nat /\ 4 * m + 3 \in Nat /\ 4 * m + 4 \in Nat
      /\ 4 * g + 2 \in Nat /\ 4 * g + 3 \in Nat /\ 4 * g + 4 \in Nat
      /\ 4 * g + 3 <= 4 * g + 4 /\ 4 * g + 4 <= 4 * g + 4
      /\ 4 * m + 3 = (4 * m + 2) + 1 /\ 4 * m + 4 = (4 * m + 3) + 1
      /\ 4 * g + 3 = (4 * g + 2) + 1 /\ 4 * g + 4 = (4 * g + 3) + 1
  BY <1>1
<1>5. /\ More(v, 4 * g + 2, 4 * m + 2, 4 * g + 3, 4 * m + 3, c)
      /\ More(v, 4 * g + 3, 4 * m + 3, 4 * g + 4, 4 * m + 4, Pad)
  BY <1>2, <1>3, <1>4 DEF More
<1>6. Text(v, t, 4 * g + 2, 4 * m + 2)
  BY <1>1 DEF Progress, Text, g
<1>7. u \in Seq(Code) /\ Text(v, u, Len(Reference(v)), 4 * m + 4)
  <2>1. Append(t, c) \in Seq(Code) /\ Text(v, Append(t, c), 4 * g + 3, 4 * m + 3)
    BY <1>5, <1>6, SymbolMore
  <2>2. ASSUME NEW x \in Seq(Code), Text(v, x, 4 * g + 3, 4 * m + 3)
        PROVE  Append(x, Pad) \in Seq(Code) /\ Text(v, Append(x, Pad), 4 * g + 4, 4 * m + 4)
    BY <1>5, <2>2, SymbolMore
  <2> QED
    BY <1>2, <2>1, <2>2
<1> HIDE DEF u
<1>8. Append(u, Newline) \in Seq(Code) /\ Whole(v, Append(u, Newline))
  BY <1>3, <1>4, <1>7, LastNewline
<1> QED
  BY <1>8 DEF u, c

(* base64_encode_blockend completes the encoding. *)
LEMMA BlockendEncodes ==
  ASSUME Inv, EncodeEnd
  PROVE  /\ text' \in Seq(Code) /\ Whole(value, text')
         /\ text' # <<>> /\ text'[Len(text')] = Newline
         /\ Blockend \in Seq(Code) /\ Len(Blockend) <= 4
<1> DEFINE t == text \o out
           m == enc.stepcount
           n == Len(value)
<1>1. /\ phase = "encoding" /\ EndOfStream /\ text' = t \o Blockend
      /\ text \in Seq(Code) /\ out \in Seq(Code) /\ t \in Seq(Code)
  BY DEF EncodeEnd, Inv, TypeOK, Coding
<1>2. value \in Seq(Byte) /\ n \in Nat
  BY Parameters DEF Inv
<1>3. Taken = n
  BY <1>1, AllTaken DEF Stream
<1>4. GroupInv /\ Progress(value, t, n, m)
  BY <1>1, <1>3 DEF Inv, EncodeInv
<1>5. m \in Nat /\ m < CHARS_PER_LINE \div 4
  BY Parameters DEF Inv, TypeOK
<1>6. enc.step \in {"A", "B", "C"} /\ enc.result \in Code
  BY DEF Inv, TypeOK, Code
<1>7. Newline \in Code /\ Pad \in Code
  BY DEF Code
<1> HIDE DEF t, m, n
<1>8. CASE enc.step = "A"
  <2>1. n % 3 = 0
    BY <1>3, <1>4, <1>8 DEF GroupInv
  <2>2. Append(t, Newline) \in Seq(Code) /\ Whole(value, Append(t, Newline))
    BY <1>1, <1>2, <1>4, <1>5, <2>1, NoneLeft DEF n
  <2>3. Blockend = <<Newline>> /\ t \o <<Newline>> = Append(t, Newline)
    BY <1>1, <1>7, <1>8 DEF Blockend
  <2>4. Append(t, Newline) # <<>> /\ Append(t, Newline)[Len(Append(t, Newline))] = Newline
    BY <1>1, <1>7
  <2>5. <<Newline>> \in Seq(Code) /\ Len(<<Newline>>) <= 4
    BY <1>7
  <2>6. text' = Append(t, Newline) /\ Blockend \in Seq(Code) /\ Len(Blockend) <= 4
    BY <1>1, <2>3, <2>5
  <2> QED
    BY <2>2, <2>4, <2>6
<1>9. CASE enc.step = "B"
  <2> DEFINE u == Append(Append(Append(t, enc.result), Pad), Pad)
  <2>1. n % 3 = 1 /\ enc.result = (value[n] % 4) * 16
    BY <1>3, <1>4, <1>9 DEF GroupInv
  <2>2. Append(u, Newline) \in Seq(Code) /\ Whole(value, Append(u, Newline))
    BY <1>1, <1>2, <1>4, <1>5, <2>1, OneLeft DEF n
  <2>3. Blockend = <<enc.result, Pad, Pad, Newline>>
    BY <1>9 DEF Blockend
  <2>4. t \o <<enc.result, Pad, Pad, Newline>> = Append(u, Newline)
    BY <1>1, <1>6, <1>7, EndAppended
  <2>5. u \in Seq(Code)
    BY <1>1, <1>6, <1>7
  <2> HIDE DEF u
  <2>6. Append(u, Newline) # <<>> /\ Append(u, Newline)[Len(Append(u, Newline))] = Newline
    BY <1>7, <2>5
  <2>7. /\ <<enc.result, Pad, Pad, Newline>> \in Seq(Code)
        /\ Len(<<enc.result, Pad, Pad, Newline>>) <= 4
    BY <1>6, <1>7
  <2>8. text' = Append(u, Newline) /\ Blockend \in Seq(Code) /\ Len(Blockend) <= 4
    BY <1>1, <2>3, <2>4, <2>7
  <2> QED
    BY <2>2, <2>6, <2>8
<1>10. CASE enc.step = "C"
  <2> DEFINE u == Append(Append(t, enc.result), Pad)
  <2>1. n % 3 = 2 /\ enc.result = (value[n] % 16) * 4
    BY <1>3, <1>4, <1>10 DEF GroupInv
  <2>2. Append(u, Newline) \in Seq(Code) /\ Whole(value, Append(u, Newline))
    BY <1>1, <1>2, <1>4, <1>5, <2>1, TwoLeft DEF n
  <2>3. Blockend = <<enc.result, Pad, Newline>>
    BY <1>10 DEF Blockend
  <2>4. t \o <<enc.result, Pad, Newline>> = Append(u, Newline)
    BY <1>1, <1>6, <1>7, EndAppended
  <2>5. u \in Seq(Code)
    BY <1>1, <1>6, <1>7
  <2> HIDE DEF u
  <2>6. Append(u, Newline) # <<>> /\ Append(u, Newline)[Len(Append(u, Newline))] = Newline
    BY <1>7, <2>5
  <2>7. /\ <<enc.result, Pad, Newline>> \in Seq(Code)
        /\ Len(<<enc.result, Pad, Newline>>) <= 4
    BY <1>6, <1>7
  <2>8. text' = Append(u, Newline) /\ Blockend \in Seq(Code) /\ Len(Blockend) <= 4
    BY <1>1, <2>3, <2>4, <2>7
  <2> QED
    BY <2>2, <2>6, <2>8
<1> QED
  BY <1>6, <1>8, <1>9, <1>10

LEMMA EncodeEndSafe ==
  ASSUME Inv, EncodeEnd
  PROVE  Inv'
<1>1. /\ phase = "encoding" /\ phase' = "encoded"
      /\ size' = size /\ value' = value /\ begin' = begin /\ length' = length
      /\ at' = at /\ dec' = dec /\ plain' = plain
      /\ out' = Blockend /\ enc' = EncodeStart
  BY DEF EncodeEnd
<1>2. /\ text' \in Seq(Code) /\ Whole(value, text')
      /\ text' # <<>> /\ text'[Len(text')] = Newline
      /\ Blockend \in Seq(Code) /\ Len(Blockend) <= 4
  BY BlockendEncodes
<1>3. TypeOK'
  <2>1. enc' \in [step : {"A", "B", "C"}, result : Symbol,
                  stepcount : 0 .. CHARS_PER_LINE \div 4 - 1]
    BY <1>1, SymbolRange, Parameters DEF EncodeStart
  <2>2. out' \in Seq(IF Coding' THEN Code ELSE Byte)
    BY <1>1, <1>2 DEF Coding
  <2> QED
    BY <1>1, <1>2, <2>1, <2>2 DEF Inv, TypeOK
<1>4. EncodeInv'
  <2>1. plain' = <<>>
    BY <1>1 DEF Inv, EncodeInv
  <2>2. Whole(value', text')
    BY <1>1, <1>2
  <2> QED
    BY <1>1, <1>2, <2>1, <2>2 DEF EncodeInv, Whole, Encodes, Fits
<1>5. StreamInv' /\ DecodeInv' /\ RoundTrip'
  BY <1>1 DEF StreamInv, DecodeInv, RoundTrip
<1>6. BufferInv'
  BY <1>1, <1>2 DEF BufferInv
<1> QED
  BY <1>3, <1>4, <1>5, <1>6 DEF Inv

-----------------------------------------------------------------------------
(* KVPair::valueEncoded *)

LEMMA StripAt ==
  ASSUME NEW s \in Seq(Code), s # <<>>, s[Len(s)] = Newline
  PROVE  /\ Strip(s) \in Seq(Code) /\ Len(Strip(s)) = Len(s) - 1
         /\ \A p \in 1 .. Len(s) - 1 : Strip(s)[p] = s[p]
         /\ Append(Strip(s), Newline) = s
<1>1. Strip(s) = SubSeq(s, 1, Len(s) - 1)
  BY DEF Strip
<1> QED
  BY <1>1, AllButLast

LEMMA ValueEncodedSafe ==
  ASSUME Inv, ValueEncoded
  PROVE  Inv'
<1>1. /\ phase = "encoded" /\ phase' = "decoding" /\ text' = Strip(text)
      /\ begin' = 0 /\ length' = Gcount(Strip(text), 0) /\ at' = 0
      /\ out' = <<0>> /\ dec' = "a"
      /\ size' = size /\ value' = value /\ enc' = enc /\ plain' = plain
  BY DEF ValueEncoded
<1>2. /\ text \in Seq(Code) /\ value \in Seq(Byte) /\ size \in Nat
      /\ plain = <<>> /\ Whole(value, text)
      /\ text # <<>> /\ text[Len(text)] = Newline
  BY <1>1, Parameters DEF Inv, TypeOK, EncodeInv, Whole
<1>3. /\ text' \in Seq(Code) /\ Len(text') = Len(text) - 1
      /\ \A p \in 1 .. Len(text) - 1 : text'[p] = text[p]
      /\ Append(text', Newline) = text
  BY <1>1, <1>2, StripAt
<1>4. Encodes(value, text', Len(Reference(value)))
  <2>1. Len(Reference(value)) \in Nat
    BY <1>2, ReferenceAt
  <2>2. Encodes(value, Append(text', Newline), Len(Reference(value)))
    BY <1>2, <1>3 DEF Whole
  <2> QED
    BY <1>2, <1>3, <2>1, <2>2, EncodesNewline
<1>5. Fits(text')
  <2>1. Len(text') \in Nat /\ Len(text) \in Nat /\ Len(text') <= Len(text)
    BY <1>2, <1>3
  <2> QED
    BY <1>2, <1>3, <2>1, FitsBefore DEF Whole
<1>6. EncodeInv'
  BY <1>1, <1>4, <1>5 DEF EncodeInv, Encodes, Fits
<1>7. 0 \in Byte /\ out' \in Seq(Byte) /\ Len(out') = 1
  BY <1>1, ByteRange
<1>8. length' \in 0 .. size /\ length' \in Nat
  BY <1>1, <1>2, <1>3 DEF Gcount
<1>9. TypeOK'
  <2>1. out' \in Seq(IF Coding' THEN Code ELSE Byte)
    BY <1>1, <1>7 DEF Coding
  <2>2. begin' \in Nat /\ at' \in 0 .. length' /\ length' \in 0 .. size'
    BY <1>1, <1>8
  <2> QED
    BY <1>1, <1>3, <2>1, <2>2 DEF Inv, TypeOK
<1>10. StreamInv'
  BY <1>1, <1>2, <1>3 DEF StreamInv, Stream, Gcount
<1>11. DecodeInv'
  <2>1. Taken' = 0
    BY <1>1 DEF Taken
  <2>2. Symbols(value') \in Nat
    BY <1>1, <1>2 DEF Symbols
  <2>3. TakenSymbols' = 0
    <3>1. Ink(text', 0) = 0
      BY InkType
    <3> QED
      BY <2>1, <2>2, <3>1 DEF TakenSymbols, Ink
  <2>4. Complete3(0) = 0 /\ 0 % 4 = 0
    BY DEF Complete3
  <2>5. plain' \o out' = <<0>> /\ Len(<<0>>) = 1 /\ out' # <<>>
    BY <1>1, <1>2
  <2>6. Decoded(value', plain' \o out', 0)
    BY <2>4, <2>5 DEF Decoded
  <2> QED
    BY <1>1, <2>3, <2>4, <2>5, <2>6 DEF DecodeInv, Where, Decoded, Partial
<1>12. RoundTrip' /\ BufferInv'
  BY <1>1, <1>7 DEF RoundTrip, BufferInv
<1> QED
  BY <1>6, <1>9, <1>10, <1>11, <1>12 DEF Inv
-----------------------------------------------------------------------------
(* What the symbols of a group make of it *)

LEMMA Quarters ==
  \A m \in Nat :
    LET g == m \div 4 IN
    /\ g \in Nat
    /\ m % 4 \in {0, 1, 2, 3}
    /\ m % 4 = 0 => m = 4 * g /\ (m + 1) % 4 = 1
                    /\ Complete3(m) = 3 * g /\ Complete3(m + 1) = 3 * g
    /\ m % 4 = 1 => m = 4 * g + 1 /\ (m + 1) % 4 = 2
                    /\ Complete3(m) = 3 * g /\ Complete3(m + 1) = 3 * g + 1
    /\ m % 4 = 2 => m = 4 * g + 2 /\ (m + 1) % 4 = 3
                    /\ Complete3(m) = 3 * g + 1 /\ Complete3(m + 1) = 3 * g + 2
    /\ m % 4 = 3 => m = 4 * g + 3 /\ (m + 1) % 4 = 0
                    /\ Complete3(m) = 3 * g + 2 /\ Complete3(m + 1) = 3 * g + 3
BY DEF Complete3

(* The bits of a byte, put together again. *)
LEMMA Bits ==
  \A b, c \in Nat : b < 256 /\ c < 256 =>
    /\ (b \div 4) * 4 < 256 /\ (b \div 16) * 16 < 256 /\ (b \div 64) * 64 < 256
    /\ (b \div 4) * 4 \in Nat /\ (b \div 16) * 16 \in Nat /\ (b \div 64) * 64 \in Nat
    /\ (b \div 4) * 4 + ((b % 4) * 16 + c \div 16) \div 16 = b
    /\ (((b % 4) * 16 + c \div 16) % 16) * 16 = (c \div 16) * 16
    /\ (b \div 16) * 16 + ((b % 16) * 4 + c \div 64) \div 4 = b
    /\ (((b % 16) * 4 + c \div 64) % 4) * 64 = (c \div 64) * 64
    /\ (b \div 64) * 64 + (b % 64) = b
BY SMTT(30)

LEMMA SymbolMeans ==
  ASSUME NEW v \in Seq(Byte), NEW m \in Nat, m + 1 <= Symbols(v)
  PROVE  LET c == Sextet(v, m + 1)
             i == Complete3(m) + 1
         IN /\ m % 4 = 0 =>
                 /\ Complete3(m + 1) = Complete3(m)
                 /\ c * 4 \in Byte /\ c * 4 = Partial(v, m + 1)
            /\ m % 4 # 0 => Complete3(m + 1) = i /\ i \in 1 .. Len(v)
            /\ m % 4 = 1 =>
                 /\ Partial(v, m) + c \div 16 = v[i]
                 /\ (c % 16) * 16 \in Byte /\ (c % 16) * 16 = Partial(v, m + 1)
            /\ m % 4 = 2 =>
                 /\ Partial(v, m) + c \div 4 = v[i]
                 /\ (c % 4) * 64 \in Byte /\ (c % 4) * 64 = Partial(v, m + 1)
            /\ m % 4 = 3 => Partial(v, m) + c = v[i]
<1> DEFINE g == m \div 4
           c == Sextet(v, m + 1)
           i == Complete3(m) + 1
           x == ByteAt(v, 3 * g + 1)
           y == ByteAt(v, 3 * g + 2)
           z == ByteAt(v, 3 * g + 3)
<1>1. /\ g \in Nat
      /\ m % 4 = 0 => m = 4 * g /\ (m + 1) % 4 = 1
                      /\ Complete3(m) = 3 * g /\ Complete3(m + 1) = 3 * g
      /\ m % 4 = 1 => m = 4 * g + 1 /\ (m + 1) % 4 = 2
                      /\ Complete3(m) = 3 * g /\ Complete3(m + 1) = 3 * g + 1
      /\ m % 4 = 2 => m = 4 * g + 2 /\ (m + 1) % 4 = 3
                      /\ Complete3(m) = 3 * g + 1 /\ Complete3(m + 1) = 3 * g + 2
      /\ m % 4 = 3 => m = 4 * g + 3 /\ (m + 1) % 4 = 0
                      /\ Complete3(m) = 3 * g + 2 /\ Complete3(m + 1) = 3 * g + 3
  BY Quarters
<1>2. m % 4 \in {0, 1, 2, 3}
  OBVIOUS
<1>3. Len(v) \in Nat /\ 6 * m < 8 * Len(v)
  BY DEF Symbols
<1> HIDE DEF g
<1>4. /\ Sextet(v, 4 * g + 1) = x \div 4
      /\ Sextet(v, 4 * g + 2) = (x % 4) * 16 + y \div 16
      /\ Sextet(v, 4 * g + 3) = (y % 16) * 4 + z \div 64
      /\ Sextet(v, 4 * g + 4) = z % 64
  BY <1>1, GroupSextets
<1>5. x \in Nat /\ y \in Nat /\ z \in Nat /\ x < 256 /\ y < 256 /\ z < 256
  <2>1. 3 * g + 1 \in Nat \ {0} /\ 3 * g + 2 \in Nat \ {0} /\ 3 * g + 3 \in Nat \ {0}
    BY <1>1
  <2> QED
    BY <2>1, ByteAtRange
<1>6. CASE m % 4 = 0
  <2>1. m = 4 * g /\ (m + 1) % 4 = 1 /\ Complete3(m) = 3 * g /\ Complete3(m + 1) = 3 * g
    BY <1>1, <1>6
  <2>2. c = x \div 4
    BY <1>4, <2>1
  <2>3. Partial(v, m + 1) = (x \div 4) * 4
    BY <2>1 DEF Partial
  <2>4. (x \div 4) * 4 \in Byte
    BY <1>5, Bits, ByteRange
  <2> HIDE DEF c, x
  <2>5. c * 4 \in Byte /\ c * 4 = Partial(v, m + 1)
    BY <2>2, <2>3, <2>4
  <2>6. Complete3(m + 1) = Complete3(m)
    BY <2>1
  <2>7. m % 4 # 1 /\ m % 4 # 2 /\ m % 4 # 3
    BY <1>6
  <2> QED
    BY <1>6, <2>5, <2>6, <2>7 DEF c
<1>7. CASE m % 4 = 1
  <2>1. m = 4 * g + 1 /\ (m + 1) % 4 = 2 /\ Complete3(m) = 3 * g /\ Complete3(m + 1) = 3 * g + 1
    BY <1>1, <1>7
  <2>2. c = (x % 4) * 16 + y \div 16
    <3>1. m + 1 = 4 * g + 2
      BY <1>1, <2>1
    <3> QED
      BY <1>4, <3>1
  <2>3. i = 3 * g + 1 /\ i \in 1 .. Len(v) /\ Complete3(m + 1) = i /\ x = v[i]
    BY <1>1, <1>3, <2>1 DEF ByteAt
  <2>4. Partial(v, m) = (x \div 4) * 4
    BY <1>7, <2>1 DEF Partial
  <2>5. Partial(v, m + 1) = (y \div 16) * 16
    <3>1. 3 * g + 1 + 1 = 3 * g + 2
      BY <1>1
    <3> QED
      BY <2>1, <3>1 DEF Partial
  <2> HIDE DEF c, x, y, i
  <2>6. Partial(v, m) + c \div 16 = x
    BY <1>5, <2>2, <2>4, Bits
  <2>7. (c % 16) * 16 = (y \div 16) * 16 /\ (y \div 16) * 16 \in Byte
    BY <1>5, <2>2, Bits, ByteRange
  <2>8. m % 4 # 0 /\ m % 4 # 2 /\ m % 4 # 3
    BY <1>7
  <2> QED
    BY <2>3, <2>5, <2>6, <2>7, <2>8 DEF c, i
<1>8. CASE m % 4 = 2
  <2>1. m = 4 * g + 2 /\ (m + 1) % 4 = 3 /\ Complete3(m) = 3 * g + 1 /\ Complete3(m + 1) = 3 * g + 2
    BY <1>1, <1>8
  <2>2. c = (y % 16) * 4 + z \div 64
    <3>1. m + 1 = 4 * g + 3
      BY <1>1, <2>1
    <3> QED
      BY <1>4, <3>1
  <2>3. i = 3 * g + 2 /\ i \in 1 .. Len(v) /\ Complete3(m + 1) = i /\ y = v[i]
    BY <1>1, <1>3, <2>1 DEF ByteAt
  <2>4. Partial(v, m) = (y \div 16) * 16
    <3>1. 3 * g + 1 + 1 = 3 * g + 2
      BY <1>1
    <3> QED
      BY <1>8, <2>1, <3>1 DEF Partial
  <2>5. Partial(v, m + 1) = (z \div 64) * 64
    <3>1. 3 * g + 2 + 1 = 3 * g + 3
      BY <1>1
    <3> QED
      BY <2>1, <3>1 DEF Partial
  <2> HIDE DEF c, y, z, i
  <2>6. Partial(v, m) + c \div 4 = y
    BY <1>5, <2>2, <2>4, Bits
  <2>7. (c % 4) * 64 = (z \div 64) * 64 /\ (z \div 64) * 64 \in Byte
    <3>1. (c % 4) * 64 = (z \div 64) * 64
      BY <1>5, <2>2, Bits
    <3>2. (z \div 64) * 64 \in Byte
      BY <1>5, Bits, ByteRange
    <3> QED
      BY <3>1, <3>2
  <2>8. m % 4 # 0 /\ m % 4 # 1 /\ m % 4 # 3
    BY <1>8
  <2> QED
    BY <2>3, <2>5, <2>6, <2>7, <2>8 DEF c, i
<1>9. CASE m % 4 = 3
  <2>1. m = 4 * g + 3 /\ Complete3(m) = 3 * g + 2 /\ Complete3(m + 1) = 3 * g + 3
    BY <1>1, <1>9
  <2>2. c = z % 64
    <3>1. m + 1 = 4 * g + 4
      BY <1>1, <2>1
    <3> QED
      BY <1>4, <3>1
  <2>3. i = 3 * g + 3 /\ i \in 1 .. Len(v) /\ Complete3(m + 1) = i /\ z = v[i]
    BY <1>1, <1>3, <2>1 DEF ByteAt
  <2>4. Partial(v, m) = (z \div 64) * 64
    <3>1. 3 * g + 2 + 1 = 3 * g + 3
      BY <1>1
    <3> QED
      BY <1>9, <2>1, <3>1 DEF Partial
  <2> HIDE DEF c, z, i
  <2>5. Partial(v, m) + c = z
    BY <1>5, <2>2, <2>4, Bits
  <2>6. m % 4 # 0 /\ m % 4 # 1 /\ m % 4 # 2
    BY <1>9
  <2> QED
    BY <2>3, <2>5, <2>6 DEF c, i
<1> QED
  BY <1>2, <1>6, <1>7, <1>8, <1>9
-----------------------------------------------------------------------------
(* base64_decode_block: a character *)

LEMMA Joined ==
  \A s, t \in Seq(Byte) :
    /\ s \o t \in Seq(Byte) /\ Len(s \o t) = Len(s) + Len(t)
    /\ \A i \in 1 .. Len(s) + Len(t) :
         (s \o t)[i] = IF i <= Len(s) THEN s[i] ELSE t[i - Len(s)]
BY ConcatProperties

(* The last cell changes. *)
LEMMA LastBecomes ==
  ASSUME NEW p \in Seq(Byte), NEW o \in Seq(Byte), o # <<>>, NEW x \in Byte
  PROVE  LET u == [o EXCEPT ![Len(o)] = x] IN
         /\ u \in Seq(Byte) /\ u # <<>> /\ Len(u) = Len(o)
         /\ p \o u \in Seq(Byte) /\ Len(p \o u) = Len(p \o o)
         /\ (p \o u)[Len(p \o o)] = x
         /\ \A i \in 1 .. Len(p \o o) - 1 : (p \o u)[i] = (p \o o)[i]
<1> DEFINE u == [o EXCEPT ![Len(o)] = x]
<1>1. /\ Len(o) \in Nat \ {0} /\ Len(p) \in Nat
      /\ u \in Seq(Byte) /\ Len(u) = Len(o) /\ u[Len(o)] = x
      /\ \A i \in 1 .. Len(o) - 1 : u[i] = o[i]
  OBVIOUS
<1> HIDE DEF u
<1>2. /\ p \o u \in Seq(Byte) /\ Len(p \o u) = Len(p) + Len(o)
      /\ \A i \in 1 .. Len(p) + Len(o) :
           (p \o u)[i] = IF i <= Len(p) THEN p[i] ELSE u[i - Len(p)]
  BY <1>1, Joined
<1>3. /\ Len(p \o o) = Len(p) + Len(o)
      /\ \A i \in 1 .. Len(p) + Len(o) :
           (p \o o)[i] = IF i <= Len(p) THEN p[i] ELSE o[i - Len(p)]
  BY Joined
<1>4. (p \o u)[Len(p) + Len(o)] = x
  BY <1>1, <1>2
<1>5. ASSUME NEW i \in 1 .. Len(p) + Len(o) - 1
      PROVE  (p \o u)[i] = (p \o o)[i]
  BY <1>1, <1>2, <1>3
<1>6. u # <<>>
  BY <1>1
<1>7. /\ u \in Seq(Byte) /\ u # <<>> /\ Len(u) = Len(o)
      /\ p \o u \in Seq(Byte) /\ Len(p \o u) = Len(p \o o)
      /\ (p \o u)[Len(p \o o)] = x
      /\ \A i \in 1 .. Len(p \o o) - 1 : (p \o u)[i] = (p \o o)[i]
  BY <1>1, <1>2, <1>3, <1>4, <1>5, <1>6
<1> QED
  BY <1>7 DEF u

LEMMA LastOfBoth ==
  ASSUME NEW p \in Seq(Byte), NEW o \in Seq(Byte), o # <<>>
  PROVE  (p \o o)[Len(p \o o)] = o[Len(o)] /\ o[Len(o)] \in Byte
<1>1. Len(o) \in Nat \ {0} /\ Len(p) \in Nat /\ o[Len(o)] \in Byte
  OBVIOUS
<1>2. /\ Len(p \o o) = Len(p) + Len(o)
      /\ \A i \in 1 .. Len(p) + Len(o) :
           (p \o o)[i] = IF i <= Len(p) THEN p[i] ELSE o[i - Len(p)]
  BY Joined
<1> QED
  BY <1>1, <1>2

(* The first symbol of a group. *)
Builds(v, o, m, u) ==
  /\ m \in Nat /\ m + 1 <= Symbols(v) /\ m % 4 = 0
  /\ u = [o EXCEPT ![Len(o)] = Sextet(v, m + 1) * 4]

LEMMA BuildDecodes ==
  ASSUME NEW v \in Seq(Byte), NEW p \in Seq(Byte), NEW o \in Seq(Byte), o # <<>>,
         NEW m, NEW u, Builds(v, o, m, u), Decoded(v, p \o o, m)
  PROVE  u \in Seq(Byte) /\ u # <<>> /\ Len(u) = Len(o) /\ Decoded(v, p \o u, m + 1)
<1> USE DEF Builds
<1> DEFINE x == Sextet(v, m + 1) * 4
<1>1. Complete3(m + 1) = Complete3(m) /\ x \in Byte /\ x = Partial(v, m + 1)
  BY SymbolMeans
<1>2. /\ u \in Seq(Byte) /\ u # <<>> /\ Len(u) = Len(o)
      /\ Len(p \o u) = Len(p \o o) /\ (p \o u)[Len(p \o o)] = x
      /\ \A i \in 1 .. Len(p \o o) - 1 : (p \o u)[i] = (p \o o)[i]
  BY <1>1, LastBecomes
<1>3. Complete3(m) \in Nat /\ Len(p \o o) = Complete3(m) + 1
  BY DEF Decoded, Complete3
<1>4. \A i \in 1 .. Complete3(m) : (p \o u)[i] = v[i]
  <2>1. \A i \in 1 .. Complete3(m) : i \in 1 .. Len(p \o o) - 1
    BY <1>3
  <2>2. \A i \in 1 .. Complete3(m) : (p \o o)[i] = v[i]
    BY DEF Decoded
  <2> QED
    BY <1>2, <2>1, <2>2
<1>5. Decoded(v, p \o u, m + 1)
  BY <1>1, <1>2, <1>3, <1>4 DEF Decoded
<1> QED
  BY <1>2, <1>5

(* The others complete a byte, and begin the next with y. *)
Completes(v, o, m, y, u) ==
  /\ m \in Nat /\ Complete3(m + 1) = Complete3(m) + 1 /\ Complete3(m) + 1 \in 1 .. Len(v)
  /\ y \in Byte
  /\ (m + 1) % 4 # 0 => y = Partial(v, m + 1)
  /\ u = Append([o EXCEPT ![Len(o)] = v[Complete3(m) + 1]], y)

LEMMA CompleteDecodes ==
  ASSUME NEW v \in Seq(Byte), NEW p \in Seq(Byte), NEW o \in Seq(Byte), o # <<>>,
         NEW m, NEW y, NEW u, Completes(v, o, m, y, u), Decoded(v, p \o o, m)
  PROVE  u \in Seq(Byte) /\ u # <<>> /\ Len(u) = Len(o) + 1 /\ Decoded(v, p \o u, m + 1)
<1> USE DEF Completes
<1> DEFINE x == v[Complete3(m) + 1]
           w == [o EXCEPT ![Len(o)] = x]
<1>0. y \in Byte
  OBVIOUS
<1>1. x \in Byte
  OBVIOUS
<1>2. /\ w \in Seq(Byte) /\ Len(w) = Len(o) /\ p \o w \in Seq(Byte)
      /\ Len(p \o w) = Len(p \o o) /\ (p \o w)[Len(p \o o)] = x
      /\ \A i \in 1 .. Len(p \o o) - 1 : (p \o w)[i] = (p \o o)[i]
  BY <1>1, LastBecomes
<1>3. u = Append(w, y)
  OBVIOUS
<1> HIDE DEF w, x
<1>4. /\ u \in Seq(Byte) /\ Len(u) = Len(o) + 1 /\ u # <<>>
      /\ p \o u = Append(p \o w, y)
  <2> USE <1>0
  <2> HIDE DEF Completes
  <2>1. ASSUME NEW z \in Seq(Byte)
        PROVE  /\ Append(z, y) \in Seq(Byte) /\ Len(Append(z, y)) = Len(z) + 1
               /\ Append(z, y) # <<>> /\ p \o Append(z, y) = Append(p \o z, y)
    <3>1. p \o Append(z, y) = Append(p \o z, y)
      BY AppendTo
    <3>2. /\ Append(z, y) \in Seq(Byte) /\ Len(Append(z, y)) = Len(z) + 1
          /\ Append(z, y) # <<>>
      BY AppendAt
    <3> QED
      BY <3>1, <3>2
  <2> QED
    BY <1>2, <1>3, <2>1
<1>5. /\ Len(Append(p \o w, y)) = Len(p \o w) + 1
      /\ Append(p \o w, y)[Len(p \o w) + 1] = y
      /\ \A i \in 1 .. Len(p \o w) : Append(p \o w, y)[i] = (p \o w)[i]
  <2>1. ASSUME NEW z \in Seq(Byte)
        PROVE  /\ Len(Append(z, y)) = Len(z) + 1 /\ Append(z, y)[Len(z) + 1] = y
               /\ \A i \in 1 .. Len(z) : Append(z, y)[i] = z[i]
    BY AppendAt
  <2> DEFINE d == p \o w
  <2>2. d \in Seq(Byte)
    BY <1>2
  <2> HIDE DEF d
  <2>3. /\ Len(Append(d, y)) = Len(d) + 1 /\ Append(d, y)[Len(d) + 1] = y
        /\ \A i \in 1 .. Len(d) : Append(d, y)[i] = d[i]
    BY <2>1, <2>2
  <2> QED
    BY <2>3 DEF d
<1>6. Complete3(m) \in Nat /\ Len(p \o o) = Complete3(m) + 1
  BY DEF Decoded, Complete3
<1>7. /\ Len(p \o u) = Complete3(m) + 2 /\ (p \o u)[Complete3(m) + 2] = y
      /\ (p \o u)[Complete3(m) + 1] = x
  <2>1. Len(p \o w) = Complete3(m) + 1 /\ Len(p \o w) + 1 = Complete3(m) + 2
    BY <1>2, <1>6
  <2>2. (p \o w)[Complete3(m) + 1] = x /\ Complete3(m) + 1 \in 1 .. Len(p \o w)
    BY <1>2, <1>6, <2>1
  <2> QED
    BY <1>4, <1>5, <2>1, <2>2
<1>8. \A i \in 1 .. Complete3(m) : (p \o u)[i] = v[i]
  <2>1. \A i \in 1 .. Complete3(m) :
          i \in 1 .. Len(p \o w) /\ i \in 1 .. Len(p \o o) - 1
    BY <1>2, <1>6
  <2> QED
    BY <1>2, <1>4, <1>5, <2>1 DEF Decoded
<1>9. \A i \in 1 .. Complete3(m) + 1 : (p \o u)[i] = v[i]
  <2>1. \A i \in 1 .. Complete3(m) + 1 : i \in 1 .. Complete3(m) \/ i = Complete3(m) + 1
    BY <1>6
  <2> QED
    BY <1>7, <1>8, <2>1 DEF x
<1>10. Decoded(v, p \o u, m + 1)
  <2>1. Len(p \o u) = Complete3(m + 1) + 1
    BY <1>6, <1>7
  <2>2. (p \o u)[Len(p \o u)] = y
    BY <1>7
  <2> QED
    BY <1>9, <2>1, <2>2 DEF Decoded
<1> QED
  BY <1>4, <1>10

LEMMA InkGrows ==
  ASSUME NEW t, NEW p \in Nat, NEW q \in Nat, p <= q
  PROVE  Ink(t, p) <= Ink(t, q)
<1> DEFINE P == {i \in 1 .. p : t[i] # Newline}
           Q == {i \in 1 .. q : t[i] # Newline}
<1>1. P \subseteq Q
  OBVIOUS
<1>2. IsFiniteSet(Q)
  <2>1. IsFiniteSet(1 .. q)
    BY FS_Interval
  <2> QED
    BY <2>1, FS_Subset
<1>3. Ink(t, p) = Cardinality(P) /\ Ink(t, q) = Cardinality(Q)
  BY DEF Ink
<1> HIDE DEF P, Q
<1> QED
  BY <1>1, <1>2, <1>3, FS_Subset

(* Where the decoder is, and what it has in hand. *)
LEMMA CharInHand ==
  ASSUME Inv, DecodeChar
  PROVE  /\ value \in Seq(Byte) /\ plain \in Seq(Byte) /\ out \in Seq(Byte) /\ out # <<>>
         /\ TakenSymbols \in Nat /\ Decoded(value, plain \o out, TakenSymbols)
         /\ Here \in Symbol =>
              /\ TakenSymbols + 1 <= Symbols(value) /\ TakenSymbols' = TakenSymbols + 1
              /\ Here = Sextet(value, TakenSymbols + 1)
         /\ Here \notin Symbol => TakenSymbols' = TakenSymbols
<1> DEFINE k == Taken
           i == Ink(text, k)
           S == Symbols(value)
<1>1. /\ phase = "decoding" /\ at < length /\ at' = at + 1
      /\ begin' = begin /\ text' = text /\ value' = value
  BY DEF DecodeChar, Take
<1>2. /\ value \in Seq(Byte) /\ plain \in Seq(Byte) /\ out \in Seq(Byte)
      /\ text \in Seq(Code) /\ size \in Nat
      /\ begin \in Nat /\ length \in Nat /\ at \in Nat
  BY <1>1, Parameters DEF Inv, TypeOK, Coding
<1>3. Stream = text
  BY <1>1 DEF Stream
<1>4. k \in Nat /\ k + 1 \in 1 .. Len(text) /\ Here = text[k + 1] /\ Taken' = k + 1
  BY <1>1, <1>2, <1>3 DEF Inv, StreamInv, Gcount, Taken, Here
<1>5. Encodes(value, text, Len(Reference(value)))
  BY <1>1 DEF Inv, EncodeInv
<1>6. /\ TakenSymbols = IF i <= S THEN i ELSE S
      /\ TakenSymbols' = IF Ink(text, k + 1) <= S THEN Ink(text, k + 1) ELSE S
  BY <1>1, <1>4 DEF TakenSymbols, Symbols, Ink
<1> HIDE DEF k
<1>7. i \in Nat
  BY <1>4, InkType
<1>8. Ink(text, k + 1) = IF text[k + 1] = Newline THEN i ELSE i + 1
  BY <1>4, InkStep
<1>9. Ink(text, k + 1) <= Len(Reference(value))
  <2>1. Len(text) \in Nat /\ k + 1 \in Nat /\ k + 1 <= Len(text)
    BY <1>2, <1>4
  <2>2. Ink(text, k + 1) <= Ink(text, Len(text))
    BY <2>1, InkGrows
  <2> QED
    BY <1>5, <2>2 DEF Encodes
<1>10. S \in Nat /\ Len(Reference(value)) \in Nat
  BY <1>2, ReferenceAt DEF Symbols
<1>11. TakenSymbols \in Nat
  BY <1>6, <1>7, <1>10
<1> HIDE DEF i, S
<1>12. CASE Here = Newline
  <2>1. TakenSymbols' = TakenSymbols
    BY <1>4, <1>6, <1>8, <1>12
  <2>2. Here \notin Symbol
    BY <1>12, SymbolRange DEF Newline
  <2> QED
    BY <1>1, <1>2, <1>11, <2>1, <2>2 DEF Inv, DecodeInv
<1>13. CASE Here # Newline
  <2>1. Ink(text, k + 1) = i + 1 /\ i + 1 \in 1 .. Len(Reference(value))
    BY <1>4, <1>7, <1>8, <1>9, <1>10, <1>13
  <2>2. Here = Reference(value)[i + 1]
    BY <1>4, <1>5, <1>13, <2>1 DEF Encodes
  <2>3. /\ Here \in Symbol => i + 1 <= S /\ Here = Sextet(value, i + 1)
        /\ Here \notin Symbol => i + 1 > S
    BY <1>2, <2>1, <2>2, ReferenceSymbol DEF S
  <2>4. Here \in Symbol => /\ TakenSymbols = i /\ TakenSymbols' = i + 1
    BY <1>6, <1>7, <1>10, <2>1, <2>3
  <2>5. Here \notin Symbol => TakenSymbols' = TakenSymbols
    BY <1>6, <1>7, <1>10, <2>1, <2>3
  <2>6. Here \in Symbol =>
          /\ TakenSymbols + 1 <= S /\ TakenSymbols' = TakenSymbols + 1
          /\ Here = Sextet(value, TakenSymbols + 1)
    BY <2>3, <2>4
  <2> QED
    BY <1>1, <1>2, <1>11, <2>5, <2>6 DEF Inv, DecodeInv, S
<1> QED
  BY <1>12, <1>13

(* What a character leaves of the decoder. *)
Decoder ==
  /\ out \in Seq(Byte) /\ out # <<>> /\ dec \in {"a", "b", "c", "d"}
  /\ Where(dec, TakenSymbols) /\ Decoded(value, plain \o out, TakenSymbols)

LEMMA WhereNow ==
  ASSUME NEW d, NEW m,
         \/ d = "a" /\ m % 4 = 0
         \/ d = "b" /\ m % 4 = 1
         \/ d = "c" /\ m % 4 = 2
         \/ d = "d" /\ m % 4 = 3
  PROVE  Where(d, m) /\ d \in {"a", "b", "c", "d"}
BY DEF Where

LEMMA DecoderNow ==
  ASSUME value' = value, plain' = plain, out' \in Seq(Byte), out' # <<>>,
         Where(dec', TakenSymbols'), dec' \in {"a", "b", "c", "d"},
         Decoded(value, plain \o out', TakenSymbols')
  PROVE  Decoder'
BY DEF Decoder, Where, Decoded, Partial

(* The symbols but the first of a group complete a byte. *)
LEMMA CompleteStep ==
  ASSUME Inv, DecodeChar, Here \in Symbol, NEW m, m = TakenSymbols, m % 4 # 0,
         NEW bits, NEW y \in Byte, out' = Append(Complete(bits), y),
         Partial(value, m) + bits = value[Complete3(m) + 1],
         (m + 1) % 4 # 0 => y = Partial(value, m + 1)
  PROVE  /\ out' \in Seq(Byte) /\ out' # <<>> /\ Len(out') = Len(out) + 1
         /\ Decoded(value, plain \o out', m + 1)
<1>1. /\ value \in Seq(Byte) /\ plain \in Seq(Byte) /\ out \in Seq(Byte) /\ out # <<>>
      /\ m \in Nat /\ Decoded(value, plain \o out, m) /\ m + 1 <= Symbols(value)
  BY CharInHand
<1>2. out[Len(out)] = Partial(value, m)
  <2>1. (plain \o out)[Len(plain \o out)] = out[Len(out)]
    BY <1>1, LastOfBoth
  <2> QED
    BY <1>1, <2>1 DEF Decoded
<1>3. Complete3(m + 1) = Complete3(m) + 1 /\ Complete3(m) + 1 \in 1 .. Len(value)
  BY <1>1, SymbolMeans
<1>4. Complete(bits) = [out EXCEPT ![Len(out)] = value[Complete3(m) + 1]]
  BY <1>1, <1>2 DEF Complete
<1>5. out' = Append([out EXCEPT ![Len(out)] = value[Complete3(m) + 1]], y)
  BY <1>4
<1>6. Completes(value, out, m, y, out')
  BY <1>1, <1>3, <1>5 DEF Completes
<1>7. value \in Seq(Byte) /\ plain \in Seq(Byte) /\ out \in Seq(Byte) /\ out # <<>>
  BY <1>1
<1>8. Decoded(value, plain \o out, m)
  BY <1>1
<1> QED
  BY ONLY <1>6, <1>7, <1>8, CompleteDecodes

LEMMA DecodeSymbolStep ==
  ASSUME Inv, DecodeChar, Here \in Symbol, DecodeA \/ DecodeB \/ DecodeC \/ DecodeD
  PROVE  Decoder' /\ Len(out') = IF dec = "a" THEN Len(out) ELSE Len(out) + 1
<1> DEFINE m == TakenSymbols
           c == Sextet(value, m + 1)
           i == Complete3(m) + 1
<1>1. /\ phase = "decoding" /\ value' = value /\ plain' = plain
      /\ value \in Seq(Byte) /\ plain \in Seq(Byte) /\ out \in Seq(Byte) /\ out # <<>>
      /\ m \in Nat /\ Decoded(value, plain \o out, m)
      /\ m + 1 <= Symbols(value) /\ TakenSymbols' = m + 1 /\ Here = c
  BY CharInHand DEF DecodeChar
<1>2. /\ dec = "a" <=> m % 4 = 0
      /\ dec = "b" <=> m % 4 = 1
      /\ dec = "c" <=> m % 4 = 2
      /\ dec = "d" <=> m % 4 = 3
  BY <1>1 DEF Inv, DecodeInv, Where
<1>3. /\ m % 4 = 0 => c * 4 \in Byte
      /\ m % 4 = 1 =>
           /\ Partial(value, m) + c \div 16 = value[i]
           /\ (c % 16) * 16 \in Byte /\ (c % 16) * 16 = Partial(value, m + 1)
      /\ m % 4 = 2 =>
           /\ Partial(value, m) + c \div 4 = value[i]
           /\ (c % 4) * 64 \in Byte /\ (c % 4) * 64 = Partial(value, m + 1)
      /\ m % 4 = 3 => Partial(value, m) + c = value[i]
  BY <1>1, SymbolMeans
<1>4. /\ m % 4 = 0 => (m + 1) % 4 = 1
      /\ m % 4 = 1 => (m + 1) % 4 = 2
      /\ m % 4 = 2 => (m + 1) % 4 = 3
      /\ m % 4 = 3 => (m + 1) % 4 = 0
  BY <1>1, Quarters
<1> HIDE DEF m, c
<1>5. CASE DecodeA
  <2>1. /\ m % 4 = 0 /\ dec = "a" /\ dec' = "b"
        /\ out' = [out EXCEPT ![Len(out)] = Sextet(value, m + 1) * 4]
    BY <1>1, <1>2, <1>5 DEF DecodeA, Build, c
  <2>2. out' \in Seq(Byte) /\ out' # <<>> /\ Len(out') = Len(out)
        /\ Decoded(value, plain \o out', m + 1)
    <3>1. Builds(value, out, m, out')
      BY <1>1, <2>1 DEF Builds
    <3>2. value \in Seq(Byte) /\ plain \in Seq(Byte) /\ out \in Seq(Byte) /\ out # <<>>
      BY <1>1
    <3>3. Decoded(value, plain \o out, m)
      BY <1>1
    <3> QED
      BY ONLY <3>1, <3>2, <3>3, BuildDecodes
  <2>3. (m + 1) % 4 = 1
    BY <1>4, <2>1
  <2>4. Decoder'
    <3>1. Where(dec', m + 1) /\ dec' \in {"a", "b", "c", "d"}
      BY <2>1, <2>3, WhereNow
    <3> QED
      BY <1>1, <2>2, <3>1, DecoderNow
  <2> QED
    BY <2>1, <2>2, <2>4
<1>6. CASE DecodeB
  <2>1. /\ m % 4 = 1 /\ m % 4 # 0 /\ dec = "b" /\ dec' = "c"
        /\ out' = Append(Complete(c \div 16), (c % 16) * 16)
    BY <1>1, <1>2, <1>6 DEF DecodeB
  <2>2. /\ Partial(value, m) + c \div 16 = value[i]
        /\ (c % 16) * 16 \in Byte /\ (c % 16) * 16 = Partial(value, m + 1)
    BY <1>3, <2>1
  <2>3. out' \in Seq(Byte) /\ out' # <<>> /\ Len(out') = Len(out) + 1
        /\ Decoded(value, plain \o out', m + 1)
    BY <2>1, <2>2, CompleteStep DEF m
  <2>4. (m + 1) % 4 = 2
    BY <1>4, <2>1
  <2>5. Decoder'
    <3>1. Where(dec', m + 1) /\ dec' \in {"a", "b", "c", "d"}
      BY <2>1, <2>4, WhereNow
    <3> QED
      BY <1>1, <2>3, <3>1, DecoderNow
  <2> QED
    BY <2>1, <2>3, <2>5
<1>7. CASE DecodeC
  <2>1. /\ m % 4 = 2 /\ m % 4 # 0 /\ dec = "c" /\ dec' = "d"
        /\ out' = Append(Complete(c \div 4), (c % 4) * 64)
    BY <1>1, <1>2, <1>7 DEF DecodeC
  <2>2. /\ Partial(value, m) + c \div 4 = value[i]
        /\ (c % 4) * 64 \in Byte /\ (c % 4) * 64 = Partial(value, m + 1)
    BY <1>3, <2>1
  <2>3. out' \in Seq(Byte) /\ out' # <<>> /\ Len(out') = Len(out) + 1
        /\ Decoded(value, plain \o out', m + 1)
    BY <2>1, <2>2, CompleteStep DEF m
  <2>4. (m + 1) % 4 = 3
    BY <1>4, <2>1
  <2>5. Decoder'
    <3>1. Where(dec', m + 1) /\ dec' \in {"a", "b", "c", "d"}
      BY <2>1, <2>4, WhereNow
    <3> QED
      BY <1>1, <2>3, <3>1, DecoderNow
  <2> QED
    BY <2>1, <2>3, <2>5
<1>8. CASE DecodeD
  <2>1. /\ m % 4 = 3 /\ m % 4 # 0 /\ dec = "d" /\ dec' = "a"
    BY <1>1, <1>2, <1>8 DEF DecodeD
  <2>2. PICK j \in Junk : out' = Append(Complete(c), j)
    BY <1>1, <1>8 DEF DecodeD
  <2>3. j \in Byte /\ Partial(value, m) + c = value[i] /\ ~((m + 1) % 4 # 0)
    BY <1>3, <1>4, <2>1, Base64Assumption
  <2>4. out' \in Seq(Byte) /\ out' # <<>> /\ Len(out') = Len(out) + 1
        /\ Decoded(value, plain \o out', m + 1)
    BY <2>1, <2>2, <2>3, CompleteStep DEF m
  <2>5. (m + 1) % 4 = 0
    BY <1>4, <2>1
  <2>6. Decoder'
    <3>1. Where(dec', m + 1) /\ dec' \in {"a", "b", "c", "d"}
      BY <2>1, <2>5, WhereNow
    <3> QED
      BY <1>1, <2>4, <3>1, DecoderNow
  <2> QED
    BY <2>1, <2>4, <2>6
<1> QED
  BY <1>5, <1>6, <1>7, <1>8

LEMMA DecodeCharStep ==
  ASSUME Inv, DecodeChar
  PROVE  /\ Decoder'
         /\ IF Here \in Symbol /\ dec # "a" THEN Len(out') = Len(out) + 1
                                            ELSE Len(out') = Len(out)
         /\ Here \in Symbol => \/ dec = "a" /\ dec' = "b"
                               \/ dec = "b" /\ dec' = "c"
                               \/ dec = "c" /\ dec' = "d"
                               \/ dec = "d" /\ dec' = "a"
         /\ Here \notin Symbol => dec' = dec
<1>1. CASE Here \in Symbol
  <2>1. DecodeA \/ DecodeB \/ DecodeC \/ DecodeD
    BY <1>1 DEF DecodeChar
  <2>2. Decoder' /\ Len(out') = IF dec = "a" THEN Len(out) ELSE Len(out) + 1
    BY <1>1, <2>1, DecodeSymbolStep
  <2>3. \/ dec = "a" /\ dec' = "b"
        \/ dec = "b" /\ dec' = "c"
        \/ dec = "c" /\ dec' = "d"
        \/ dec = "d" /\ dec' = "a"
    BY <2>1 DEF DecodeA, DecodeB, DecodeC, DecodeD
  <2> QED
    BY <1>1, <2>2, <2>3
<1>2. CASE Here \notin Symbol
  <2>1. /\ phase = "decoding" /\ out' = out /\ dec' = dec /\ value' = value /\ plain' = plain
    BY <1>2 DEF DecodeChar
  <2>2. TakenSymbols' = TakenSymbols /\ out \in Seq(Byte)
    BY <1>2, CharInHand
  <2>3. Decoder'
    <3>1. Where(dec, TakenSymbols) /\ Decoded(value, plain \o out, TakenSymbols) /\ out # <<>>
      BY <2>1 DEF Inv, DecodeInv
    <3>2. dec \in {"a", "b", "c", "d"}
      BY DEF Inv, TypeOK
    <3> QED
      BY <2>1, <2>2, <3>1, <3>2, DecoderNow
  <2> QED
    BY <1>2, <2>1, <2>3
<1> QED
  BY <1>1, <1>2

LEMMA DecodeCharFits ==
  ASSUME Inv, DecodeChar
  PROVE  BufferInv'
<1>1. /\ phase = "decoding" /\ phase' = "decoding" /\ at' = at + 1 /\ at \in Nat
      /\ out \in Seq(Byte)
  BY DEF DecodeChar, Take, Inv, TypeOK, Coding
<1>2. Len(out) \in Nat
  BY <1>1
<1>3. \/ Len(out) <= at
      \/ /\ Len(out) = at + 1
         /\ \/ at = 0
            \/ at = 1 /\ dec # "b"
            \/ at = 2 /\ dec \in {"a", "d"}
            \/ at = 3 /\ dec = "a"
  BY <1>1 DEF Inv, BufferInv
<1>4. CASE Here \in Symbol /\ dec # "a"
  <2>1. /\ Len(out') = Len(out) + 1
        /\ \/ dec = "b" /\ dec' = "c"
           \/ dec = "c" /\ dec' = "d"
           \/ dec = "d" /\ dec' = "a"
    BY <1>4, DecodeCharStep
  <2>2. CASE Len(out) <= at
    <3>1. Len(out') <= at'
      BY <1>1, <1>2, <2>1, <2>2
    <3> QED
      BY <1>1, <3>1 DEF BufferInv
  <2>3. CASE /\ Len(out) = at + 1
             /\ \/ at = 0
                \/ at = 1 /\ dec # "b"
                \/ at = 2 /\ dec \in {"a", "d"}
                \/ at = 3 /\ dec = "a"
    <3>1. Len(out') = at' + 1
      BY <1>1, <2>1, <2>3
    <3>2. \/ at' = 1 /\ dec' # "b"
          \/ at' = 2 /\ dec' \in {"a", "d"}
          \/ at' = 3 /\ dec' = "a"
      BY <1>1, <1>4, <2>1, <2>3
    <3> QED
      BY <1>1, <3>1, <3>2 DEF BufferInv
  <2> QED
    BY <1>3, <2>2, <2>3
<1>5. CASE ~(Here \in Symbol /\ dec # "a")
  <2>1. Len(out') = Len(out)
    BY <1>5, DecodeCharStep
  <2>2. Len(out') <= at'
    BY <1>1, <1>2, <1>3, <2>1
  <2> QED
    BY <1>1, <2>2 DEF BufferInv
<1> QED
  BY <1>4, <1>5

LEMMA DecodeCharSafe ==
  ASSUME Inv, DecodeChar
  PROVE  Inv'
<1>1. Decoder'
  BY DecodeCharStep
<1>2. /\ phase = "decoding" /\ phase' = "decoding"
      /\ size' = size /\ value' = value /\ begin' = begin /\ length' = length
      /\ at' = at + 1 /\ at < length /\ enc' = enc /\ text' = text /\ plain' = plain
  BY DEF DecodeChar, Take
<1>3. TypeOK'
  <2>1. length \in Nat /\ at' \in 0 .. length'
    BY <1>2, Parameters DEF Inv, TypeOK
  <2>2. out' \in Seq(IF Coding' THEN Code ELSE Byte) /\ dec' \in {"a", "b", "c", "d"}
    BY <1>1, <1>2 DEF Decoder, Coding
  <2> QED
    BY <1>2, <2>1, <2>2 DEF Inv, TypeOK
<1>4. StreamInv'
  BY <1>2 DEF Inv, StreamInv, Stream, Gcount
<1>5. EncodeInv'
  BY <1>2 DEF Inv, EncodeInv, Encodes, Fits
<1>6. DecodeInv'
  BY <1>1 DEF DecodeInv, Decoder
<1>7. RoundTrip'
  BY <1>2 DEF RoundTrip
<1>8. BufferInv'
  BY DecodeCharFits
<1> QED
  BY <1>3, <1>4, <1>5, <1>6, <1>7, <1>8 DEF Inv

-----------------------------------------------------------------------------
(* base64_decode_block: the end of a block, and of the stream *)

LEMMA DecodeBlockSafe ==
  ASSUME Inv, DecodeBlock
  PROVE  Inv'
<1>1. /\ phase = "decoding" /\ phase' = "decoding" /\ NextBlock
      /\ size' = size /\ value' = value /\ enc' = enc /\ dec' = dec /\ text' = text
      /\ plain' = plain \o Completed /\ out' = <<Carried>>
  BY DEF DecodeBlock
<1>2. /\ begin' \in Nat /\ length' \in 0 .. size /\ at' = 0
      /\ StreamInv' /\ Taken' = Taken
  BY <1>1, NextBlockRead
<1>3. /\ plain \in Seq(Byte) /\ out \in Seq(Byte) /\ out # <<>>
      /\ Where(dec, TakenSymbols) /\ Decoded(value, plain \o out, TakenSymbols)
  BY <1>1 DEF Inv, TypeOK, DecodeInv, Coding
<1>4. /\ Completed \in Seq(Byte) /\ Carried \in Byte
      /\ Append(Completed, Carried) = out
  BY <1>3, AllButLast DEF Completed, Carried
<1>5. plain' \in Seq(Byte) /\ out' \in Seq(Byte) /\ Len(out') = 1 /\ out' # <<>>
  BY <1>1, <1>3, <1>4
<1>6. plain' \o out' = plain \o out
  <2>1. ASSUME NEW s \in Seq(Byte), NEW t \in Seq(Byte), NEW b \in Byte
        PROVE  (s \o t) \o <<b>> = s \o Append(t, b)
    BY OneAfter
  <2> QED
    BY <1>1, <1>3, <1>4, <2>1
<1>7. TypeOK'
  <2>1. at' \in 0 .. length'
    BY <1>1, <1>2, Parameters DEF Inv, TypeOK
  <2>2. out' \in Seq(IF Coding' THEN Code ELSE Byte)
    BY <1>1, <1>5 DEF Coding
  <2> QED
    BY <1>1, <1>2, <1>5, <2>1, <2>2 DEF Inv, TypeOK
<1>8. EncodeInv'
  BY <1>1 DEF Inv, EncodeInv, Encodes, Fits
<1>9. DecodeInv'
  <2>1. TakenSymbols' = TakenSymbols
    BY <1>1, <1>2 DEF TakenSymbols, Symbols, Ink
  <2> QED
    BY <1>1, <1>3, <1>5, <1>6, <2>1 DEF DecodeInv, Where, Decoded, Partial
<1>10. RoundTrip' /\ BufferInv'
  BY <1>1, <1>2, <1>5 DEF RoundTrip, BufferInv
<1> QED
  BY <1>2, <1>7, <1>8, <1>9, <1>10 DEF Inv

LEMMA DecodeEndSafe ==
  ASSUME Inv, DecodeEnd
  PROVE  Inv'
<1>1. /\ phase = "decoding" /\ phase' = "done" /\ EndOfStream
      /\ size' = size /\ value' = value /\ begin' = begin /\ length' = length
      /\ at' = at /\ out' = out /\ enc' = enc /\ dec' = "a" /\ text' = text
      /\ plain' = plain \o Completed
  BY DEF DecodeEnd
<1>2. /\ plain \in Seq(Byte) /\ out \in Seq(Byte) /\ out # <<>> /\ value \in Seq(Byte)
      /\ text \in Seq(Code) /\ size \in Nat /\ size >= 4 /\ at \in Nat /\ at <= size
      /\ Decoded(value, plain \o out, TakenSymbols)
      /\ Encodes(value, text, Len(Reference(value)))
  BY <1>1, Parameters DEF Inv, TypeOK, DecodeInv, EncodeInv, Coding
<1>3. TakenSymbols = Symbols(value)
  <2>1. Taken = Len(text)
    BY <1>1, AllTaken DEF Stream
  <2>2. Ink(text, Taken) = Len(Reference(value))
    BY <1>2, <2>1 DEF Encodes
  <2>3. Len(Reference(value)) \in Nat /\ Symbols(value) \in Nat
        /\ Symbols(value) <= Len(Reference(value))
    BY <1>2, ReferenceAt DEF Symbols
  <2> QED
    BY <2>2, <2>3 DEF TakenSymbols
<1>4. Complete3(Symbols(value)) = Len(value)
  BY <1>2 DEF Complete3, Symbols
<1>5. /\ Completed \in Seq(Byte) /\ Len(Completed) = Len(out) - 1
      /\ \A p \in 1 .. Len(out) - 1 : Completed[p] = out[p]
  BY <1>2, AllButLast DEF Completed
<1>6. plain' = value
  <2> DEFINE s == plain \o Completed
             t == plain \o out
  <2>1. /\ s \in Seq(Byte) /\ Len(s) = Len(plain) + Len(Completed)
        /\ \A i \in 1 .. Len(plain) + Len(Completed) :
             s[i] = IF i <= Len(plain) THEN plain[i] ELSE Completed[i - Len(plain)]
    BY <1>2, <1>5, Joined
  <2>2. /\ Len(t) = Len(plain) + Len(out)
        /\ \A i \in 1 .. Len(plain) + Len(out) :
             t[i] = IF i <= Len(plain) THEN plain[i] ELSE out[i - Len(plain)]
    BY <1>2, Joined
  <2>3. Len(t) = Len(value) + 1 /\ \A i \in 1 .. Len(value) : t[i] = value[i]
    BY <1>2, <1>3, <1>4 DEF Decoded
  <2> HIDE DEF s, t
  <2>4. Len(plain) \in Nat /\ Len(out) \in Nat \ {0} /\ Len(value) \in Nat
    BY <1>2
  <2>5. Len(s) = Len(value)
    BY <1>5, <2>1, <2>2, <2>3, <2>4
  <2>6. ASSUME NEW i \in 1 .. Len(s)
        PROVE  s[i] = value[i]
    <3>1. i \in 1 .. Len(plain) + Len(Completed) /\ i \in 1 .. Len(plain) + Len(out)
      BY <1>5, <2>1, <2>4
    <3>2. CASE i <= Len(plain)
      <4>1. s[i] = t[i]
        BY <2>1, <2>2, <3>1, <3>2
      <4> QED
        BY <2>3, <2>5, <4>1
    <3>3. CASE ~(i <= Len(plain))
      <4>1. i - Len(plain) \in 1 .. Len(out) - 1
        BY <1>5, <2>4, <3>1, <3>3
      <4>2. s[i] = t[i]
        BY <1>5, <2>1, <2>2, <3>1, <3>3, <4>1
      <4> QED
        BY <2>3, <2>5, <4>2
    <3> QED
      BY <3>2, <3>3
  <2>7. s = value
    BY <1>2, <2>1, <2>5, <2>6, SeqEqual
  <2> QED
    BY <1>1, <2>7 DEF s
<1>7. TypeOK'
  <2>1. out' \in Seq(IF Coding' THEN Code ELSE Byte)
    BY <1>1, <1>2 DEF Coding
  <2> QED
    BY <1>1, <1>2, <1>6, <2>1 DEF Inv, TypeOK
<1>8. EncodeInv'
  BY <1>1 DEF Inv, EncodeInv, Encodes, Fits
<1>9. StreamInv' /\ DecodeInv' /\ RoundTrip'
  BY <1>1, <1>6 DEF StreamInv, DecodeInv, RoundTrip
<1>10. BufferInv'
  <2>1. Len(out) \in Nat
    BY <1>2
  <2>2. Len(out) <= at \/ (Len(out) = at + 1 /\ at <= 3)
    BY <1>1, <1>2 DEF Inv, BufferInv
  <2>3. Len(out') <= size'
    BY <1>1, <1>2, <2>1, <2>2
  <2> QED
    BY <1>1, <2>3 DEF BufferInv
<1> QED
  BY <1>7, <1>8, <1>9, <1>10 DEF Inv
-----------------------------------------------------------------------------
(* The invariant, and what it is for *)

LEMMA Initially ==
  ASSUME Init
  PROVE  Inv
<1>1. /\ phase = "encoding" /\ size \in BUFFERSIZE /\ value \in Value
      /\ begin = 0 /\ length = Gcount(value, 0) /\ at = 0
      /\ out = <<>> /\ enc = EncodeStart /\ dec = "a" /\ text = <<>> /\ plain = <<>>
  BY DEF Init
<1>2. value \in Seq(Byte) /\ size \in Nat /\ size >= 4 /\ Len(value) \in Nat
  BY <1>1, Base64Assumption
<1>3. length \in 0 .. size
  BY <1>1, <1>2 DEF Gcount
<1>4. TypeOK
  <2>1. enc \in [step : {"A", "B", "C"}, result : Symbol,
                 stepcount : 0 .. CHARS_PER_LINE \div 4 - 1]
    BY <1>1, SymbolRange, Parameters DEF EncodeStart
  <2>2. at \in 0 .. length
    BY <1>1, <1>2, <1>3
  <2>3. out \in Seq(IF Coding THEN Code ELSE Byte) /\ text \in Seq(Code) /\ plain \in Seq(Byte)
    BY <1>1 DEF Coding
  <2> QED
    BY <1>1, <1>3, <2>1, <2>2, <2>3 DEF TypeOK
<1>5. StreamInv
  BY <1>1, <1>2 DEF StreamInv, Stream
<1>6. EncodeInv
  <2>1. Taken = 0 /\ 0 % 3 = 0 /\ 4 * (0 \div 3) + (0 % 3) = 0 /\ 4 * 0 + (0 % 3) = 0
    BY <1>1 DEF Taken
  <2>2. GroupInv
    BY <1>1, <2>1 DEF GroupInv, EncodeStart
  <2>3. text \o out = <<>> /\ Len(<<>>) = 0
    BY <1>1
  <2>4. Encodes(value, <<>>, 0)
    <3>1. Ink(<<>>, 0) = 0
      BY InkType
    <3>2. Len(Reference(value)) \in Nat
      BY <1>2, ReferenceAt
    <3> QED
      BY <2>3, <3>1, <3>2 DEF Encodes
  <2>5. Lines(<<>>, 0)
    BY <2>3, Base64Assumption DEF Lines, Fits
  <2>6. Progress(value, text \o out, Taken, enc.stepcount)
    BY <1>1, <2>1, <2>3, <2>4, <2>5 DEF Progress, EncodeStart
  <2> QED
    BY <1>1, <2>2, <2>6 DEF EncodeInv
<1>7. DecodeInv /\ RoundTrip
  BY <1>1 DEF DecodeInv, RoundTrip
<1>8. BufferInv
  BY <1>1 DEF BufferInv, EncodeStart
<1> QED
  BY <1>4, <1>5, <1>6, <1>7, <1>8 DEF Inv

LEMMA Stutters ==
  ASSUME Inv, UNCHANGED vars
  PROVE  Inv'
<1>1. /\ phase' = phase /\ size' = size /\ value' = value /\ begin' = begin
      /\ length' = length /\ at' = at /\ out' = out /\ enc' = enc /\ dec' = dec
      /\ text' = text /\ plain' = plain
  BY DEF vars
<1>2. TypeOK' /\ RoundTrip'
  BY <1>1 DEF Inv, TypeOK, Coding, RoundTrip
<1>3. StreamInv'
  BY <1>1 DEF Inv, StreamInv, Stream, Gcount
<1>4. EncodeInv'
  <2>1. GroupInv => GroupInv'
    BY <1>1 DEF GroupInv, Taken
  <2>2. Progress(value, text \o out, Taken, enc.stepcount)
          => Progress(value, text \o out, Taken, enc.stepcount)'
    BY <1>1 DEF Progress, Encodes, Lines, Fits, Taken
  <2>3. Whole(value, text) => Whole(value, text)'
    BY <1>1 DEF Whole, Encodes, Fits
  <2> QED
    BY <1>1, <2>1, <2>2, <2>3 DEF Inv, EncodeInv, Whole
<1>5. DecodeInv'
  <2>1. TakenSymbols' = TakenSymbols
    BY <1>1 DEF TakenSymbols, Symbols, Ink, Taken
  <2> QED
    BY <1>1, <2>1 DEF Inv, DecodeInv, Where, Decoded, Partial
<1>6. BufferInv'
  BY <1>1 DEF Inv, BufferInv
<1> QED
  BY <1>2, <1>3, <1>4, <1>5, <1>6 DEF Inv

LEMMA Invariance == Spec => []Inv
<1>1. Init => Inv
  BY Initially
<1>2. Inv /\ [Next]_vars => Inv'
  <2> SUFFICES ASSUME Inv, [Next]_vars
               PROVE  Inv'
    OBVIOUS
  <2>1. CASE EncodeByte
    BY <2>1, EncodeByteSafe
  <2>2. CASE EncodeBlock
    BY <2>2, EncodeBlockSafe
  <2>3. CASE EncodeEnd
    BY <2>3, EncodeEndSafe
  <2>4. CASE ValueEncoded
    BY <2>4, ValueEncodedSafe
  <2>5. CASE DecodeChar
    BY <2>5, DecodeCharSafe
  <2>6. CASE DecodeBlock
    BY <2>6, DecodeBlockSafe
  <2>7. CASE DecodeEnd
    BY <2>7, DecodeEndSafe
  <2>8. CASE UNCHANGED vars
    BY <2>8, Stutters
  <2> QED
    BY <2>1, <2>2, <2>3, <2>4, <2>5, <2>6, <2>7, <2>8 DEF Next
<1> QED
  BY <1>1, <1>2, PTL DEF Spec

(* The states of the encoder and the decoder have the shapes of the C      *)
(* structures: result is six bits, stepcount is less than a line's groups. *)
THEOREM TypeCorrect == Spec => []TypeOK
<1>1. Inv => TypeOK
  BY DEF Inv
<1> QED
  BY <1>1, Invariance, PTL

(* What valueEncoded() makes of any value is, newlines apart, what RFC 4648*)
(* makes of it, wherever the blocks of the stream divide the value.        *)
THEOREM EncodingIsStandard == Spec => []EncodesStandard
<1>1. Inv => EncodesStandard
  <2> SUFFICES ASSUME Inv, phase # "encoding"
               PROVE  /\ Ink(text, Len(text)) = Len(Reference(value))
                      /\ \A p \in DOMAIN text :
                           text[p] # Newline => text[p] = Reference(value)[Ink(text, p)]
    BY DEF EncodesStandard
  <2>1. Encodes(value, text, Len(Reference(value)))
    BY DEF Inv, EncodeInv
  <2>2. text \in Seq(Code) /\ DOMAIN text = 1 .. Len(text)
    BY DEF Inv, TypeOK
  <2> QED
    BY <2>1, <2>2 DEF Encodes
<1> QED
  BY <1>1, Invariance, PTL

(* What the decoder makes of the text of a value is that value, wherever   *)
(* the blocks divide the text, the newline valueEncoded() drops left out,  *)
(* and whatever the cells of the buffers held.                             *)
THEOREM ValuesComeBack == Spec => []RoundTrip
<1>1. Inv => RoundTrip
  BY DEF Inv
<1> QED
  BY <1>1, Invariance, PTL

(* The encoder ends a line before it is longer than CHARS_PER_LINE, also   *)
(* when a block ends within the line.                                      *)
THEOREM LinesAlwaysFit == Spec => []LinesFit
<1>1. Inv => LinesFit
  <2> SUFFICES ASSUME Inv
               PROVE  Fits(text)
    BY DEF Fits, LinesFit
  <2>1. CASE phase = "encoding"
    <3>1. text \in Seq(Code) /\ out \in Seq(Code)
      BY <2>1 DEF Inv, TypeOK, Coding
    <3>2. Fits(text \o out)
      BY <2>1 DEF Inv, EncodeInv, Progress, Lines
    <3>3. /\ Len(text) \in Nat /\ Len(text \o out) \in Nat /\ Len(text) <= Len(text \o out)
          /\ \A p \in 1 .. Len(text) : text[p] = (text \o out)[p]
      BY <3>1
    <3> QED
      BY <3>2, <3>3, FitsBefore
  <2>2. CASE phase # "encoding"
    BY <2>2 DEF Inv, EncodeInv
  <2> QED
    BY <2>1, <2>2
<1> QED
  BY <1>1, Invariance, PTL

(* What a block writes fits the buffer its stream allocated for it.        *)
THEOREM BlocksAlwaysFit == Spec => []BlocksFit
<1>1. Inv => BlocksFit
  <2> SUFFICES ASSUME Inv
               PROVE  BlocksFit
    OBVIOUS
  <2>1. /\ size \in Nat /\ size >= 4 /\ length \in Nat /\ length <= size
        /\ at \in Nat /\ at <= length
        /\ phase \in {"encoding", "encoded", "decoding", "done"}
        /\ enc.step \in {"A", "B", "C"}
        /\ out \in Seq(IF Coding THEN Code ELSE Byte)
    BY Parameters DEF Inv, TypeOK
  <2>2. Len(out) \in Nat
    BY <2>1
  <2>3. CASE phase = "encoding"
    <3>1. \/ Len(out) <= 2 * at
          \/ Len(out) <= 3
      BY <2>1, <2>2, <2>3 DEF Inv, BufferInv
    <3>2. Len(out) <= 2 * size
      BY <2>1, <2>2, <3>1
    <3> QED
      BY <2>3, <3>2 DEF BlocksFit, Coding, CodeBuffer
  <2>4. CASE phase = "encoded"
    <3>1. Len(out) <= 2 * size
      BY <2>1, <2>2, <2>4 DEF Inv, BufferInv
    <3> QED
      BY <2>4, <3>1 DEF BlocksFit, Coding, CodeBuffer
  <2>5. CASE phase = "decoding"
    <3>1. Len(out) <= at \/ (Len(out) = at + 1 /\ at <= 3)
      BY <2>1, <2>2, <2>5 DEF Inv, BufferInv
    <3>2. Len(out) <= size
      BY <2>1, <2>2, <3>1
    <3> QED
      BY <2>5, <3>2 DEF BlocksFit, Coding, PlainBuffer
  <2>6. CASE phase = "done"
    BY <2>6 DEF Inv, BufferInv, BlocksFit, Coding, PlainBuffer
  <2> QED
    BY <2>1, <2>3, <2>4, <2>5, <2>6
<1> QED
  BY <1>1, Invariance, PTL
=============================================================================
