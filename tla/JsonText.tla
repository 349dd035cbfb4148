------------------------------- MODULE JsonText -------------------------------
(***************************************************************************)
(* What a text means, without a parser: the values that its parts denote   *)
(* by the grammar of JSON; and what the parser of Json has to do with it.  *)
(*                                                                         *)
(* A place is a number of characters: t from a to b is t[a + 1] .. t[b].   *)
(* The only recursion is on how deep lists and objects are nested.         *)
(***************************************************************************)
EXTENDS Json, FiniteSets

Places(t) == 0 .. Len(t)

\* The places before the characters of S.
Marks(t, S) == {k \in 0 .. Len(t) - 1 : t[k + 1] \in S}

Blank(t, a, b) == a <= b /\ \A k \in a + 1 .. b : t[k] \in White

\* A part of a text, and what it denotes.
Part(a, b, v) == [from |-> a, to |-> b, val |-> v]

\* Between a and b there is x, and blanks.
Spaced(t, x, a, b) == Blank(t, a, x.from) /\ Blank(t, x.to, b)

-----------------------------------------------------------------------------
(* Numbers *)

Digital(t, a, b) == a < b /\ \A k \in a + 1 .. b : t[k] \in Digit
IsWhole(t, a, b) == Digital(t, a, b) /\ (t[a + 1] = "0" => b = a + 1)
IsFraction(t, a, b) == a = b \/ (a < b /\ t[a + 1] = "." /\ Digital(t, a + 1, b))
IsExponent(t, a, b) ==
  \/ a = b
  \/ /\ a < b /\ t[a + 1] = "e"
     /\ Digital(t, a + 1, b) \/ (Digital(t, a + 2, b) /\ t[a + 2] = "-")
IsNumber(t, a, b) ==
  \E s \in {a, a + 1}, w \in a .. b, f \in a .. b :
    /\ IsWhole(t, s, w) /\ IsFraction(t, w, f) /\ IsExponent(t, f, b)
    /\ s = a + 1 => t[s] = "-"

Numbers(t) ==
  {Part(p[1], p[2], [type |-> "number", of |-> SubSeq(t, p[1] + 1, p[2])]) :
     p \in {q \in Marks(t, Digit \cup {"-"}) \X Places(t) : IsNumber(t, q[1], q[2])}}

-----------------------------------------------------------------------------
(* Strings *)

\* The backslashes right after the places of E escape what follows them, and
\* nothing between a and b is left that would have to be escaped.
IsEscaping(t, a, b, E) ==
  /\ a <= b
  /\ \A k \in E : k + 1 < b /\ k + 1 \notin E /\ t[k + 2] \in {Quote, Backslash}
  /\ \A k \in a .. b - 1 :
       t[k + 1] \in {Quote, Backslash, Control} => k \in E \/ k - 1 \in E

Escapings(t, a, b) ==
  {E \in SUBSET {k \in a .. b - 1 : t[k + 1] = Backslash} : IsEscaping(t, a, b, E)}

\* The characters right after the places of K.
Nth(K, j) == CHOOSE k \in K : Cardinality({h \in K : h <= k}) = j
Spelled(t, K) == [j \in 1 .. Cardinality(K) |-> t[Nth(K, j) + 1]]

Quoted(t) ==
  UNION {{Part(a, b + 1, Spelled(t, (a + 1 .. b - 1) \ E)) :
            E \in Escapings(t, a + 1, b)} :
         a \in Marks(t, {Quote}), b \in Marks(t, {Quote})}

-----------------------------------------------------------------------------
(* Lists and objects, of the parts in R *)

\* Each element from the bracket or the comma before it to that after it.
Slots(t, R, open, close) ==
  UNION {{Part(a, b, x.val) : x \in {y \in R : Spaced(t, y, a + 1, b)}} :
         a \in Marks(t, {open, Comma}), b \in Marks(t, {Comma, close})}

Linked(f) == \A j \in 1 .. Len(f) - 1 : f[j].to = f[j + 1].from

Rows(t, R, open, close) ==
  {f \in UNION {[1 .. n -> Slots(t, R, open, close)] :
                n \in 1 .. Cardinality(Marks(t, {Comma})) + 1} :
     Linked(f) /\ t[f[1].from + 1] = open /\ t[f[Len(f)].to + 1] = close}

Colon(t, a, b) == \E e \in Marks(t, {":"}) : Blank(t, a, e) /\ Blank(t, e + 1, b)

\* The names with the values that follow them.
Pairs(t, R) ==
  UNION {{Part(x.from, y.to, <<x.val, y.val>>) :
            y \in {z \in R : Colon(t, x.to, z.from)}} :
         x \in Quoted(t)}

Values(f) == [j \in DOMAIN f |-> f[j].val]

\* Of two members of a name the later one counts.
Last(m, n) ==
  CHOOSE j \in DOMAIN m : m[j][1] = n /\ \A h \in DOMAIN m : m[h][1] = n => h <= j
Merged(m) == [n \in {m[j][1] : j \in DOMAIN m} |-> m[Last(m, n)][2]]

Lists(t, R) ==
  {Part(f[1].from, f[Len(f)].to + 1, [type |-> "array", of |-> Values(f)]) :
     f \in Rows(t, R, "[", "]")}
Objects(t, R) ==
  {Part(f[1].from, f[Len(f)].to + 1, [type |-> "object", of |-> Merged(Values(f))]) :
     f \in Rows(t, Pairs(t, R), OpenBrace, CloseBrace)}

-----------------------------------------------------------------------------
(* Values *)

Literals(t) ==
  {Part(a, a + 1, [type |-> "literal", of |-> <<True>>]) : a \in Marks(t, {True})}
Strings(t) ==
  {Part(x.from, x.to, [type |-> "string", of |-> x.val]) : x \in Quoted(t)}
Empties(t, open, close, v) ==
  {Part(p[1], p[2] + 1, v) :
     p \in {q \in Marks(t, {open}) \X Marks(t, {close}) : Blank(t, q[1] + 1, q[2])}}

Flat(t) ==
  Numbers(t) \cup Literals(t) \cup Strings(t)
  \cup Empties(t, "[", "]", Value(List))
  \cup Empties(t, OpenBrace, CloseBrace, Value(Object))
Nested(t, R) == Lists(t, R) \cup Objects(t, R)

\* The parts that denote a value with lists and objects nested n deep at most:
\* of [[]] it is the outer list that counts.
Readings(t) ==
  LET r[n \in Nat] == Flat(t) \cup IF n = 0 THEN {} ELSE Nested(t, r[n - 1]) IN r

Denoted(t, n) == {x.val : x \in {y \in Readings(t)[n] : Spaced(t, y, 0, Len(t))}}

-----------------------------------------------------------------------------
(* Broken strings *)

\* A string cannot go on at b: it ends there without a quote, or what stands
\* between b and c may not be in a string.
Wrong(t, b, c) ==
  \/ b = Len(t) /\ c = b
  \/ b < Len(t) /\ t[b + 1] = Control /\ c = b + 1
  \/ b < Len(t) /\ t[b + 1] = Backslash /\ c = b + 1 /\ c = Len(t)
  \/ b < Len(t) /\ t[b + 1] = Backslash /\ c = b + 2 /\ t[c] \notin {Quote, Backslash}

\* There is a string and nothing before it, and what is wrong with it ends at c.
BrokenAt(t, c) ==
  \E a \in Marks(t, {Quote}), b \in Places(t) :
    Blank(t, 0, a) /\ Escapings(t, a + 1, b) # {} /\ Wrong(t, b, c)

Broken(t) == \E c \in Places(t) : BrokenAt(t, c) /\ Blank(t, c, Len(t))

-----------------------------------------------------------------------------
(* Properties *)

\* A text that is JSON, and nested no deeper than the limit, is read as what
\* it denotes; of any other text there is an error, which is what callers look
\* at, and nothing of the text: a null, as json11.hpp:147 says, but of a broken
\* string an empty one, as it does not say (json11.cpp 573-670).
ReadsWhatIsWritten ==
  mode = "done" =>
    IF Denoted(str, MaxDepth) = {}
    THEN failed /\ result = IF Broken(str) THEN EmptyString ELSE Null
    ELSE ~failed /\ Denoted(str, MaxDepth) = {result}

\* An answer that is an object, a list or a string, as all of consul's are, is
\* not read at all when its end was cut off, wherever the cut falls.
CutIsNoticed ==
  mode = "done" /\ ~failed =>
    \A v \in Denoted(sent, Len(sent)) :
      v.type # "number" => Blank(sent, Len(str), Len(sent))

=============================================================================
