------------------------------ MODULE JsonProofs ------------------------------
(***************************************************************************)
(* Proofs about JsonParser, for every text, cut anywhere, and every limit. *)
(*                                                                         *)
(* 1. The cursor, an unsigned number that goes back as well as forth,      *)
(*    never leaves the text, and the recursion stays within its limit      *)
(*    (CursorStaysInText, StackStaysBounded).  The one place where the     *)
(*    cursor goes back without having just gone forth is the loop over a   *)
(*    list at the end of the text, and there the bracket or the comma that *)
(*    led into it lies behind.                                             *)
(*                                                                         *)
(* 2. The parser follows what is written (FollowInv): whatever a text that *)
(*    begins with what arrived denotes, by the grammar of JsonText, the    *)
(*    parser is somewhere in it, each list and object on its stack is one  *)
(*    of those that are written around that place, and an error means that *)
(*    the text was cut, or is nested too deep.  So a cut is noticed        *)
(*    (CutsAreNoticed).                                                    *)
(*                                                                         *)
(* 3. What is read is what is written (ReadInv): the lists and objects on  *)
(*    the stack, as far as they have been read, are those that stand in    *)
(*    the text, by the same grammar, and what is returned with an error is *)
(*    a null, or an empty string for a broken one.  A broken string leads  *)
(*    to that error (BreakInv).  With 2, for the text that arrived, a text *)
(*    is read as what it denotes, which is one value at most, and what is  *)
(*    returned of any other is settled, too (TextsAreRead).                *)
(***************************************************************************)
EXTENDS JsonText, LeastNumber, FiniteSetTheorems

(* A place in the text: of a character, or right after the last. *)
Place == 0 .. Len(str)

(* s is a sequence, of whatever its elements are. *)
IsStack(s) == s \in Seq({s[j] : j \in DOMAIN s})

CursorInv ==
  /\ str \in Seq(Character) /\ i \in Place
  /\ mode \in Mode /\ failed \in BOOLEAN

StackInv ==
  /\ IsStack(stack) /\ Len(stack) <= MaxDepth + 1
  /\ mode = "key" => stack # <<>>

Inv == CursorInv /\ StackInv

-----------------------------------------------------------------------------
(* Characters *)

(* The classes of characters that the others below are not of. *)
Plain == Digit \cup {Quote, Backslash, True, Control, "-", ".", "e", "[", "]", ":", End}

(* Commas, braces and blanks are told from each other and from the rest. *)
LEMMA Chars ==
  /\ Comma \notin Plain
  /\ OpenBrace \notin Plain \cup {Comma}
  /\ CloseBrace \notin Plain \cup {Comma, OpenBrace}
  /\ \A c \in White : c \notin Plain \cup {Comma, OpenBrace, CloseBrace}
BY Zenon DEF Plain, Digit, Quote, Backslash, True, Control, End, Comma, OpenBrace,
             CloseBrace, White

LEMMA Distinct ==
  /\ Comma # "]" /\ Comma # CloseBrace /\ Comma # Quote /\ Comma # End
  /\ CloseBrace # Quote /\ CloseBrace # End /\ OpenBrace # End /\ End \notin White
BY Chars DEF Plain

-----------------------------------------------------------------------------
(* Sequences of anything *)

LEMMA StackOf ==
  ASSUME NEW S, NEW s \in Seq(S)
  PROVE  IsStack(s)
<1>1. DOMAIN s = 1 .. Len(s) /\ s = [j \in 1 .. Len(s) |-> s[j]] /\ Len(s) \in Nat
  OBVIOUS
<1> DEFINE R == {s[j] : j \in DOMAIN s}
<1>2. s \in [1 .. Len(s) -> R]
  BY <1>1
<1>3. s \in Seq(R)
  BY <1>1, <1>2
<1> QED
  BY <1>3 DEF IsStack

LEMMA Pushed ==
  ASSUME NEW s, IsStack(s), NEW f
  PROVE  IsStack(Append(s, f)) /\ Len(Append(s, f)) = Len(s) + 1 /\ Append(s, f) # <<>>
<1> DEFINE R == {s[j] : j \in DOMAIN s} \cup {f}
<1>1. s \in Seq(R) /\ f \in R
  BY DEF IsStack
<1> HIDE DEF R
<1>2. /\ Append(s, f) \in Seq(R) /\ Len(Append(s, f)) = Len(s) + 1
      /\ Len(s) \in Nat /\ Append(s, f) # <<>>
  BY <1>1
<1> QED
  BY <1>2, StackOf

LEMMA Popped ==
  ASSUME IsStack(stack), stack # <<>>
  PROVE  IsStack(Below) /\ Len(Below) = Len(stack) - 1
<1> DEFINE R == {stack[j] : j \in DOMAIN stack}
<1>1. stack \in Seq(R) /\ Len(stack) \in Nat \ {0}
  BY DEF IsStack
<1> HIDE DEF R
<1>2. \A n \in 0 .. Len(stack) : /\ SubSeq(stack, 1, n) \in Seq(R)
                                /\ Len(SubSeq(stack, 1, n)) = n
  BY <1>1
<1>3. Below \in Seq(R) /\ Len(Below) = Len(stack) - 1
  <2>1. Len(stack) - 1 \in 0 .. Len(stack)
    BY <1>1
  <2>2. \A n : n = Len(stack) - 1 => Below = SubSeq(stack, 1, n)
    BY DEF Below
  <2> QED
    BY <1>2, <2>1, <2>2
<1> QED
  BY <1>3, StackOf

LEMMA Replaced ==
  ASSUME IsStack(stack), stack # <<>>, NEW f
  PROVE  IsStack(OnTop(f)) /\ Len(OnTop(f)) = Len(stack) /\ OnTop(f) # <<>>
<1> DEFINE R == {stack[j] : j \in DOMAIN stack} \cup {f}
<1>1. stack \in Seq(R) /\ Len(stack) \in Nat \ {0} /\ f \in R
  BY DEF IsStack
<1> HIDE DEF R
<1>2. OnTop(f) \in Seq(R) /\ Len(OnTop(f)) = Len(stack)
  BY <1>1 DEF OnTop
<1> QED
  BY <1>1, <1>2, StackOf

-----------------------------------------------------------------------------
(* Places *)

(* What is read past the characters of a class stops at the first that is  *)
(* not of it, or at the end of the text.                                   *)
LEMMA PastAllIs ==
  ASSUME CursorInv, NEW S, NEW k \in Place
  PROVE  /\ PastAll(S, k) \in k .. Len(str)
         /\ \A m \in k + 1 .. PastAll(S, k) : str[m] \in S
         /\ PastAll(S, k) = Len(str) \/ str[PastAll(S, k) + 1] \notin S
<1> DEFINE stops == {j \in k .. Len(str) : j = Len(str) \/ str[j + 1] \notin S}
<1>1. Len(str) \in Nat /\ k \in Nat /\ k <= Len(str)
  BY DEF CursorInv, Place
<1>2. stops \in SUBSET Nat /\ stops # {}
  BY <1>1
<1> HIDE DEF stops
<1>3. PICK j \in stops : \A m \in stops : j <= m
  BY <1>2, LeastNatural
<1> USE DEF stops
<1>4. j \in k .. Len(str) /\ (j = Len(str) \/ str[j + 1] \notin S)
  BY <1>3
<1>5. ASSUME NEW m \in k + 1 .. j PROVE str[m] \in S
  <2>1. m - 1 \in k .. Len(str) /\ ~(j <= m - 1) /\ m - 1 # Len(str) /\ (m - 1) + 1 = m
    BY <1>1, <1>4
  <2>2. m - 1 \notin stops
    BY <1>3, <2>1
  <2> QED
    BY <2>1, <2>2
<1> QED
  BY <1>4, <1>5 DEF PastAll

LEMMA PastAllPlace ==
  ASSUME CursorInv, NEW S, NEW k \in Place
  PROVE  PastAll(S, k) \in k .. Len(str)
BY PastAllIs

(* A token leaves the cursor in the text, behind it if there was one.      *)
LEMMA TokenPlace ==
  ASSUME CursorInv, NEW k \in Place
  PROVE  /\ AfterToken(k) \in Place /\ AfterToken(k) >= k
         /\ Token(k) # End => AfterToken(k) >= 1
<1>1. PastAll(White, k) \in k .. Len(str)
  BY PastAllPlace
<1>2. Len(str) \in Nat /\ k \in Nat
  BY DEF CursorInv, Place
<1> QED
  BY <1>1, <1>2 DEF AfterToken, Token, At, Place

(* A character that is there has a place after it. *)
LEMMA AfterPlace ==
  ASSUME CursorInv, NEW k \in Place, At(k) # End
  PROVE  k + 1 \in Place
BY DEF CursorInv, Place, At

(* So does a number. *)
LEMMA NumberPlace ==
  ASSUME CursorInv, NEW k \in Place, NumberEnd(k) # -1
  PROVE  NumberEnd(k) \in Place
<1>1. \A m \in Place : Digits(m) \in Place \cup {-1}
  BY PastAllPlace DEF Digits, Place, CursorInv
<1>2. Whole(k) \in Place \cup {-1}
  <2> DEFINE s == IF At(k) = "-" THEN k + 1 ELSE k
  <2>1. s \in Place
    BY AfterPlace DEF End
  <2> HIDE DEF s
  <2>2. CASE At(s) = "0" /\ At(s + 1) \notin Digit
    <3>1. s + 1 \in Place
      BY <2>1, <2>2, AfterPlace DEF End
    <3>2. Whole(k) = s + 1
      BY <2>2 DEF Whole, s, Digit
    <3> QED
      BY <3>1, <3>2
  <2>3. CASE At(s) \in Digit \ {"0"}
    <3>1. PastAll(Digit, s) \in Place
      BY <2>1, PastAllPlace DEF Place, CursorInv
    <3>2. Whole(k) = PastAll(Digit, s)
      BY <2>3 DEF Whole, s
    <3> QED
      BY <3>1, <3>2
  <2>4. CASE ~(At(s) = "0" /\ At(s + 1) \notin Digit) /\ ~(At(s) \in Digit \ {"0"})
    BY <2>4 DEF Whole, s
  <2> QED
    BY <2>2, <2>3, <2>4
<1>3. ASSUME NEW m \in Place \cup {-1} PROVE Fraction(m) \in Place \cup {-1}
  <2>1. CASE m # -1 /\ At(m) = "."
    <3>1. m + 1 \in Place
      BY <2>1, AfterPlace DEF End
    <3> QED
      BY <1>1, <2>1, <3>1 DEF Fraction
  <2>2. CASE ~(m # -1 /\ At(m) = ".")
    BY <2>2 DEF Fraction
  <2> QED
    BY <2>1, <2>2
<1>4. ASSUME NEW m \in Place \cup {-1} PROVE Exponent(m) \in Place \cup {-1}
  <2>1. CASE m # -1 /\ At(m) = "e"
    <3>1. m \in Place /\ m + 1 \in Place
      BY <2>1, AfterPlace DEF End
    <3>2. CASE At(m + 1) = "-"
      <4>1. (m + 1) + 1 \in Place
        BY <3>1, <3>2, AfterPlace DEF End
      <4>2. (m + 1) + 1 = m + 2
        BY <3>1 DEF Place
      <4> QED
        BY <1>1, <2>1, <3>2, <4>1, <4>2 DEF Exponent
    <3>3. CASE At(m + 1) # "-"
      BY <1>1, <2>1, <3>1, <3>3 DEF Exponent
    <3> QED
      BY <3>2, <3>3
  <2>2. CASE ~(m # -1 /\ At(m) = "e")
    BY <2>2 DEF Exponent
  <2> QED
    BY <2>1, <2>2
<1> QED
  BY <1>2, <1>3, <1>4 DEF NumberEnd

-----------------------------------------------------------------------------
(* Steps *)

(* A step that leaves the text, moves the cursor to a place, and does to    *)
(* the stack what keeps it bounded, keeps the invariant.                   *)
LEMMA Moved ==
  ASSUME Inv, UNCHANGED str, i' \in Place, mode' \in Mode, failed' \in BOOLEAN,
         IsStack(stack'), Len(stack') <= MaxDepth + 1,
         mode' = "key" => stack' # <<>>
  PROVE  Inv'
BY DEF Inv, CursorInv, StackInv, Place, IsStack

(* Returns and errors. *)
LEMMA Back ==
  ASSUME Inv, NEW v, NEW k \in Place, NEW s, IsStack(s), Len(s) <= MaxDepth + 1,
         Return(v, k, s) \/ FailWith(v, k, s) \/ Fail(k, s)
  PROVE  Inv'
<1>1. /\ i' = k /\ stack' = s /\ mode' = "return" /\ UNCHANGED str
      /\ failed' \in BOOLEAN
  BY DEF Return, Fail, FailWith, Inv, CursorInv
<1> QED
  BY <1>1, Moved DEF Mode

(* The loop over a list goes back by one, from behind a bracket or comma.  *)
LEMMA Elements ==
  ASSUME Inv, NEW k \in Place, k >= 1, NEW s, IsStack(s), Len(s) <= MaxDepth + 1,
         Element(k, s)
  PROVE  Inv'
<1>1. AfterToken(k) \in Place /\ AfterToken(k) >= k
  BY TokenPlace DEF Inv
<1>2. AfterToken(k) - 1 \in Place
  BY <1>1 DEF Place, Inv, CursorInv
<1>3. /\ i' = AfterToken(k) - 1 /\ stack' = s /\ mode' = "value" /\ UNCHANGED str
      /\ failed' \in BOOLEAN
  BY DEF Element, Inv, CursorInv
<1> QED
  BY <1>2, <1>3, Moved DEF Mode

LEMMA StringBegins ==
  ASSUME Inv, NEW m \in {"string", "key"}, NEW k \in Place, NEW s, IsStack(s),
         Len(s) <= MaxDepth + 1, m = "key" => s # <<>>, String(m, k, s)
  PROVE  Inv'
<1>1. i' = k /\ stack' = s /\ mode' = m /\ UNCHANGED <<str, failed>>
  BY DEF String
<1> QED
  BY <1>1, Moved DEF Mode, Inv, CursorInv

(* Facts about the cursor before a step. *)
LEMMA HereNow ==
  ASSUME Inv
  PROVE  /\ i \in Place /\ Next1 \in Place /\ (Here # End => Next1 >= 1)
         /\ AfterToken(Next1) \in Place
         /\ IsStack(stack) /\ Len(stack) <= MaxDepth + 1 /\ Len(stack) \in Nat
<1>1. i \in Place /\ IsStack(stack) /\ Len(stack) <= MaxDepth + 1
  BY DEF Inv, CursorInv, StackInv
<1>2. Next1 \in Place /\ (Here # End => Next1 >= 1)
  BY <1>1, TokenPlace DEF Inv, Next1, Here
<1>3. Len(stack) \in Nat
  BY <1>1 DEF IsStack
<1> QED
  BY <1>1, <1>2, <1>3, TokenPlace DEF Inv

(* There is room for one more where it is not too deep. *)
LEMMA Room ==
  ASSUME Inv, ~TooDeep, NEW f
  PROVE  IsStack(Append(stack, f)) /\ Len(Append(stack, f)) <= MaxDepth + 1
         /\ Append(stack, f) # <<>>
<1>1. Len(stack) <= MaxDepth
  BY HereNow, JsonAssumption DEF TooDeep
<1> QED
  BY <1>1, HereNow, JsonAssumption, Pushed

(* What is below the top is bounded, and so is a stack with another top.   *)
LEMMA Beneath ==
  ASSUME Inv, stack # <<>>
  PROVE  /\ IsStack(Below) /\ Len(Below) <= MaxDepth + 1
         /\ \A f : /\ IsStack(OnTop(f)) /\ Len(OnTop(f)) <= MaxDepth + 1
                   /\ OnTop(f) # <<>>
BY HereNow, JsonAssumption, Popped, Replaced

(* parse_json() at its beginning. *)
LEMMA ValueInv ==
  ASSUME Inv, \/ ParseTooDeep \/ ParseNothing \/ ParseNumber \/ ParseLiteral
              \/ ParseString \/ ParseList \/ ParseObject
  PROVE  Inv'
<1>1. CASE ParseTooDeep
  BY <1>1, HereNow, Back DEF ParseTooDeep
<1>2. CASE ParseNothing
  BY <1>2, HereNow, Back DEF ParseNothing
<1>3. CASE ParseNumber
  <2>1. Here # End
    BY <1>3 DEF ParseNumber, Starts, Digit, End
  <2>2. Next1 \in Place /\ Next1 >= 1
    BY <2>1, HereNow
  <2>3. Next1 - 1 \in Place
    BY <2>2 DEF Place, Inv, CursorInv
  <2>4. CASE NumberEnd(Next1 - 1) = -1
    BY <1>3, <2>4, HereNow, Back DEF ParseNumber
  <2>5. CASE NumberEnd(Next1 - 1) # -1
    <3>1. NumberEnd(Next1 - 1) \in Place
      BY <2>3, <2>5, NumberPlace DEF Inv
    <3> QED
      BY <1>3, <2>5, <3>1, HereNow, Back DEF ParseNumber
  <2> QED
    BY <2>4, <2>5
<1>4. CASE ParseLiteral
  BY <1>4, HereNow, Back DEF ParseLiteral
<1>5. CASE ParseString
  BY <1>5, HereNow, StringBegins DEF ParseString
<1>6. CASE ParseList
  <2>1. Here # End /\ ~TooDeep
    BY <1>6 DEF ParseList, Starts, End
  <2>2. CASE Token(Next1) = "]"
    BY <1>6, <2>2, HereNow, Back DEF ParseList
  <2>3. CASE Token(Next1) # "]"
    <3>1. Element(Next1, Append(stack, List))
      BY <1>6, <2>3 DEF ParseList
    <3> QED
      BY <2>1, <3>1, HereNow, Room, Elements
  <2> QED
    BY <2>2, <2>3
<1>7. CASE ParseObject
  <2>1. ~TooDeep
    BY <1>7 DEF ParseObject, Starts
  <2>2. CASE Token(Next1) = CloseBrace
    BY <1>7, <2>2, HereNow, Back, Distinct DEF ParseObject
  <2>3. CASE Token(Next1) = Quote
    <3>1. String("key", AfterToken(Next1), Append(stack, Object))
      BY <1>7, <2>3, Distinct DEF ParseObject
    <3> QED
      BY <2>1, <3>1, HereNow, Room, StringBegins
  <2>4. CASE Token(Next1) # CloseBrace /\ Token(Next1) # Quote
    BY <1>7, <2>4, HereNow, Back DEF ParseObject
  <2> QED
    BY <2>2, <2>3, <2>4
<1> QED
  BY <1>1, <1>2, <1>3, <1>4, <1>5, <1>6, <1>7

(* A character of a string, its end, or an error in it. *)
LEMMA StringInv ==
  ASSUME Inv, StringFails \/ StringGoesOn \/ StringEnds
  PROVE  Inv'
<1>1. /\ i \in Place /\ (At(i) # End => i + 1 \in Place)
      /\ (At(i) # End /\ At(i + 1) # End => i + 2 \in Place)
  <2>1. i \in Place /\ (At(i) # End => i + 1 \in Place)
    BY AfterPlace DEF Inv, CursorInv
  <2>2. i + 1 \in Place /\ At(i + 1) # End => (i + 1) + 1 \in Place
    BY AfterPlace DEF Inv
  <2>3. (i + 1) + 1 = i + 2
    BY <2>1 DEF Place
  <2> QED
    BY <2>1, <2>2, <2>3
<1>2. mode = "key" => stack # <<>>
  BY DEF Inv, StackInv
<1>3. CASE StringFails
  <2>1. PICK k \in Place : Unread(k)
    BY <1>1, <1>3 DEF StringFails, Control, Backslash, End
  <2>2. CASE mode = "key"
    BY <1>2, <2>1, <2>2, Beneath, Back DEF Unread
  <2>3. CASE mode # "key"
    BY <2>1, <2>3, HereNow, Back DEF Unread
  <2> QED
    BY <2>2, <2>3
<1>4. CASE StringGoesOn
  <2>1. i' \in Place
    <3>1. End \notin Character
      BY Distinct DEF Character, Digit, Quote, Backslash, True, Control, End
    <3> QED
      BY <1>1, <1>4, <3>1 DEF StringGoesOn, Quote, Backslash, End
  <2>2. UNCHANGED <<str, failed, stack, mode>>
    BY <1>4 DEF StringGoesOn
  <2> QED
    BY <1>2, <2>1, <2>2, HereNow, Moved DEF Inv, CursorInv
<1>5. CASE StringEnds
  <2>1. i + 1 \in Place /\ AfterToken(i + 1) \in Place
    BY <1>1, <1>5, TokenPlace DEF StringEnds, Quote, End, Inv
  <2>2. CASE mode = "string"
    BY <1>5, <2>1, <2>2, HereNow, Back DEF StringEnds
  <2>3. CASE mode = "key" /\ Token(i + 1) = ":"
    <3>1. /\ i' = AfterToken(i + 1) /\ mode' = "value" /\ UNCHANGED <<str, failed>>
          /\ stack' = OnTop([Top EXCEPT !.key = out])
      BY <1>5, <2>3 DEF StringEnds
    <3>2. stack # <<>>
      BY <1>2, <2>3
    <3>3. IsStack(stack') /\ Len(stack') <= MaxDepth + 1
      BY <3>1, <3>2, Beneath
    <3> QED
      BY <2>1, <3>1, <3>3, Moved DEF Mode, Inv, CursorInv
  <2>4. CASE mode = "key" /\ Token(i + 1) # ":"
    <3>1. Fail(AfterToken(i + 1), Below)
      BY <1>5, <2>4 DEF StringEnds
    <3> QED
      BY <1>2, <2>1, <2>4, <3>1, Beneath, Back
  <2> QED
    BY <1>5, <2>2, <2>3, <2>4 DEF StringEnds, InString
<1> QED
  BY <1>3, <1>4, <1>5

(* What follows a return. *)
LEMMA ReturnInv ==
  ASSUME Inv, ReturnFailed \/ ListGoesOn \/ ObjectGoesOn \/ ParseEnds
  PROVE  Inv'
<1>1. CASE ReturnFailed
  BY <1>1, HereNow, Beneath, Back DEF ReturnFailed, Returned
<1>2. CASE ListGoesOn
  <2> DEFINE f == [Top EXCEPT !.of = Append(@, result)]
  <2>0. stack # <<>>
    BY <1>2 DEF ListGoesOn, Returned
  <2>1. CASE Here = "]"
    <3>1. Return(Value(f), Next1, Below)
      BY <1>2, <2>1, Distinct DEF ListGoesOn
    <3> QED
      BY <2>0, <3>1, HereNow, Beneath, Back
  <2>2. CASE Here = Comma
    <3>1. Element(Next1, OnTop(f))
      BY <1>2, <2>2 DEF ListGoesOn
    <3>2. Here # End
      BY <2>2, Distinct
    <3> QED
      BY <2>0, <3>1, <3>2, HereNow, Beneath, Elements
  <2>3. CASE Here # "]" /\ Here # Comma
    <3>1. Fail(Next1, Below)
      BY <1>2, <2>3 DEF ListGoesOn
    <3> QED
      BY <2>0, <3>1, HereNow, Beneath, Back
  <2> QED
    BY <2>1, <2>2, <2>3
<1>3. CASE ObjectGoesOn
  <2> DEFINE f == [Top EXCEPT !.of = Put(@, Top.key, result)]
  <2>0. stack # <<>>
    BY <1>3 DEF ObjectGoesOn, Returned
  <2>1. CASE Here = CloseBrace
    <3>1. Return(Value(f), Next1, Below)
      BY <1>3, <2>1, Distinct DEF ObjectGoesOn
    <3> QED
      BY <2>0, <3>1, HereNow, Beneath, Back
  <2>2. CASE Here = Comma /\ Token(Next1) = Quote
    <3>1. String("key", AfterToken(Next1), OnTop(f))
      BY <1>3, <2>2 DEF ObjectGoesOn
    <3> HIDE DEF f
    <3>2. IsStack(OnTop(f)) /\ Len(OnTop(f)) <= MaxDepth + 1 /\ OnTop(f) # <<>>
      BY <2>0, Beneath
    <3> QED
      BY <3>1, <3>2, HereNow, StringBegins
  <2>3. CASE Here = Comma /\ Token(Next1) # Quote
    <3>1. Fail(AfterToken(Next1), Below)
      BY <1>3, <2>3 DEF ObjectGoesOn
    <3> QED
      BY <2>0, <3>1, HereNow, Beneath, Back
  <2>4. CASE Here # CloseBrace /\ Here # Comma
    <3>1. Fail(Next1, Below)
      BY <1>3, <2>4 DEF ObjectGoesOn
    <3> QED
      BY <2>0, <3>1, HereNow, Beneath, Back
  <2> QED
    BY <2>1, <2>2, <2>3, <2>4
<1>4. CASE ParseEnds
  <2>1. i' \in Place
    <3>1. PastAll(White, i) \in i .. Len(str) /\ i \in Place
      BY HereNow, PastAllPlace DEF Inv
    <3> QED
      BY <1>4, <3>1 DEF ParseEnds, Place, Inv, CursorInv
  <2>2. /\ mode' = "done" /\ failed' \in BOOLEAN /\ UNCHANGED <<str, stack>>
    BY <1>4 DEF ParseEnds, Inv, CursorInv
  <2> QED
    BY <2>1, <2>2, HereNow, Moved DEF Mode
<1> QED
  BY <1>1, <1>2, <1>3, <1>4

LEMMA InitInv == Init => Inv
<1>1. SUFFICES ASSUME Init PROVE Inv
  OBVIOUS
<1>2. sent \in Seq(Character)
  BY <1>1, JsonAssumption DEF Init
<1>3. str \in Seq(Character) /\ Len(str) \in Nat
  <2>1. PICK n \in 0 .. Len(sent) : str = SubSeq(sent, 1, n)
    BY <1>1 DEF Init
  <2> HIDE DEF Character
  <2> QED
    BY <1>2, <2>1
<1>4. stack \in Seq({}) /\ Len(stack) = 0
  BY <1>1 DEF Init
<1>5. IsStack(stack)
  BY <1>4, StackOf
<1>6. i = 0 /\ mode = "value" /\ failed = FALSE
  BY <1>1 DEF Init
<1>7. i \in Place
  BY <1>3, <1>6 DEF Place
<1>8. CursorInv
  BY <1>3, <1>6, <1>7 DEF CursorInv, Mode
<1>9. Len(stack) <= MaxDepth + 1
  BY <1>4, JsonAssumption
<1> QED
  BY <1>5, <1>6, <1>8, <1>9 DEF Inv, StackInv

(* Inv is an inductive invariant of the parser. *)
LEMMA Invariance == Spec => []Inv
<1>1. Inv /\ UNCHANGED vars => Inv'
  BY DEF vars, Inv, CursorInv, StackInv, Place, IsStack
<1>2. Inv /\ [Next]_vars => Inv'
  BY <1>1, ValueInv, StringInv, ReturnInv DEF Next
<1> QED
  BY <1>2, InitInv, PTL DEF Spec

(* The cursor never passes the end of the text, nor wraps below its        *)
(* beginning, whatever the text is (json11.cpp 372-377, 639).              *)
THEOREM CursorStaysInText == Spec => []CursorInText
<1>1. Inv => CursorInText
  BY DEF Inv, CursorInv, Place, CursorInText
<1> QED
  BY <1>1, Invariance, PTL

(* However deep a text is nested, parse_json() is not deeper in itself     *)
(* than one beyond max_depth (json11.cpp 573-576).                         *)
THEOREM StackStaysBounded == Spec => []StackBounded
<1>1. Inv => StackBounded
  BY DEF Inv, StackInv, StackBounded
<1> QED
  BY <1>1, Invariance, PTL

-----------------------------------------------------------------------------
(* The grammar.  What holds of texts, without a parser: first how deep     *)
(* lists and objects are nested.                                           *)

(* How deep lists and objects may be nested is counted in natural numbers, *)
(* and Readings follows the count.                                         *)
LEMMA ReadingsOf ==
  ASSUME NEW t
  PROVE  /\ Readings(t)[0] = Flat(t)
         /\ \A n \in Nat : Readings(t)[n + 1] = Flat(t) \cup Nested(t, Readings(t)[n])
<1> DEFINE Level(g, n) == Flat(t) \cup IF n = 0 THEN {} ELSE Nested(t, g[n - 1])
           Approx(g, n) == \A k \in 0 .. n : g[k] = Level(g, k)
           bad == {n \in Nat : ~ \E g : Approx(g, n)}
<1>1. \A n \in Nat : \E g : Approx(g, n)
  <2>1. SUFFICES ASSUME bad # {} PROVE FALSE
    OBVIOUS
  <2>2. PICK n \in bad : \A m \in bad : n <= m
    <3>1. bad \in SUBSET Nat
      OBVIOUS
    <3> HIDE DEF bad
    <3> QED
      BY <2>1, <3>1, LeastNatural
  <2>3. n \in Nat
    OBVIOUS
  <2>4. CASE n = 0
    <3> DEFINE h == [k \in {0} |-> Flat(t)]
    <3>1. h[0] = Flat(t)
      OBVIOUS
    <3>2. Level(h, 0) = Flat(t)
      OBVIOUS
    <3> HIDE DEF h
    <3>3. Approx(h, 0)
      BY <3>1, <3>2
    <3> QED
      BY <2>4, <3>3
  <2>5. CASE n # 0
    <3>1. n - 1 \in Nat /\ ~(n <= n - 1)
      BY <2>3, <2>5
    <3>2. n - 1 \notin bad
      BY <2>2, <3>1
    <3>3. PICK g : Approx(g, n - 1)
      BY <3>1, <3>2
    <3> DEFINE h == [k \in 0 .. n |-> IF k = n THEN Level(g, n) ELSE g[k]]
    <3>4. ASSUME NEW k \in 0 .. n PROVE h[k] = Level(h, k)
      <4>1. k # 0 => k - 1 \in 0 .. n /\ k - 1 # n
        BY <2>3
      <4>2. Level(h, k) = Level(g, k)
        BY <4>1
      <4>3. k # n => k \in 0 .. n - 1
        BY <2>3
      <4> HIDE DEF Level
      <4>4. CASE k = n
        BY <4>2, <4>4
      <4>5. CASE k # n
        BY <3>3, <4>2, <4>3, <4>5
      <4> QED
        BY <4>4, <4>5
    <3> HIDE DEF h
    <3>5. Approx(h, n)
      BY <3>4
    <3> QED
      BY <2>2, <3>5
  <2> QED
    BY <2>4, <2>5
<1>2. ASSUME NEW m \in Nat, NEW n \in Nat, NEW g, NEW h, Approx(g, m), Approx(h, n)
      PROVE  \A k \in Nat : k <= m /\ k <= n => g[k] = h[k]
  <2> DEFINE differ == {k \in Nat : k <= m /\ k <= n /\ g[k] # h[k]}
  <2>1. SUFFICES ASSUME differ # {} PROVE FALSE
    OBVIOUS
  <2>2. PICK k \in differ : \A j \in differ : k <= j
    <3>1. differ \in SUBSET Nat
      OBVIOUS
    <3> HIDE DEF differ
    <3> QED
      BY <2>1, <3>1, LeastNatural
  <2>3. k \in Nat /\ k \in 0 .. m /\ k \in 0 .. n /\ g[k] # h[k]
    OBVIOUS
  <2>4. g[k] = Level(g, k) /\ h[k] = Level(h, k)
    BY <1>2, <2>3
  <2>5. CASE k = 0
    BY <2>3, <2>4, <2>5
  <2>6. CASE k # 0
    <3>1. k - 1 \in Nat /\ ~(k <= k - 1) /\ k - 1 <= m /\ k - 1 <= n
      BY <2>3, <2>6
    <3>2. k - 1 \notin differ
      BY <2>2, <3>1
    <3>3. g[k - 1] = h[k - 1]
      BY <3>1, <3>2
    <3> QED
      BY <2>3, <2>4, <2>6, <3>3
  <2> QED
    BY <2>5, <2>6
<1> DEFINE pick(n) == CHOOSE g : Approx(g, n)
           r == [n \in Nat |-> pick(n)[n]]
<1>3. \A n \in Nat : Approx(pick(n), n)
  BY <1>1
<1>4. ASSUME NEW n \in Nat PROVE r[n] = Level(r, n)
  <2>1. r[n] = pick(n)[n]
    OBVIOUS
  <2>2. pick(n)[n] = Level(pick(n), n)
    BY <1>3
  <2>3. CASE n = 0
    BY <2>1, <2>2, <2>3
  <2>4. CASE n # 0
    <3>1. n - 1 \in Nat /\ n - 1 <= n
      BY <2>4
    <3>2. r[n - 1] = pick(n - 1)[n - 1]
      BY <3>1
    <3> HIDE DEF pick, r, Approx
    <3>3. pick(n - 1)[n - 1] = pick(n)[n - 1]
      BY <1>2, <1>3, <3>1
    <3> QED
      BY <2>1, <2>2, <2>4, <3>2, <3>3
  <2> QED
    BY <2>3, <2>4
<1>5. r = [n \in Nat |-> Level(r, n)]
  <2> HIDE DEF pick
  <2>1. r = [n \in Nat |-> r[n]]
    OBVIOUS
  <2> HIDE DEF r
  <2> QED
    BY <1>4, <2>1
<1>6. Readings(t) = [n \in Nat |-> Level(Readings(t), n)]
  <2> HIDE DEF r
  <2> QED
    BY <1>5 DEF Readings
<1>7. \A n \in Nat : Readings(t)[n] = Level(Readings(t), n)
  <2>1. ASSUME NEW g, g = [n \in Nat |-> Level(g, n)]
        PROVE  \A n \in Nat : g[n] = Level(g, n)
    <3> HIDE DEF Level
    <3> QED
      BY <2>1
  <2> QED
    BY <1>6, <2>1
<1>8. Readings(t)[0] = Flat(t)
  BY <1>7
<1>9. ASSUME NEW n \in Nat
      PROVE  Readings(t)[n + 1] = Flat(t) \cup Nested(t, Readings(t)[n])
  <2>1. n + 1 \in Nat /\ n + 1 # 0 /\ (n + 1) - 1 = n
    OBVIOUS
  <2>2. Readings(t)[n + 1] = Level(Readings(t), n + 1)
    BY <1>7, <2>1
  <2> QED
    BY <2>1, <2>2
<1> QED
  BY <1>8, <1>9

-----------------------------------------------------------------------------
(* Sequences and the members of objects *)

(* What a sequence is with one more element. *)
LEMMA Appended ==
  ASSUME NEW n \in Nat, NEW s, s = [j \in 1 .. n |-> s[j]], NEW e
  PROVE  Append(s, e) = [j \in 1 .. n + 1 |-> IF j = n + 1 THEN e ELSE s[j]]
<1> DEFINE S == {s[j] : j \in 1 .. n} \cup {e}
<1>1. s \in Seq(S) /\ Len(s) = n /\ e \in S
  <2>1. s \in [1 .. n -> S]
    OBVIOUS
  <2> QED
    BY <2>1
<1> HIDE DEF S
<1>2. Append(s, e) \in Seq(S) /\ Len(Append(s, e)) = n + 1
  BY <1>1
<1>3. \A j \in 1 .. n + 1 : Append(s, e)[j] = IF j = n + 1 THEN e ELSE s[j]
  BY <1>1
<1>4. DOMAIN Append(s, e) = 1 .. n + 1
  BY <1>2
<1>5. Append(s, e) = [j \in 1 .. n + 1 |-> Append(s, e)[j]]
  BY <1>2, <1>4
<1> QED
  BY <1>3, <1>5

(* Numbers up to n, of which there are some, have a greatest. *)
LEMMA Greatest ==
  ASSUME NEW n \in Nat, NEW T \in SUBSET (0 .. n), T # {}
  PROVE  \E x \in T : \A y \in T : y <= x
<1> DEFINE U == {k \in Nat : n - k \in T}
<1>1. U \in SUBSET Nat
  OBVIOUS
<1>2. U # {}
  <2>1. PICK x \in T : TRUE
    OBVIOUS
  <2>2. n - x \in Nat /\ n - (n - x) = x
    OBVIOUS
  <2> QED
    BY <2>1, <2>2
<1>3. PICK k \in U : \A h \in U : k <= h
  <2> HIDE DEF U
  <2> QED
    BY <1>1, <1>2, LeastNatural
<1>4. ASSUME NEW y \in T PROVE y <= n - k
  <2>1. n - y \in Nat /\ n - (n - y) = y
    OBVIOUS
  <2>2. k <= n - y
    BY <1>3, <2>1
  <2> QED
    BY <2>1, <2>2
<1> QED
  BY <1>4

(* Which member is the last of its name is plain to see. *)
LEMMA LastIs ==
  ASSUME NEW n \in Nat, NEW m, DOMAIN m = 1 .. n, NEW k, NEW j \in 1 .. n, m[j][1] = k,
         \A h \in 1 .. n : m[h][1] = k => h <= j
  PROVE  Last(m, k) = j
<1>1. \A h \in 1 .. n : (m[h][1] = k /\ \A g \in 1 .. n : m[g][1] = k => g <= h) => h = j
  OBVIOUS
<1>2. \E h \in DOMAIN m : m[h][1] = k /\ \A g \in DOMAIN m : m[g][1] = k => g <= h
  OBVIOUS
<1> QED
  BY <1>1, <1>2 DEF Last

(* A member that comes after others counts before those of its name.       *)
LEMMA MergedAppended ==
  ASSUME NEW n \in Nat, NEW m, NEW p, DOMAIN m = 1 .. n + 1, DOMAIN p = 1 .. n,
         \A j \in 1 .. n : p[j] = m[j]
  PROVE  Merged(m) = Put(Merged(p), m[n + 1][1], m[n + 1][2])
<1> DEFINE new == m[n + 1][1]
           both == {new} \cup {p[j][1] : j \in 1 .. n}
<1>1. {m[j][1] : j \in 1 .. n + 1} = both
  OBVIOUS
<1>2. m[Last(m, new)][2] = m[n + 1][2]
  <2>1. Last(m, new) = n + 1
    BY LastIs
  <2> QED
    BY <2>1
<1>3. ASSUME NEW k \in both, k # new PROVE m[Last(m, k)][2] = p[Last(p, k)][2]
  <2> DEFINE T == {j \in 1 .. n : p[j][1] = k}
  <2>1. T \in SUBSET (0 .. n) /\ T # {}
    BY <1>3
  <2> HIDE DEF T
  <2>2. PICK j \in T : \A h \in T : h <= j
    BY <2>1, Greatest
  <2> USE DEF T
  <2>3. j \in 1 .. n /\ p[j][1] = k /\ \A h \in 1 .. n : p[h][1] = k => h <= j
    BY <2>2
  <2>4. Last(p, k) = j
    BY <2>3, LastIs
  <2>5. j \in 1 .. n + 1 /\ m[j][1] = k /\ \A h \in 1 .. n + 1 : m[h][1] = k => h <= j
    BY <1>3, <2>3
  <2>6. Last(m, k) = j
    BY <2>5, LastIs
  <2> QED
    BY <2>3, <2>4, <2>6
<1>4. Merged(m) = [k \in both |-> m[Last(m, k)][2]]
  BY <1>1 DEF Merged
<1>5. Merged(p) = [k \in {p[j][1] : j \in 1 .. n} |-> p[Last(p, k)][2]]
  BY DEF Merged
<1>6. Put(Merged(p), new, m[n + 1][2])
        = [k \in both |-> IF k = new THEN m[n + 1][2] ELSE p[Last(p, k)][2]]
  <2> DEFINE S == {p[j][1] : j \in 1 .. n}
  <2>1. DOMAIN Merged(p) = S /\ \A k \in S : Merged(p)[k] = p[Last(p, k)][2]
    BY <1>5
  <2> HIDE DEF S
  <2>2. Put(Merged(p), new, m[n + 1][2])
          = [k \in {new} \cup S |-> IF k = new THEN m[n + 1][2] ELSE Merged(p)[k]]
    BY <2>1 DEF Put
  <2>3. both = {new} \cup S
    BY DEF S
  <2> HIDE DEF both, new
  <2> QED
    BY <2>1, <2>2, <2>3
<1>7. ASSUME NEW k \in both
      PROVE  m[Last(m, k)][2] = IF k = new THEN m[n + 1][2] ELSE p[Last(p, k)][2]
  BY <1>2, <1>3
<1> HIDE DEF both
<1> QED
  BY <1>4, <1>6, <1>7

-----------------------------------------------------------------------------
(* Texts, their marks, and what they spell *)

(* There are finitely many marks, and each is before a character. *)
LEMMA MarksOf ==
  ASSUME NEW t \in Seq(Character), NEW S
  PROVE  /\ IsFiniteSet(Marks(t, S)) /\ Cardinality(Marks(t, S)) \in Nat
         /\ \A k \in Marks(t, S) : k \in 0 .. Len(t) - 1 /\ k \in Nat /\ t[k + 1] \in S
<1>1. Len(t) - 1 \in Int
  OBVIOUS
<1>2. IsFiniteSet(0 .. Len(t) - 1)
  BY <1>1, FS_Interval
<1>3. Marks(t, S) \in SUBSET (0 .. Len(t) - 1)
  BY DEF Marks
<1>4. IsFiniteSet(Marks(t, S))
  BY <1>2, <1>3, FS_Subset
<1> QED
  BY <1>3, <1>4, FS_CardinalityType DEF Marks

(* The place after the others comes last among them. *)
LEMMA NthMore ==
  ASSUME NEW K \in SUBSET Nat, IsFiniteSet(K), NEW k \in Nat, \A h \in K : h < k
  PROVE  /\ Cardinality(K) \in Nat /\ Cardinality(K \cup {k}) = Cardinality(K) + 1
         /\ Nth(K \cup {k}, Cardinality(K) + 1) = k
         /\ \A j \in 1 .. Cardinality(K) : Nth(K \cup {k}, j) = Nth(K, j)
<1> DEFINE upto(H, h) == {g \in H : g <= h}
           N == Cardinality(K)
<1>1. k \notin K /\ N \in Nat /\ Cardinality(K \cup {k}) = N + 1
  <2>1. k \notin K
    OBVIOUS
  <2> QED
    BY <2>1, FS_AddElement, FS_CardinalityType
<1>2. upto(K \cup {k}, k) = K \cup {k}
  <2>1. \A h \in K \cup {k} : h <= k
    OBVIOUS
  <2> QED
    BY <2>1
<1>3. ASSUME NEW h \in K
      PROVE  Cardinality(upto(K \cup {k}, h)) = Cardinality(upto(K, h))
  <2>1. upto(K \cup {k}, h) = upto(K, h)
    OBVIOUS
  <2> QED
    BY <2>1
<1>4. ASSUME NEW h \in K PROVE Cardinality(upto(K, h)) <= N
  <2>1. upto(K, h) \in SUBSET K
    OBVIOUS
  <2> QED
    BY <2>1, FS_Subset
<1>5. Nth(K \cup {k}, N + 1) = k
  <2>1. \A h \in K : Cardinality(upto(K \cup {k}, h)) # N + 1
    <3> HIDE DEF N
    <3>1. ASSUME NEW c, c <= N PROVE c # N + 1
      BY <1>1, <3>1
    <3> HIDE DEF upto
    <3> QED
      BY <1>3, <1>4, <3>1
  <2>2. Cardinality(upto(K \cup {k}, k)) = N + 1
    BY <1>1, <1>2
  <2>3. \A h \in K \cup {k} : Cardinality(upto(K \cup {k}, h)) = N + 1 <=> h = k
    <3> HIDE DEF upto, N
    <3> QED
      BY <2>1, <2>2
  <2> QED
    BY <2>3 DEF Nth
<1>6. ASSUME NEW j \in 1 .. N PROVE Nth(K \cup {k}, j) = Nth(K, j)
  <2>1. Cardinality(upto(K \cup {k}, k)) # j
    BY <1>1, <1>2
  <2>2. \A h : /\ h \in K \cup {k} /\ Cardinality(upto(K \cup {k}, h)) = j
               <=> h \in K /\ Cardinality(upto(K, h)) = j
    <3> HIDE DEF upto, N
    <3> QED
      BY <2>1, <1>3
  <2> QED
    BY <2>2 DEF Nth
<1> QED
  BY <1>1, <1>5, <1>6

(* One more character is spelled after the others. *)
LEMMA SpelledMore ==
  ASSUME NEW t, NEW K \in SUBSET Nat, IsFiniteSet(K), NEW k \in Nat, \A h \in K : h < k
  PROVE  Spelled(t, K \cup {k}) = Append(Spelled(t, K), t[k + 1])
<1> DEFINE N == Cardinality(K)
<1>1. /\ N \in Nat /\ Cardinality(K \cup {k}) = N + 1 /\ Nth(K \cup {k}, N + 1) = k
      /\ \A j \in 1 .. N : Nth(K \cup {k}, j) = Nth(K, j)
  BY NthMore
<1>2. Spelled(t, K) = [j \in 1 .. N |-> t[Nth(K, j) + 1]]
  BY DEF Spelled
<1>3. Append(Spelled(t, K), t[k + 1])
        = [j \in 1 .. N + 1 |-> IF j = N + 1 THEN t[k + 1] ELSE Spelled(t, K)[j]]
  <2> HIDE DEF N
  <2>1. Spelled(t, K) = [j \in 1 .. N |-> Spelled(t, K)[j]]
    BY <1>2
  <2> QED
    BY <1>1, <2>1, Appended
<1>4. Spelled(t, K \cup {k}) = [j \in 1 .. N + 1 |-> t[Nth(K \cup {k}, j) + 1]]
  BY <1>1 DEF Spelled
<1> HIDE DEF N
<1>5. ASSUME NEW j \in 1 .. N + 1
      PROVE  t[Nth(K \cup {k}, j) + 1]
               = IF j = N + 1 THEN t[k + 1] ELSE Spelled(t, K)[j]
  <2>1. CASE j = N + 1
    BY <1>1, <2>1
  <2>2. CASE j # N + 1
    <3>1. j \in 1 .. N
      BY <1>1, <2>2
    <3> QED
      BY <1>1, <1>2, <2>2, <3>1
  <2> QED
    BY <2>1, <2>2
<1> QED
  BY <1>3, <1>4, <1>5

(* No characters spell nothing. *)
LEMMA SpelledNone ==
  ASSUME NEW t PROVE Spelled(t, {}) = <<>>
<1>1. Cardinality({}) = 0
  BY FS_EmptySet
<1>2. Spelled(t, {}) = [j \in 1 .. 0 |-> t[Nth({}, j) + 1]]
  BY <1>1 DEF Spelled
<1> QED
  BY <1>2

(* What grows from each to the next grows. *)
LEMMA Rising ==
  ASSUME NEW n \in Nat, NEW g, \A j \in 1 .. n : g[j] \in Int,
         \A j \in 1 .. n - 1 : g[j] < g[j + 1]
  PROVE  \A j, k \in 1 .. n : j < k => g[j] < g[k]
<1> DEFINE bad == {d \in Nat : \E j \in 1 .. n : j + 1 + d \in 1 .. n /\ ~(g[j] < g[j + 1 + d])}
<1>1. bad = {}
  <2>1. SUFFICES ASSUME bad # {} PROVE FALSE
    OBVIOUS
  <2>2. PICK d \in bad : \A e \in bad : d <= e
    <3>1. bad \in SUBSET Nat
      OBVIOUS
    <3> HIDE DEF bad
    <3> QED
      BY <2>1, <3>1, LeastNatural
  <2>3. PICK j \in 1 .. n : j + 1 + d \in 1 .. n /\ ~(g[j] < g[j + 1 + d])
    OBVIOUS
  <2>4. d # 0
    BY <2>3
  <2>5. d - 1 \in Nat /\ ~(d <= d - 1) /\ j + 1 + (d - 1) = j + d /\ j + d \in 1 .. n - 1
        /\ (j + d) + 1 = j + 1 + d
    BY <2>3, <2>4
  <2>6. d - 1 \notin bad
    BY <2>2, <2>5
  <2>7. g[j] < g[j + d]
    BY <2>5, <2>6
  <2>8. g[j + d] < g[j + 1 + d]
    BY <2>5
  <2>9. g[j] \in Int /\ g[j + d] \in Int /\ g[j + 1 + d] \in Int
    BY <2>3, <2>5
  <2> QED
    BY <2>3, <2>7, <2>8, <2>9
<1>2. ASSUME NEW j \in 1 .. n, NEW k \in 1 .. n, j < k PROVE g[j] < g[k]
  <2>1. k - j - 1 \in Nat /\ j + 1 + (k - j - 1) = k
    BY <1>2
  <2> QED
    BY <1>1, <2>1
<1> QED
  BY <1>2

-----------------------------------------------------------------------------
(* The parts of a text that denote something *)

(* The characters a value begins with. *)
First == Digit \cup {"-", True, Quote, "[", OpenBrace}

(* The parts in R lie in t, and begin as values do. *)
Solid(t, R) ==
  \A y \in R : /\ y = Part(y.from, y.to, y.val)
               /\ y.from \in Nat /\ y.to \in Nat /\ y.from < y.to /\ y.to <= Len(t)
               /\ t[y.from + 1] \in First

(* What a part is made of. *)
LEMMA PartIs ==
  ASSUME NEW a, NEW b, NEW v
  PROVE  Part(a, b, v).from = a /\ Part(a, b, v).to = b /\ Part(a, b, v).val = v
BY DEF Part

(* A number is where the grammar has one; and the other way round. *)
LEMMA NumberOf ==
  ASSUME NEW t, NEW x \in Numbers(t)
  PROVE  \E a \in Marks(t, Digit \cup {"-"}), b \in Places(t) :
           /\ IsNumber(t, a, b)
           /\ x = Part(a, b, [type |-> "number", of |-> SubSeq(t, a + 1, b)])
<1> DEFINE A == Marks(t, Digit \cup {"-"})
           B == Places(t)
           N(a, b) == Part(a, b, [type |-> "number", of |-> SubSeq(t, a + 1, b)])
           ab == {q \in A \X B : IsNumber(t, q[1], q[2])}
<1>1. Numbers(t) = {N(p[1], p[2]) : p \in ab}
  BY DEF Numbers
<1> HIDE DEF A, B, N
<1>2. PICK p \in ab : x = N(p[1], p[2])
  <2> HIDE DEF ab
  <2> QED
    BY <1>1
<1>3. p[1] \in A /\ p[2] \in B /\ IsNumber(t, p[1], p[2])
  OBVIOUS
<1> QED
  BY <1>2, <1>3 DEF A, B, N

LEMMA NumberIn ==
  ASSUME NEW t, NEW a \in Marks(t, Digit \cup {"-"}), NEW b \in Places(t), IsNumber(t, a, b)
  PROVE  Part(a, b, [type |-> "number", of |-> SubSeq(t, a + 1, b)]) \in Numbers(t)
<1> DEFINE A == Marks(t, Digit \cup {"-"})
           B == Places(t)
           N(c, d) == Part(c, d, [type |-> "number", of |-> SubSeq(t, c + 1, d)])
           ab == {q \in A \X B : IsNumber(t, q[1], q[2])}
<1>1. Numbers(t) = {N(p[1], p[2]) : p \in ab}
  BY DEF Numbers
<1>2. a \in A /\ b \in B
  OBVIOUS
<1> HIDE DEF A, B, N
<1>3. <<a, b>> \in ab
  BY <1>2
<1>4. N(a, b) \in Numbers(t)
  <2> HIDE DEF ab
  <2> QED
    BY <1>1, <1>3
<1> QED
  BY <1>4 DEF N

(* An empty list or object is its two brackets, with blanks between. *)
LEMMA EmptyOf ==
  ASSUME NEW t \in Seq(Character), NEW open, NEW close, NEW v, NEW x,
         x \in Empties(t, open, close, v)
  PROVE  \E a, b \in Nat :
           /\ a < Len(t) /\ t[a + 1] = open /\ b < Len(t) /\ t[b + 1] = close
           /\ Blank(t, a + 1, b) /\ x = Part(a, b + 1, v)
<1> DEFINE A == Marks(t, {open})
           B == Marks(t, {close})
           N(a, b) == Part(a, b + 1, v)
           ab == {q \in A \X B : Blank(t, q[1] + 1, q[2])}
<1>1. Empties(t, open, close, v) = {N(p[1], p[2]) : p \in ab}
  BY DEF Empties
<1> HIDE DEF A, B, N
<1>2. PICK p \in ab : x = N(p[1], p[2])
  <2> HIDE DEF ab
  <2> QED
    BY <1>1
<1>3. p[1] \in A /\ p[2] \in B /\ Blank(t, p[1] + 1, p[2])
  OBVIOUS
<1>4. /\ \A a \in A : a \in Nat /\ a < Len(t) /\ t[a + 1] = open
      /\ \A b \in B : b \in Nat /\ b < Len(t) /\ t[b + 1] = close
  BY DEF A, B, Marks
<1> QED
  BY <1>2, <1>3, <1>4 DEF N

LEMMA EmptyIn ==
  ASSUME NEW t \in Seq(Character), NEW open, NEW close, NEW v, NEW a \in Nat, NEW b \in Nat,
         a < Len(t), t[a + 1] = open, b < Len(t), t[b + 1] = close, Blank(t, a + 1, b)
  PROVE  Part(a, b + 1, v) \in Empties(t, open, close, v)
<1> DEFINE A == Marks(t, {open})
           B == Marks(t, {close})
           N(c, d) == Part(c, d + 1, v)
           ab == {q \in A \X B : Blank(t, q[1] + 1, q[2])}
<1>1. Empties(t, open, close, v) = {N(p[1], p[2]) : p \in ab}
  BY DEF Empties
<1>2. a \in A /\ b \in B
  BY DEF Marks
<1> HIDE DEF A, B, N
<1>3. <<a, b>> \in ab
  BY <1>2
<1>4. N(a, b) \in Empties(t, open, close, v)
  <2> HIDE DEF ab
  <2> QED
    BY <1>1, <1>3
<1> QED
  BY <1>4 DEF N

(* A string is between two quotes. *)
LEMMA QuotedOf ==
  ASSUME NEW t, NEW x \in Quoted(t)
  PROVE  \E a \in Marks(t, {Quote}), b \in Marks(t, {Quote}) : \E E \in Escapings(t, a + 1, b) :
           x = Part(a, b + 1, Spelled(t, (a + 1 .. b - 1) \ E))
<1> DEFINE A == Marks(t, {Quote})
           N(a, b, E) == Part(a, b + 1, Spelled(t, (a + 1 .. b - 1) \ E))
           S(a, b) == {N(a, b, E) : E \in Escapings(t, a + 1, b)}
<1>1. Quoted(t) = UNION {S(a, b) : a \in A, b \in A}
  BY DEF Quoted
<1> HIDE DEF S, A
<1>2. PICK a \in A, b \in A : x \in S(a, b)
  BY <1>1
<1> USE DEF S, A
<1> HIDE DEF N
<1>3. PICK E \in Escapings(t, a + 1, b) : x = N(a, b, E)
  BY <1>2
<1> QED
  BY <1>3 DEF N

LEMMA QuotedIn ==
  ASSUME NEW t, NEW a \in Marks(t, {Quote}), NEW b \in Marks(t, {Quote}),
         NEW E \in Escapings(t, a + 1, b)
  PROVE  Part(a, b + 1, Spelled(t, (a + 1 .. b - 1) \ E)) \in Quoted(t)
<1> DEFINE A == Marks(t, {Quote})
           N(c, d, F) == Part(c, d + 1, Spelled(t, (c + 1 .. d - 1) \ F))
           S(c, d) == {N(c, d, F) : F \in Escapings(t, c + 1, d)}
<1>1. Quoted(t) = UNION {S(c, d) : c \in A, d \in A}
  BY DEF Quoted
<1> HIDE DEF N
<1>2. N(a, b, E) \in S(a, b) /\ a \in A /\ b \in A
  OBVIOUS
<1> HIDE DEF S, A
<1>3. N(a, b, E) \in Quoted(t)
  BY <1>1, <1>2
<1> QED
  BY <1>3 DEF N

(* A slot is between brackets and commas, and has a part of R in it. *)
LEMMA SlotOf ==
  ASSUME NEW t \in Seq(Character), NEW R, Solid(t, R), NEW open, NEW close,
         NEW p, p \in Slots(t, R, open, close)
  PROVE  /\ p = Part(p.from, p.to, p.val)
         /\ p.from \in Nat /\ p.to \in Nat /\ p.from < p.to /\ p.to < Len(t)
         /\ t[p.from + 1] = open \/ t[p.from + 1] = Comma
         /\ t[p.to + 1] = close \/ t[p.to + 1] = Comma
         /\ \E y \in R : p.val = y.val /\ Spaced(t, y, p.from + 1, p.to)
<1> DEFINE A == Marks(t, {open, Comma})
           B == Marks(t, {Comma, close})
           S(a, b) == {Part(a, b, y.val) : y \in {z \in R : Spaced(t, z, a + 1, b)}}
<1>1. Slots(t, R, open, close) = UNION {S(a, b) : a \in A, b \in B}
  BY DEF Slots
<1> HIDE DEF S, A, B
<1>2. PICK a \in A, b \in B : p \in S(a, b)
  BY <1>1
<1>3. PICK y \in R : Spaced(t, y, a + 1, b) /\ p = Part(a, b, y.val)
  BY <1>2 DEF S
<1>4. p.from = a /\ p.to = b /\ p.val = y.val /\ p = Part(p.from, p.to, p.val)
  BY <1>3, PartIs
<1>5. /\ a \in Nat /\ (t[a + 1] = open \/ t[a + 1] = Comma)
      /\ b \in Nat /\ b < Len(t) /\ (t[b + 1] = close \/ t[b + 1] = Comma)
  BY DEF A, B, Marks
<1>6. a < b
  <2>1. a + 1 <= y.from /\ y.to <= b
    BY <1>3 DEF Spaced, Blank
  <2>2. y.from \in Nat /\ y.to \in Nat /\ y.from < y.to
    BY DEF Solid
  <2> QED
    BY <1>5, <2>1, <2>2
<1> QED
  BY <1>3, <1>4, <1>5, <1>6

LEMMA SlotIn ==
  ASSUME NEW t \in Seq(Character), NEW R, NEW open, NEW close, NEW a \in Nat, NEW b \in Nat,
         a < Len(t), t[a + 1] = open \/ t[a + 1] = Comma,
         b < Len(t), t[b + 1] = close \/ t[b + 1] = Comma,
         NEW y \in R, Spaced(t, y, a + 1, b)
  PROVE  Part(a, b, y.val) \in Slots(t, R, open, close)
<1> DEFINE A == Marks(t, {open, Comma})
           B == Marks(t, {Comma, close})
           S(c, d) == {Part(c, d, z.val) : z \in {x \in R : Spaced(t, x, c + 1, d)}}
<1>1. Slots(t, R, open, close) = UNION {S(c, d) : c \in A, d \in B}
  BY DEF Slots
<1>2. Part(a, b, y.val) \in S(a, b)
  OBVIOUS
<1>3. a \in A /\ b \in B
  BY DEF Marks
<1> HIDE DEF S, A, B
<1> QED
  BY <1>1, <1>2, <1>3

(* A pair is a string, a colon and a part of R. *)
LEMMA PairOf ==
  ASSUME NEW t, NEW R, NEW p \in Pairs(t, R)
  PROVE  \E x \in Quoted(t), y \in R :
           Colon(t, x.to, y.from) /\ p = Part(x.from, y.to, <<x.val, y.val>>)
<1> DEFINE N(x, y) == Part(x.from, y.to, <<x.val, y.val>>)
           S(x) == {N(x, y) : y \in {z \in R : Colon(t, x.to, z.from)}}
<1>1. Pairs(t, R) = UNION {S(x) : x \in Quoted(t)}
  BY DEF Pairs
<1> HIDE DEF S
<1>2. PICK x \in Quoted(t) : p \in S(x)
  BY <1>1
<1> USE DEF S
<1> HIDE DEF N
<1>3. PICK y \in R : Colon(t, x.to, y.from) /\ p = N(x, y)
  BY <1>2
<1> QED
  BY <1>3 DEF N

LEMMA PairIn ==
  ASSUME NEW t, NEW R, NEW x \in Quoted(t), NEW y \in R, Colon(t, x.to, y.from)
  PROVE  Part(x.from, y.to, <<x.val, y.val>>) \in Pairs(t, R)
<1> DEFINE N(q, z) == Part(q.from, z.to, <<q.val, z.val>>)
           S(q) == {N(q, z) : z \in {w \in R : Colon(t, q.to, w.from)}}
<1>1. Pairs(t, R) = UNION {S(q) : q \in Quoted(t)}
  BY DEF Pairs
<1> HIDE DEF N
<1>2. N(x, y) \in S(x)
  OBVIOUS
<1> HIDE DEF S
<1>3. N(x, y) \in Pairs(t, R)
  BY <1>1, <1>2
<1> QED
  BY <1>3 DEF N

(* All these parts lie in the text, and begin as values do. *)
LEMMA NumbersSolid ==
  ASSUME NEW t \in Seq(Character) PROVE Solid(t, Numbers(t))
<1>1. SUFFICES ASSUME NEW x \in Numbers(t)
      PROVE /\ x = Part(x.from, x.to, x.val)
            /\ x.from \in Nat /\ x.to \in Nat /\ x.from < x.to /\ x.to <= Len(t)
            /\ t[x.from + 1] \in First
  BY DEF Solid
<1>2. PICK a \in Marks(t, Digit \cup {"-"}), b \in Places(t) :
        /\ IsNumber(t, a, b)
        /\ x = Part(a, b, [type |-> "number", of |-> SubSeq(t, a + 1, b)])
  BY NumberOf
<1>3. a \in Nat /\ t[a + 1] \in First
  BY MarksOf DEF First
<1>4. b \in Nat /\ b <= Len(t)
  BY DEF Places
<1>5. a < b
  BY <1>2, <1>3, <1>4 DEF IsNumber, IsWhole, Digital
<1> QED
  BY <1>2, <1>3, <1>4, <1>5, PartIs

LEMMA EmptiesSolid ==
  ASSUME NEW t \in Seq(Character), NEW v, NEW open, open \in First, NEW close
  PROVE  Solid(t, Empties(t, open, close, v))
<1>1. SUFFICES ASSUME NEW x \in Empties(t, open, close, v)
      PROVE /\ x = Part(x.from, x.to, x.val)
            /\ x.from \in Nat /\ x.to \in Nat /\ x.from < x.to /\ x.to <= Len(t)
            /\ t[x.from + 1] \in First
  BY DEF Solid
<1>2. PICK a, b \in Nat :
        /\ a < Len(t) /\ t[a + 1] = open /\ b < Len(t) /\ t[b + 1] = close
        /\ Blank(t, a + 1, b) /\ x = Part(a, b + 1, v)
  BY <1>1, EmptyOf
<1>3. a \in Nat /\ t[a + 1] \in First /\ b \in Nat /\ b < Len(t)
  BY <1>2
<1>4. a + 1 <= b
  BY <1>2 DEF Blank
<1>5. Len(t) \in Nat
  OBVIOUS
<1>6. a < b + 1 /\ b + 1 <= Len(t) /\ b + 1 \in Nat
  BY <1>3, <1>4, <1>5
<1> QED
  BY <1>2, <1>3, <1>6, PartIs

LEMMA QuotedSolid ==
  ASSUME NEW t \in Seq(Character) PROVE Solid(t, Quoted(t))
<1>1. SUFFICES ASSUME NEW x \in Quoted(t)
      PROVE /\ x = Part(x.from, x.to, x.val)
            /\ x.from \in Nat /\ x.to \in Nat /\ x.from < x.to /\ x.to <= Len(t)
            /\ t[x.from + 1] \in First
  BY DEF Solid
<1>2. PICK a \in Marks(t, {Quote}), b \in Marks(t, {Quote}) :
        \E E \in Escapings(t, a + 1, b) : x = Part(a, b + 1, Spelled(t, (a + 1 .. b - 1) \ E))
  BY QuotedOf
<1>3. a \in Nat /\ t[a + 1] \in First /\ b \in Nat /\ b <= Len(t) - 1
  BY MarksOf DEF First
<1>4. a + 1 <= b
  BY <1>2 DEF Escapings, IsEscaping
<1>5. Len(t) \in Nat
  OBVIOUS
<1>6. a < b + 1 /\ b + 1 <= Len(t) /\ b + 1 \in Nat
  BY <1>3, <1>4, <1>5
<1> QED
  BY <1>2, <1>3, <1>6, PartIs

LEMMA FlatSolid ==
  ASSUME NEW t \in Seq(Character) PROVE Solid(t, Flat(t))
<1>1. Solid(t, Literals(t))
  <2>1. SUFFICES ASSUME NEW x \in Literals(t)
        PROVE /\ x = Part(x.from, x.to, x.val)
              /\ x.from \in Nat /\ x.to \in Nat /\ x.from < x.to /\ x.to <= Len(t)
              /\ t[x.from + 1] \in First
    BY DEF Solid
  <2>2. PICK a \in Marks(t, {True}) :
          x = Part(a, a + 1, [type |-> "literal", of |-> <<True>>])
    BY DEF Literals
  <2>3. a \in Nat /\ t[a + 1] \in First /\ a <= Len(t) - 1
    BY MarksOf DEF First
  <2>4. Len(t) \in Nat
    OBVIOUS
  <2>5. a + 1 \in Nat /\ a < a + 1 /\ a + 1 <= Len(t)
    BY <2>3, <2>4
  <2> QED
    BY <2>2, <2>3, <2>5, PartIs
<1>2. Solid(t, Strings(t))
  <2>1. SUFFICES ASSUME NEW x \in Strings(t)
        PROVE /\ x = Part(x.from, x.to, x.val)
              /\ x.from \in Nat /\ x.to \in Nat /\ x.from < x.to /\ x.to <= Len(t)
              /\ t[x.from + 1] \in First
    BY DEF Solid
  <2>2. PICK q \in Quoted(t) : x = Part(q.from, q.to, [type |-> "string", of |-> q.val])
    BY DEF Strings
  <2>3. /\ q.from \in Nat /\ q.to \in Nat /\ q.from < q.to /\ q.to <= Len(t)
        /\ t[q.from + 1] \in First
    BY QuotedSolid DEF Solid
  <2> QED
    BY <2>2, <2>3, PartIs
<1>3. Solid(t, Numbers(t))
  BY NumbersSolid
<1>4. /\ Solid(t, Empties(t, "[", "]", Value(List)))
      /\ Solid(t, Empties(t, OpenBrace, CloseBrace, Value(Object)))
  BY EmptiesSolid DEF First
<1> QED
  BY <1>1, <1>2, <1>3, <1>4 DEF Flat, Solid

LEMMA PairsSolid ==
  ASSUME NEW t \in Seq(Character), NEW R, Solid(t, R) PROVE Solid(t, Pairs(t, R))
<1>1. SUFFICES ASSUME NEW p \in Pairs(t, R)
      PROVE /\ p = Part(p.from, p.to, p.val)
            /\ p.from \in Nat /\ p.to \in Nat /\ p.from < p.to /\ p.to <= Len(t)
            /\ t[p.from + 1] \in First
  BY DEF Solid
<1>2. PICK x \in Quoted(t), y \in R :
        Colon(t, x.to, y.from) /\ p = Part(x.from, y.to, <<x.val, y.val>>)
  BY PairOf
<1>3. /\ x.from \in Nat /\ x.to \in Nat /\ x.from < x.to /\ t[x.from + 1] \in First
      /\ y.from \in Nat /\ y.to \in Nat /\ y.from < y.to /\ y.to <= Len(t)
  BY QuotedSolid DEF Solid
<1>4. x.to <= y.from
  <2>1. PICK e \in Marks(t, {":"}) : Blank(t, x.to, e) /\ Blank(t, e + 1, y.from)
    BY <1>2 DEF Colon
  <2>2. e \in Nat
    BY MarksOf
  <2>3. x.to <= e /\ e + 1 <= y.from
    BY <2>1 DEF Blank
  <2> QED
    BY <1>3, <2>2, <2>3
<1>5. x.from < y.to
  BY <1>3, <1>4
<1> QED
  BY <1>2, <1>3, <1>5, PartIs

-----------------------------------------------------------------------------
(* Rows of slots *)

(* The slots of a list or object: what is between two of them is a comma.  *)
IsRow(t, R, open, close, n, f) ==
  /\ n \in Nat \ {0} /\ DOMAIN f = 1 .. n /\ f = [j \in 1 .. n |-> f[j]]
  /\ \A j \in 1 .. n : f[j] \in Slots(t, R, open, close)
  /\ \A j \in 1 .. n - 1 : f[j].to = f[j + 1].from /\ t[f[j].to + 1] = Comma
  /\ t[f[1].from + 1] = open /\ t[f[n].to + 1] = close

(* The rows of the grammar are rows of slots; and the other way round. *)
LEMMA RowOf ==
  ASSUME NEW t \in Seq(Character), NEW R, Solid(t, R), NEW open, NEW close,
         open # Comma, close # Comma, open # close, NEW f, f \in Rows(t, R, open, close)
  PROVE  IsRow(t, R, open, close, Len(f), f)
<1> DEFINE S == Slots(t, R, open, close)
           C == Cardinality(Marks(t, {Comma})) + 1
<1>1. /\ f \in UNION {[1 .. n -> S] : n \in 1 .. C}
      /\ Linked(f) /\ t[f[1].from + 1] = open /\ t[f[Len(f)].to + 1] = close
  BY DEF Rows
<1>2. C \in Nat
  BY MarksOf
<1> HIDE DEF S, C
<1>3. PICK n \in 1 .. C : f \in [1 .. n -> S]
  BY <1>1
<1>4. n \in Nat \ {0} /\ f \in Seq(S) /\ Len(f) = n
  BY <1>2, <1>3
<1>5. DOMAIN f = 1 .. n /\ f = [j \in 1 .. n |-> f[j]] /\ \A j \in 1 .. n : f[j] \in S
  BY <1>3
<1>6. ASSUME NEW j \in 1 .. n - 1
      PROVE  f[j].to = f[j + 1].from /\ t[f[j].to + 1] = Comma
  <2>1. f[j].to = f[j + 1].from
    BY <1>1, <1>4 DEF Linked
  <2>2. j \in 1 .. n /\ j + 1 \in 1 .. n
    BY <1>4
  <2>3. f[j] \in S /\ f[j + 1] \in S
    BY <1>5, <2>2
  <2>4. t[f[j].to + 1] = close \/ t[f[j].to + 1] = Comma
    BY <2>3, SlotOf DEF S
  <2>5. t[f[j + 1].from + 1] = open \/ t[f[j + 1].from + 1] = Comma
    BY <2>3, SlotOf DEF S
  <2> QED
    BY <2>1, <2>4, <2>5
<1> QED
  BY <1>1, <1>4, <1>5, <1>6 DEF IsRow, S

(* A text has a comma for each slot but one. *)
LEMMA RowIn ==
  ASSUME NEW t \in Seq(Character), NEW R, Solid(t, R), NEW open, NEW close,
         NEW n, NEW f, IsRow(t, R, open, close, n, f)
  PROVE  Len(f) = n /\ f \in Rows(t, R, open, close)
<1> DEFINE S == Slots(t, R, open, close)
           C == Marks(t, {Comma})
           g == [j \in 1 .. n - 1 |-> f[j].to]
<1>1. /\ n \in Nat \ {0} /\ DOMAIN f = 1 .. n /\ f = [j \in 1 .. n |-> f[j]]
      /\ \A j \in 1 .. n : f[j] \in S
      /\ \A j \in 1 .. n - 1 : f[j].to = f[j + 1].from /\ t[f[j].to + 1] = Comma
      /\ t[f[1].from + 1] = open /\ t[f[n].to + 1] = close
  BY DEF IsRow
<1>2. ASSUME NEW j \in 1 .. n
      PROVE  /\ f[j].from \in Nat /\ f[j].to \in Nat /\ f[j].from < f[j].to
             /\ f[j].to < Len(t)
  <2>1. f[j] \in S
    BY <1>1
  <2> QED
    BY <2>1, SlotOf
<1> HIDE DEF S
<1>3. f \in [1 .. n -> S] /\ f \in Seq(S) /\ Len(f) = n
  <2>1. f \in [1 .. n -> S]
    BY <1>1
  <2> QED
    BY <1>1, <2>1
<1>4. Linked(f)
  BY <1>1, <1>3 DEF Linked
<1>5. \A j \in 1 .. n - 1 : j \in 1 .. n /\ j + 1 \in 1 .. n
  BY <1>1
<1>6. \A j \in 1 .. n - 1 : g[j] \in C
  <2>1. ASSUME NEW j \in 1 .. n - 1 PROVE f[j].to \in 0 .. Len(t) - 1 /\ t[f[j].to + 1] = Comma
    <3>1. f[j].to \in Nat /\ f[j].to < Len(t) /\ Len(t) \in Nat
      BY <1>2, <1>5
    <3>2. t[f[j].to + 1] = Comma
      BY <1>1
    <3>3. \A a \in Nat : a < Len(t) => a \in 0 .. Len(t) - 1
      BY <3>1
    <3> QED
      BY <3>1, <3>2, <3>3
  <2> QED
    BY <2>1 DEF Marks
<1>7. \A j \in 1 .. n - 1 : g[j] \in Int
  BY <1>2, <1>5
<1>8. ASSUME NEW j \in 1 .. (n - 1) - 1 PROVE g[j] < g[j + 1]
  <2>1. j \in 1 .. n - 1 /\ j + 1 \in 1 .. n - 1
    BY <1>1
  <2>2. f[j].to = f[j + 1].from /\ f[j + 1].from < f[j + 1].to
    BY <1>1, <1>2, <1>5, <2>1
  <2> QED
    BY <2>1, <2>2
<1>9. n - 1 \in Nat
  BY <1>1
<1> HIDE DEF g
<1>10. \A j, k \in 1 .. n - 1 : j < k => g[j] < g[k]
  BY <1>7, <1>8, <1>9, Rising
<1>11. g \in Injection(1 .. n - 1, C)
  <2>1. g \in [1 .. n - 1 -> C]
    BY <1>6 DEF g
  <2>2. ASSUME NEW j \in 1 .. n - 1, NEW k \in 1 .. n - 1, g[j] = g[k] PROVE j = k
    <3>1. ~(j < k) /\ ~(k < j)
      BY <1>7, <1>10, <2>2
    <3> QED
      BY <3>1
  <2>3. DOMAIN g = 1 .. n - 1
    BY DEF g
  <2> QED
    BY <2>1, <2>2, <2>3 DEF Injection, IsInjective
<1>12. IsFiniteSet(C) /\ Cardinality(C) \in Nat
  BY MarksOf
<1>13. Cardinality(1 .. n - 1) <= Cardinality(C)
  BY <1>11, <1>12, FS_Injection
<1>14. Cardinality(1 .. n - 1) = n - 1
  BY <1>9, FS_Interval
<1>15. n \in 1 .. Cardinality(C) + 1
  BY <1>1, <1>12, <1>13, <1>14
<1>16. f \in UNION {[1 .. k -> S] : k \in 1 .. Cardinality(C) + 1}
  BY <1>3, <1>15
<1> QED
  BY <1>1, <1>3, <1>4, <1>16 DEF Rows, S

(* Of its values, those before the j-th. *)
Before(f, j) == [k \in 1 .. j - 1 |-> f[k].val]

(* All values of a row are those before its end. *)
LEMMA ValuesAre ==
  ASSUME NEW n \in Nat, NEW f, DOMAIN f = 1 .. n
  PROVE  Values(f) = Before(f, n + 1) /\ DOMAIN Values(f) = 1 .. n
BY DEF Values, Before

(* One more value is appended, or put under its name. *)
LEMMA BeforeNext ==
  ASSUME NEW f, NEW j \in Nat \ {0}
  PROVE  /\ Append(Before(f, j), f[j].val) = Before(f, j + 1)
         /\ Merged(Before(f, j + 1)) = Put(Merged(Before(f, j)), f[j].val[1], f[j].val[2])
<1>1. j - 1 \in Nat /\ (j - 1) + 1 = j /\ (j + 1) - 1 = j
  OBVIOUS
<1>2. /\ Before(f, j) = [k \in 1 .. j - 1 |-> f[k].val]
      /\ Before(f, j + 1) = [k \in 1 .. j |-> f[k].val]
  BY <1>1 DEF Before
<1>3. Append(Before(f, j), f[j].val) = Before(f, j + 1)
  <2>1. Before(f, j) = [k \in 1 .. j - 1 |-> Before(f, j)[k]]
    BY <1>2
  <2>2. Append(Before(f, j), f[j].val)
          = [k \in 1 .. j |-> IF k = j THEN f[j].val ELSE Before(f, j)[k]]
    BY <1>1, <2>1, Appended
  <2>3. ASSUME NEW k \in 1 .. j
        PROVE  f[k].val = IF k = j THEN f[j].val ELSE Before(f, j)[k]
    <3>1. k # j => k \in 1 .. j - 1
      OBVIOUS
    <3> QED
      BY <1>2, <3>1
  <2> QED
    BY <1>2, <2>2, <2>3
<1>4. Merged(Before(f, j + 1)) = Put(Merged(Before(f, j)), f[j].val[1], f[j].val[2])
  <2> DEFINE m == Before(f, j + 1)
             p == Before(f, j)
  <2>1. /\ DOMAIN m = 1 .. (j - 1) + 1 /\ DOMAIN p = 1 .. j - 1
        /\ \A k \in 1 .. j - 1 : p[k] = m[k]
    BY <1>1, <1>2
  <2>2. m[(j - 1) + 1] = f[j].val
    BY <1>1, <1>2
  <2> HIDE DEF m, p
  <2>3. Merged(m) = Put(Merged(p), m[(j - 1) + 1][1], m[(j - 1) + 1][2])
    BY <1>1, <2>1, MergedAppended
  <2> QED
    BY <2>2, <2>3 DEF m, p
<1> QED
  BY <1>3, <1>4

(* Before the first there are none. *)
LEMMA BeforeFirst == ASSUME NEW f PROVE Before(f, 1) = <<>> /\ Merged(Before(f, 1)) = Object.of
<1>1. Before(f, 1) = <<>> /\ DOMAIN Before(f, 1) = {}
  BY DEF Before
<1>2. Merged(Before(f, 1)) = [n \in {} |-> Before(f, 1)[Last(Before(f, 1), n)][2]]
  BY <1>1 DEF Merged
<1>3. Object.of = [k \in {} |-> Null]
  BY DEF Object
<1> QED
  BY <1>1, <1>2, <1>3

-----------------------------------------------------------------------------
(* Lists, objects and levels *)

ListPart(n, f) == Part(f[1].from, f[n].to + 1, [type |-> "array", of |-> Values(f)])
ObjectPart(n, f) ==
  Part(f[1].from, f[n].to + 1, [type |-> "object", of |-> Merged(Values(f))])

(* Where a row lies. *)
LEMMA RowSpan ==
  ASSUME NEW t \in Seq(Character), NEW R, Solid(t, R), NEW open, NEW close,
         NEW n, NEW f, IsRow(t, R, open, close, n, f)
  PROVE  /\ f[1].from \in Nat /\ f[n].to \in Nat /\ f[1].from < f[n].to /\ f[n].to < Len(t)
         /\ t[f[1].from + 1] = open /\ t[f[n].to + 1] = close
<1> DEFINE g == [j \in 1 .. n |-> f[j].to]
<1>1. /\ n \in Nat \ {0}
      /\ \A j \in 1 .. n - 1 : f[j].to = f[j + 1].from
      /\ t[f[1].from + 1] = open /\ t[f[n].to + 1] = close
  BY DEF IsRow
<1>2. ASSUME NEW j \in 1 .. n
      PROVE  /\ f[j].from \in Nat /\ f[j].to \in Nat /\ f[j].from < f[j].to
             /\ f[j].to < Len(t)
  <2>1. f[j] \in Slots(t, R, open, close)
    BY DEF IsRow
  <2> QED
    BY <2>1, SlotOf
<1>3. 1 \in 1 .. n /\ n \in 1 .. n
  BY <1>1
<1>4. ASSUME NEW j \in 1 .. n - 1 PROVE g[j] < g[j + 1]
  <2>1. j \in 1 .. n /\ j + 1 \in 1 .. n
    BY <1>1
  <2> QED
    BY <1>1, <1>2, <2>1
<1>5. \A j \in 1 .. n : g[j] \in Int
  BY <1>2
<1>6. g[1] = f[1].to /\ g[n] = f[n].to
  BY <1>3
<1> HIDE DEF g
<1>7. 1 < n => g[1] < g[n]
  <2>1. \A j, k \in 1 .. n : j < k => g[j] < g[k]
    BY <1>1, <1>4, <1>5, Rising
  <2> QED
    BY <1>3, <2>1
<1>8. 1 < n \/ n = 1
  BY <1>1
<1>9. /\ f[1].from \in Nat /\ f[1].to \in Nat /\ f[1].from < f[1].to
      /\ f[n].to \in Nat /\ f[n].to < Len(t)
  BY <1>2, <1>3
<1>10. f[1].to <= f[n].to
  BY <1>6, <1>7, <1>8, <1>9
<1>11. f[1].from < f[n].to
  BY <1>9, <1>10
<1> QED
  BY <1>1, <1>9, <1>11

(* Brackets and commas are told from each other. *)
LEMMA Brackets == "[" # Comma /\ "]" # Comma /\ OpenBrace # Comma /\ CloseBrace # Comma
                  /\ "[" # "]" /\ OpenBrace # CloseBrace
BY Chars DEF Plain

(* A list is a row of values, and an object one of pairs. *)
LEMMA ListOf ==
  ASSUME NEW t \in Seq(Character), NEW R, Solid(t, R), NEW x \in Lists(t, R)
  PROVE  \E n, f : IsRow(t, R, "[", "]", n, f) /\ x = ListPart(n, f)
<1>1. PICK f \in Rows(t, R, "[", "]") : x = ListPart(Len(f), f)
  BY DEF Lists, ListPart
<1>2. IsRow(t, R, "[", "]", Len(f), f)
  BY RowOf, Brackets
<1> QED
  BY <1>1, <1>2

LEMMA ListIn ==
  ASSUME NEW t \in Seq(Character), NEW R, Solid(t, R), NEW n, NEW f,
         IsRow(t, R, "[", "]", n, f)
  PROVE  ListPart(n, f) \in Lists(t, R)
<1>1. Len(f) = n /\ f \in Rows(t, R, "[", "]")
  BY RowIn
<1> QED
  BY <1>1 DEF Lists, ListPart

LEMMA ObjectOf ==
  ASSUME NEW t \in Seq(Character), NEW R, Solid(t, R), NEW x \in Objects(t, R)
  PROVE  \E n, f : IsRow(t, Pairs(t, R), OpenBrace, CloseBrace, n, f) /\ x = ObjectPart(n, f)
<1>1. PICK f \in Rows(t, Pairs(t, R), OpenBrace, CloseBrace) : x = ObjectPart(Len(f), f)
  BY DEF Objects, ObjectPart
<1>2. IsRow(t, Pairs(t, R), OpenBrace, CloseBrace, Len(f), f)
  BY RowOf, Brackets, PairsSolid
<1> QED
  BY <1>1, <1>2

LEMMA ObjectIn ==
  ASSUME NEW t \in Seq(Character), NEW R, Solid(t, R), NEW n, NEW f,
         IsRow(t, Pairs(t, R), OpenBrace, CloseBrace, n, f)
  PROVE  ObjectPart(n, f) \in Objects(t, R)
<1>1. Len(f) = n /\ f \in Rows(t, Pairs(t, R), OpenBrace, CloseBrace)
  BY RowIn, PairsSolid
<1> QED
  BY <1>1 DEF Objects, ObjectPart

(* What is made of solid parts is solid. *)
LEMMA NestedSolid ==
  ASSUME NEW t \in Seq(Character), NEW R, Solid(t, R) PROVE Solid(t, Nested(t, R))
<1>1. ASSUME NEW M, Solid(t, M), NEW open \in First, NEW close, NEW n, NEW f, NEW v, NEW x,
             IsRow(t, M, open, close, n, f), x = Part(f[1].from, f[n].to + 1, v)
      PROVE  /\ x = Part(x.from, x.to, x.val)
             /\ x.from \in Nat /\ x.to \in Nat /\ x.from < x.to /\ x.to <= Len(t)
             /\ t[x.from + 1] \in First
  <2>1. /\ f[1].from \in Nat /\ f[n].to \in Nat /\ f[1].from < f[n].to /\ f[n].to < Len(t)
        /\ t[f[1].from + 1] = open
    BY <1>1, RowSpan
  <2>2. x.from = f[1].from /\ x.to = f[n].to + 1 /\ x.val = v
    BY <1>1, PartIs
  <2>3. Len(t) \in Nat
    OBVIOUS
  <2> QED
    BY <1>1, <2>1, <2>2, <2>3
<1>2. ASSUME NEW x \in Nested(t, R)
      PROVE  /\ x = Part(x.from, x.to, x.val)
             /\ x.from \in Nat /\ x.to \in Nat /\ x.from < x.to /\ x.to <= Len(t)
             /\ t[x.from + 1] \in First
  <2>1. CASE x \in Lists(t, R)
    <3>1. PICK n, f : IsRow(t, R, "[", "]", n, f) /\ x = ListPart(n, f)
      BY <2>1, ListOf
    <3>2. "[" \in First
      BY DEF First
    <3> QED
      BY <1>1, <3>1, <3>2 DEF ListPart
  <2>2. CASE x \in Objects(t, R)
    <3>1. PICK n, f : IsRow(t, Pairs(t, R), OpenBrace, CloseBrace, n, f) /\ x = ObjectPart(n, f)
      BY <2>2, ObjectOf
    <3>2. OpenBrace \in First /\ Solid(t, Pairs(t, R))
      BY PairsSolid DEF First
    <3> QED
      BY <1>1, <3>1, <3>2 DEF ObjectPart
  <2> QED
    BY <2>1, <2>2 DEF Nested
<1> QED
  BY <1>2 DEF Solid

(* What there is at a level is flat or made of what there is below. *)
LEMMA LevelOf ==
  ASSUME NEW t, NEW n \in Nat, NEW x \in Readings(t)[n]
  PROVE  x \in Flat(t) \/ (n > 0 /\ x \in Nested(t, Readings(t)[n - 1]))
<1>1. CASE n = 0
  BY <1>1, ReadingsOf
<1>2. CASE n # 0
  <2>1. n - 1 \in Nat /\ (n - 1) + 1 = n /\ n > 0
    BY <1>2
  <2>2. Readings(t)[(n - 1) + 1] = Flat(t) \cup Nested(t, Readings(t)[n - 1])
    BY <2>1, ReadingsOf
  <2> QED
    BY <2>1, <2>2
<1> QED
  BY <1>1, <1>2

(* And the other way round. *)
LEMMA LevelIn ==
  ASSUME NEW t, NEW n \in Nat
  PROVE  /\ Flat(t) \subseteq Readings(t)[n]
         /\ n > 0 => Nested(t, Readings(t)[n - 1]) \subseteq Readings(t)[n]
<1>1. CASE n = 0
  BY <1>1, ReadingsOf
<1>2. CASE n # 0
  <2>1. n - 1 \in Nat /\ (n - 1) + 1 = n /\ n > 0
    BY <1>2
  <2>2. Readings(t)[(n - 1) + 1] = Flat(t) \cup Nested(t, Readings(t)[n - 1])
    BY <2>1, ReadingsOf
  <2> QED
    BY <2>1, <2>2
<1> QED
  BY <1>1, <1>2

(* So all readings are solid. *)
LEMMA ReadingsSolid ==
  ASSUME NEW t \in Seq(Character) PROVE \A n \in Nat : Solid(t, Readings(t)[n])
<1> DEFINE bad == {n \in Nat : ~Solid(t, Readings(t)[n])}
<1>1. SUFFICES ASSUME bad # {} PROVE FALSE
  OBVIOUS
<1>2. PICK n \in bad : \A m \in bad : n <= m
  <2>1. bad \in SUBSET Nat
    OBVIOUS
  <2> HIDE DEF bad
  <2> QED
    BY <1>1, <2>1, LeastNatural
<1>3. n \in Nat /\ ~Solid(t, Readings(t)[n])
  OBVIOUS
<1>4. CASE n = 0
  BY <1>3, <1>4, ReadingsOf, FlatSolid
<1>5. CASE n # 0
  <2>1. n - 1 \in Nat /\ (n - 1) + 1 = n /\ ~(n <= n - 1)
    BY <1>3, <1>5
  <2>2. n - 1 \notin bad
    BY <1>2, <2>1
  <2>3. Solid(t, Readings(t)[n - 1])
    BY <2>1, <2>2
  <2>4. Solid(t, Nested(t, Readings(t)[n - 1]))
    BY <2>3, NestedSolid
  <2>5. Readings(t)[(n - 1) + 1] = Flat(t) \cup Nested(t, Readings(t)[n - 1])
    BY <2>1, ReadingsOf
  <2>6. Solid(t, Flat(t))
    BY FlatSolid
  <2>7. Solid(t, Flat(t) \cup Nested(t, Readings(t)[n - 1]))
    BY <2>4, <2>6 DEF Solid
  <2> QED
    BY <1>3, <2>1, <2>5, <2>7
<1> QED
  BY <1>4, <1>5

-----------------------------------------------------------------------------
(* Strings, character by character *)

(* What t spells from a to k with the backslashes of E for escapes. *)
SpelledTo(t, a, k, E) == Spelled(t, (a .. k - 1) \ E)

(* A character that comes after those of a string is spelled after them. *)
LEMMA SpelledOne ==
  ASSUME NEW t, NEW a \in Nat, NEW k \in Nat, NEW K \in SUBSET (a .. k - 1),
         NEW m \in Nat, k <= m
  PROVE  Spelled(t, K \cup {m}) = Append(Spelled(t, K), t[m + 1])
<1>1. a .. k - 1 \in SUBSET Nat /\ IsFiniteSet(a .. k - 1)
  <2>1. k - 1 \in Int
    OBVIOUS
  <2> QED
    BY <2>1, FS_Interval
<1>2. K \in SUBSET Nat /\ IsFiniteSet(K)
  BY <1>1, FS_Subset
<1>3. \A h \in K : h < m
  OBVIOUS
<1> QED
  BY <1>2, <1>3, SpelledMore

(* A string begins with no characters and no escapes, *)
LEMMA EscapeNone ==
  ASSUME NEW t, NEW a \in Nat
  PROVE  {} \in Escapings(t, a, a) /\ SpelledTo(t, a, a, {}) = <<>>
<1>1. (a .. a - 1) \ {} = {}
  OBVIOUS
<1>2. SpelledTo(t, a, a, {}) = <<>>
  BY <1>1, SpelledNone DEF SpelledTo
<1>3. {} \in Escapings(t, a, a)
  BY DEF Escapings, IsEscaping
<1> QED
  BY <1>2, <1>3

(* and goes on with a character that is not escaped, *)
LEMMA EscapePlain ==
  ASSUME NEW t, NEW a \in Nat, NEW k \in Nat, a <= k, NEW E \in Escapings(t, a, k),
         t[k + 1] \notin {Quote, Backslash, Control}
  PROVE  /\ E \in Escapings(t, a, k + 1)
         /\ SpelledTo(t, a, k + 1, E) = Append(SpelledTo(t, a, k, E), t[k + 1])
<1>1. /\ \A h \in E : h \in a .. k - 1 /\ t[h + 1] = Backslash
      /\ \A h \in E : h + 1 < k /\ h + 1 \notin E /\ t[h + 2] \in {Quote, Backslash}
      /\ \A h \in a .. k - 1 :
           t[h + 1] \in {Quote, Backslash, Control} => h \in E \/ h - 1 \in E
  BY DEF Escapings, IsEscaping
<1>2. \A h \in a .. (k + 1) - 1 : h \in a .. k - 1 \/ h = k
  OBVIOUS
<1>3. \A h \in E : h \in a .. (k + 1) - 1 /\ h + 1 < k + 1
  BY <1>1
<1>4. E \in Escapings(t, a, k + 1)
  <2>1. \A h \in a .. (k + 1) - 1 :
           t[h + 1] \in {Quote, Backslash, Control} => h \in E \/ h - 1 \in E
    BY <1>1, <1>2
  <2>2. E \in SUBSET {h \in a .. (k + 1) - 1 : t[h + 1] = Backslash}
    BY <1>1, <1>3
  <2>3. a <= k + 1
    OBVIOUS
  <2> QED
    BY <1>1, <1>3, <2>1, <2>2, <2>3 DEF Escapings, IsEscaping
<1> DEFINE K == (a .. k - 1) \ E
<1>5. (a .. (k + 1) - 1) \ E = K \cup {k} /\ K \in SUBSET (a .. k - 1)
  BY <1>1, <1>2
<1>6. SpelledTo(t, a, k + 1, E) = Append(SpelledTo(t, a, k, E), t[k + 1])
  <2> HIDE DEF K
  <2>0. a \in Nat /\ k \in Nat /\ k <= k /\ K \in SUBSET (a .. k - 1)
    BY <1>5
  <2>1. Spelled(t, K \cup {k}) = Append(Spelled(t, K), t[k + 1])
    BY ONLY <2>0, SpelledOne
  <2> QED
    BY <1>5, <2>1 DEF K, SpelledTo
<1> QED
  BY <1>4, <1>6

(* or with a backslash and what it escapes. *)
LEMMA EscapePair ==
  ASSUME NEW t, NEW a \in Nat, NEW k \in Nat, a <= k, NEW E \in Escapings(t, a, k),
         t[k + 1] = Backslash, t[k + 2] \in {Quote, Backslash}
  PROVE  /\ E \cup {k} \in Escapings(t, a, k + 2)
         /\ SpelledTo(t, a, k + 2, E \cup {k}) = Append(SpelledTo(t, a, k, E), t[k + 2])
<1>1. /\ \A h \in E : h \in a .. k - 1 /\ t[h + 1] = Backslash
      /\ \A h \in E : h + 1 < k /\ h + 1 \notin E /\ t[h + 2] \in {Quote, Backslash}
      /\ \A h \in a .. k - 1 :
           t[h + 1] \in {Quote, Backslash, Control} => h \in E \/ h - 1 \in E
  BY DEF Escapings, IsEscaping
<1>2. \A h \in a .. (k + 2) - 1 : h \in a .. k - 1 \/ h = k \/ h = k + 1
  OBVIOUS
<1> DEFINE F == E \cup {k}
<1>3. \A h \in F : /\ h \in a .. (k + 2) - 1 /\ t[h + 1] = Backslash
                   /\ h + 1 < k + 2 /\ t[h + 2] \in {Quote, Backslash}
  BY <1>1
<1>4. \A h \in F : h + 1 \notin F
  BY <1>1
<1>5. ASSUME NEW h \in a .. (k + 2) - 1, t[h + 1] \in {Quote, Backslash, Control}
      PROVE  h \in F \/ h - 1 \in F
  <2>1. CASE h \in a .. k - 1
    BY <1>1, <1>5, <2>1
  <2>2. CASE h = k
    BY <2>2
  <2>3. CASE h = k + 1
    BY <2>3
  <2> QED
    BY <1>2, <2>1, <2>2, <2>3
<1>6. F \in Escapings(t, a, k + 2)
  <2> HIDE DEF F
  <2>1. F \in SUBSET {h \in a .. (k + 2) - 1 : t[h + 1] = Backslash} /\ a <= k + 2
    BY <1>3
  <2> QED
    BY <1>3, <1>4, <1>5, <2>1 DEF Escapings, IsEscaping
<1> DEFINE K == (a .. k - 1) \ E
<1>7. (a .. (k + 2) - 1) \ F = K \cup {k + 1} /\ K \in SUBSET (a .. k - 1)
  BY <1>1, <1>2
<1>8. SpelledTo(t, a, k + 2, F) = Append(SpelledTo(t, a, k, E), t[(k + 1) + 1])
  <2> HIDE DEF F, K
  <2>0. a \in Nat /\ k \in Nat /\ k + 1 \in Nat /\ k <= k + 1 /\ K \in SUBSET (a .. k - 1)
    BY <1>7
  <2>1. Spelled(t, K \cup {k + 1}) = Append(Spelled(t, K), t[(k + 1) + 1])
    BY ONLY <2>0, SpelledOne
  <2> QED
    BY <1>7, <2>1 DEF K, SpelledTo
<1>9. (k + 1) + 1 = k + 2
  OBVIOUS
<1> QED
  BY <1>6, <1>8, <1>9

(* Where a string is read there is a character, or a pair, of it.          *)
LEMMA EscapeNext ==
  ASSUME NEW t, NEW a \in Nat, NEW b \in Nat, NEW E \in Escapings(t, a, b),
         NEW k \in Nat, a <= k, k < b, k - 1 \notin E
  PROVE  \/ /\ t[k + 1] = Backslash /\ t[k + 2] \in {Quote, Backslash}
            /\ k + 2 <= b /\ (k + 2) - 1 \notin E
            /\ SpelledTo(t, a, k + 2, E) = Append(SpelledTo(t, a, k, E), t[k + 2])
         \/ /\ t[k + 1] \notin {Quote, Backslash, Control} /\ (k + 1) - 1 \notin E
            /\ SpelledTo(t, a, k + 1, E) = Append(SpelledTo(t, a, k, E), t[k + 1])
<1>1. /\ \A h \in E : h \in a .. b - 1 /\ t[h + 1] = Backslash
      /\ \A h \in E : h + 1 < b /\ h + 1 \notin E /\ t[h + 2] \in {Quote, Backslash}
      /\ \A h \in a .. b - 1 :
           t[h + 1] \in {Quote, Backslash, Control} => h \in E \/ h - 1 \in E
  BY DEF Escapings, IsEscaping
<1>2. k \in a .. b - 1 /\ (k + 1) + 1 = k + 2 /\ (k + 2) - 1 = k + 1 /\ (k + 1) - 1 = k
  OBVIOUS
<1>3. CASE k \in E
  <2>1. k + 1 < b /\ k + 1 \notin E /\ t[k + 1] = Backslash /\ t[k + 2] \in {Quote, Backslash}
    BY <1>1, <1>3
  <2> DEFINE K == (a .. k - 1) \ E
  <2>2. (a .. (k + 2) - 1) \ E = K \cup {k + 1} /\ K \in SUBSET (a .. k - 1)
    BY <1>3, <2>1
  <2>3. SpelledTo(t, a, k + 2, E) = Append(SpelledTo(t, a, k, E), t[(k + 1) + 1])
    <3> HIDE DEF K
    <3>0. a \in Nat /\ k \in Nat /\ k + 1 \in Nat /\ k <= k + 1 /\ K \in SUBSET (a .. k - 1)
      BY <2>2
    <3>1. Spelled(t, K \cup {k + 1}) = Append(Spelled(t, K), t[(k + 1) + 1])
      BY ONLY <3>0, SpelledOne
    <3> QED
      BY <2>2, <3>1 DEF K, SpelledTo
  <2>4. k + 2 <= b
    BY <2>1
  <2> QED
    BY <1>2, <2>1, <2>3, <2>4
<1>4. CASE k \notin E
  <2>1. t[k + 1] \notin {Quote, Backslash, Control}
    BY <1>1, <1>2, <1>4
  <2> DEFINE K == (a .. k - 1) \ E
  <2>2. (a .. (k + 1) - 1) \ E = K \cup {k} /\ K \in SUBSET (a .. k - 1)
    BY <1>4
  <2>3. SpelledTo(t, a, k + 1, E) = Append(SpelledTo(t, a, k, E), t[k + 1])
    <3> HIDE DEF K
    <3>0. a \in Nat /\ k \in Nat /\ k <= k /\ K \in SUBSET (a .. k - 1)
      BY <2>2
    <3>1. Spelled(t, K \cup {k}) = Append(Spelled(t, K), t[k + 1])
      BY ONLY <3>0, SpelledOne
    <3> QED
      BY <2>2, <3>1 DEF K, SpelledTo
  <2> QED
    BY <1>2, <1>4, <2>1, <2>3
<1> QED
  BY <1>3, <1>4

-----------------------------------------------------------------------------
(* Reading characters *)

(* What is read past stops where the next character is of another class. *)
LEMMA PastAllTo ==
  ASSUME CursorInv, NEW S, NEW k \in Place, NEW b \in Place, k <= b,
         \A m \in k + 1 .. b : str[m] \in S, b = Len(str) \/ str[b + 1] \notin S
  PROVE  PastAll(S, k) = b
<1> DEFINE p == PastAll(S, k)
<1>1. /\ p \in k .. Len(str)
      /\ \A m \in k + 1 .. p : str[m] \in S
      /\ p = Len(str) \/ str[p + 1] \notin S
  BY PastAllIs
<1>2. Len(str) \in Nat /\ k \in Nat /\ b \in Nat /\ b <= Len(str)
  BY DEF CursorInv, Place
<1> HIDE DEF p
<1>3. ~(p < b)
  <2>1. p < b => p + 1 \in k + 1 .. b /\ p # Len(str)
    BY <1>1, <1>2
  <2> QED
    BY <1>1, <2>1
<1>4. ~(b < p)
  <2>1. b < p => b + 1 \in k + 1 .. p /\ b # Len(str)
    BY <1>1, <1>2
  <2> QED
    BY <1>1, <2>1
<1>5. p = b
  BY <1>1, <1>2, <1>3, <1>4
<1> QED
  BY <1>5 DEF p

(* A token is the first character that is no blank. *)
LEMMA TokenIs ==
  ASSUME CursorInv, NEW k \in Place
  PROVE  LET p == PastAll(White, k) IN
         /\ p \in Place /\ k <= p /\ Blank(str, k, p)
         /\ \/ p = Len(str) /\ Token(k) = End /\ AfterToken(k) = p
            \/ /\ p < Len(str) /\ Token(k) = str[p + 1] /\ AfterToken(k) = p + 1
               /\ str[p + 1] \notin White /\ str[p + 1] \in Character
<1> DEFINE p == PastAll(White, k)
<1>1. /\ p \in k .. Len(str)
      /\ \A m \in k + 1 .. p : str[m] \in White
      /\ p = Len(str) \/ str[p + 1] \notin White
  BY PastAllIs
<1>2. Len(str) \in Nat /\ k \in Nat
  BY DEF CursorInv, Place
<1> HIDE DEF p
<1>3. p \in Place /\ k <= p /\ Blank(str, k, p)
  BY <1>1, <1>2 DEF Place, Blank
<1>4. CASE p = Len(str)
  BY <1>2, <1>3, <1>4 DEF p, Token, At, AfterToken
<1>5. CASE p # Len(str)
  <2>1. p < Len(str) /\ p + 1 \in 1 .. Len(str)
    BY <1>1, <1>2, <1>5
  <2>2. str[p + 1] \in Character
    BY <2>1 DEF CursorInv
  <2> QED
    BY <1>1, <1>3, <1>5, <2>1, <2>2 DEF p, Token, At, AfterToken
<1> QED
  BY <1>3, <1>4, <1>5 DEF p

(* T begins with the text that arrived. *)
Begins(T) ==
  /\ T \in Seq(Character) /\ Len(str) <= Len(T)
  /\ \A m \in 1 .. Len(str) : str[m] = T[m]

(* In T a token is where the parser finds it, unless T was cut before it.  *)
LEMMA TokenIn ==
  ASSUME CursorInv, NEW T, Begins(T), NEW k \in Place, NEW b \in Nat, Blank(T, k, b),
         b < Len(T), T[b + 1] \notin White
  PROVE  \/ /\ b < Len(str) /\ Token(k) = T[b + 1] /\ AfterToken(k) = b + 1
            /\ PastAll(White, k) = b
         \/ Len(str) < Len(T) /\ Token(k) = End
<1>1. Len(str) \in Nat /\ k \in Nat /\ k <= Len(str) /\ Len(T) \in Nat
  BY DEF CursorInv, Place, Begins
<1>2. k <= b /\ \A m \in k + 1 .. b : T[m] \in White
  BY DEF Blank
<1>3. \A m \in 1 .. Len(str) : str[m] = T[m]
  BY DEF Begins
<1>4. CASE b < Len(str)
  <2>1. b \in Place
    BY <1>1, <1>4 DEF Place
  <2>2. b + 1 \in 1 .. Len(str) /\ \A m \in k + 1 .. b : m \in 1 .. Len(str)
    BY <1>1, <1>4
  <2>3. str[b + 1] = T[b + 1] /\ \A m \in k + 1 .. b : str[m] \in White
    BY <1>2, <1>3, <2>2
  <2>4. PastAll(White, k) = b
    BY <1>2, <2>1, <2>3, PastAllTo
  <2> QED
    BY <1>4, <2>3, <2>4 DEF Token, At, AfterToken
<1>5. CASE ~(b < Len(str))
  <2>1. Len(str) \in Place /\ Len(str) < Len(T)
    BY <1>1, <1>5 DEF Place
  <2>2. \A m \in k + 1 .. Len(str) : m \in 1 .. Len(str) /\ m \in k + 1 .. b
    BY <1>1, <1>5
  <2>3. \A m \in k + 1 .. Len(str) : str[m] \in White
    BY <1>2, <1>3, <2>2
  <2>4. PastAll(White, k) = Len(str)
    BY <1>1, <2>1, <2>3, PastAllTo
  <2> QED
    BY <1>1, <2>1, <2>4 DEF Token, At
<1> QED
  BY <1>4, <1>5

(* A character of T is where the parser finds it, unless T was cut there. *)
LEMMA AtIn ==
  ASSUME CursorInv, NEW T, Begins(T), NEW k \in Place
  PROVE  \/ k < Len(str) /\ At(k) = T[k + 1] /\ k + 1 \in Place /\ T[k + 1] \in Character
         \/ k = Len(str) /\ At(k) = End
<1>1. Len(str) \in Nat /\ k \in Nat /\ k <= Len(str)
  BY DEF CursorInv, Place
<1>2. CASE k < Len(str)
  <2>1. k + 1 \in 1 .. Len(str) /\ k + 1 \in Place
    BY <1>1, <1>2 DEF Place
  <2>2. str[k + 1] = T[k + 1] /\ str[k + 1] \in Character
    BY <2>1 DEF Begins, CursorInv
  <2> QED
    BY <1>2, <2>1, <2>2 DEF At
<1>3. CASE k = Len(str)
  BY <1>1, <1>3 DEF At
<1> QED
  BY <1>1, <1>2, <1>3

-----------------------------------------------------------------------------
(* Numbers *)

(* What is read is digits. *)
LEMMA DigitsRead ==
  ASSUME CursorInv, NEW k \in Place, At(k) \in Digit
  PROVE  PastAll(Digit, k) \in Place /\ Digital(str, k, PastAll(Digit, k))
<1> DEFINE p == PastAll(Digit, k)
<1>1. /\ p \in k .. Len(str)
      /\ \A m \in k + 1 .. p : str[m] \in Digit
      /\ p = Len(str) \/ str[p + 1] \notin Digit
  BY PastAllIs
<1>2. k < Len(str) /\ str[k + 1] \in Digit
  <2>1. k >= Len(str) => At(k) = End
    BY DEF At, CursorInv, Place
  <2>2. End \notin Digit
    BY DEF End, Digit
  <2> QED
    BY <2>1, <2>2 DEF At, CursorInv, Place
<1>3. Len(str) \in Nat /\ k \in Nat
  BY DEF CursorInv, Place
<1> HIDE DEF p
<1>4. p # k
  BY <1>1, <1>2, <1>3
<1>5. k < p /\ p \in Place
  BY <1>1, <1>3, <1>4 DEF Place
<1> QED
  BY <1>1, <1>5 DEF Digital, p

(* There is a number where parse_number() finds one. *)
LEMMA WholeRead ==
  ASSUME CursorInv, NEW k \in Place, Whole(k) # -1
  PROVE  /\ Whole(k) \in Place
         /\ \E s \in {k, k + 1} : IsWhole(str, s, Whole(k)) /\ (s = k + 1 => str[s] = "-")
<1> DEFINE s == IF At(k) = "-" THEN k + 1 ELSE k
<1>1. Len(str) \in Nat /\ k \in Nat /\ k <= Len(str)
  BY DEF CursorInv, Place
<1>2. s \in Place /\ s \in {k, k + 1} /\ (s = k + 1 => str[s] = "-")
  <2>1. At(k) = "-" => k + 1 \in Place /\ str[k + 1] = "-"
    BY AfterPlace DEF End, At
  <2> QED
    BY <1>1, <2>1
<1>3. s \in Nat /\ s <= Len(str)
  BY <1>2, <1>1 DEF Place
<1> HIDE DEF s
<1>4. ASSUME At(s) \in Digit PROVE s < Len(str) /\ str[s + 1] = At(s)
  BY <1>1, <1>3, <1>4 DEF At, End, Digit
<1>5. CASE At(s) = "0" /\ At(s + 1) \notin Digit
  <2>1. Whole(k) = s + 1
    BY <1>5 DEF Whole, s, Digit
  <2>2. At(s) \in Digit
    BY <1>5 DEF Digit
  <2>3. s < Len(str) /\ str[s + 1] \in Digit
    BY <1>4, <2>2
  <2>4. Digital(str, s, s + 1) /\ s + 1 \in Place
    BY <1>1, <1>3, <2>3 DEF Digital, Place
  <2> QED
    BY <1>2, <2>1, <2>4 DEF IsWhole
<1>6. CASE At(s) \in Digit \ {"0"}
  <2>1. Whole(k) = PastAll(Digit, s)
    BY <1>6 DEF Whole, s
  <2>2. PastAll(Digit, s) \in Place /\ Digital(str, s, PastAll(Digit, s))
    BY <1>2, <1>6, DigitsRead
  <2>3. str[s + 1] # "0"
    BY <1>4, <1>6
  <2> QED
    BY <1>2, <2>1, <2>2, <2>3 DEF IsWhole
<1>7. CASE ~(At(s) = "0" /\ At(s + 1) \notin Digit) /\ ~(At(s) \in Digit \ {"0"})
  BY <1>7 DEF Whole, s
<1> QED
  BY <1>5, <1>6, <1>7

(* So are the digits of a fraction or an exponent. *)
LEMMA DigitsAfter ==
  ASSUME CursorInv, NEW k \in Place, Digits(k) # -1
  PROVE  Digits(k) \in Place /\ Digital(str, k, Digits(k)) /\ k < Digits(k)
<1>1. At(k) \in Digit /\ Digits(k) = PastAll(Digit, k)
  BY DEF Digits
<1> QED
  BY <1>1, DigitsRead DEF Digital

(* A character that is no NUL is one of the text. *)
LEMMA AtPlace ==
  ASSUME CursorInv, NEW k \in Place, At(k) # End
  PROVE  k \in Nat /\ k < Len(str) /\ str[k + 1] = At(k) /\ k + 1 \in Place
BY AfterPlace DEF At, Place, CursorInv

(* A fraction is read where there is one. *)
LEMMA FractionRead ==
  ASSUME CursorInv, NEW w \in Place, Fraction(w) # -1
  PROVE  Fraction(w) \in Place /\ w <= Fraction(w) /\ IsFraction(str, w, Fraction(w))
<1>1. w # -1 /\ w \in Nat
  BY DEF Place
<1>2. CASE At(w) = "."
  <2>1. Fraction(w) = Digits(w + 1)
    BY <1>1, <1>2 DEF Fraction
  <2>2. w < Len(str) /\ str[w + 1] = "." /\ w + 1 \in Place
    BY <1>2, AtPlace DEF End
  <2>3. Digits(w + 1) \in Place /\ Digital(str, w + 1, Digits(w + 1)) /\ w + 1 < Digits(w + 1)
    BY <2>1, <2>2, DigitsAfter
  <2>4. Digits(w + 1) \in Nat /\ w < Digits(w + 1)
    BY <1>1, <2>3 DEF Place
  <2> QED
    BY <1>1, <2>1, <2>2, <2>3, <2>4 DEF IsFraction
<1>3. CASE At(w) # "."
  <2>1. Fraction(w) = w
    BY <1>3 DEF Fraction
  <2> QED
    BY <1>1, <2>1 DEF IsFraction
<1> QED
  BY <1>2, <1>3

(* An exponent is read where there is one. *)
LEMMA ExponentRead ==
  ASSUME CursorInv, NEW f \in Place, Exponent(f) # -1
  PROVE  Exponent(f) \in Place /\ f <= Exponent(f) /\ IsExponent(str, f, Exponent(f))
<1>1. f # -1 /\ f \in Nat
  BY DEF Place
<1>2. CASE At(f) = "e" /\ At(f + 1) = "-"
  <2>1. Exponent(f) = Digits(f + 2)
    BY <1>1, <1>2 DEF Exponent
  <2>2. f < Len(str) /\ str[f + 1] = "e" /\ f + 1 \in Place
    BY <1>2, AtPlace DEF End
  <2>3. str[(f + 1) + 1] = "-" /\ (f + 1) + 1 \in Place /\ (f + 1) + 1 = f + 2
    BY <1>1, <1>2, <2>2, AtPlace DEF End
  <2>4. Digits(f + 2) \in Place /\ Digital(str, f + 2, Digits(f + 2)) /\ f + 2 < Digits(f + 2)
    BY <2>1, <2>3, DigitsAfter
  <2>5. Digits(f + 2) \in Nat /\ f < Digits(f + 2)
    BY <1>1, <2>4 DEF Place
  <2> QED
    BY <1>1, <2>1, <2>2, <2>3, <2>4, <2>5 DEF IsExponent
<1>3. CASE At(f) = "e" /\ At(f + 1) # "-"
  <2>1. Exponent(f) = Digits(f + 1)
    BY <1>1, <1>3 DEF Exponent
  <2>2. f < Len(str) /\ str[f + 1] = "e" /\ f + 1 \in Place
    BY <1>3, AtPlace DEF End
  <2>3. Digits(f + 1) \in Place /\ Digital(str, f + 1, Digits(f + 1)) /\ f + 1 < Digits(f + 1)
    BY <2>1, <2>2, DigitsAfter
  <2>4. Digits(f + 1) \in Nat /\ f < Digits(f + 1)
    BY <1>1, <2>3 DEF Place
  <2> QED
    BY <1>1, <2>1, <2>2, <2>3, <2>4 DEF IsExponent
<1>4. CASE At(f) # "e"
  <2>1. Exponent(f) = f
    BY <1>4 DEF Exponent
  <2> QED
    BY <1>1, <2>1 DEF IsExponent
<1> QED
  BY <1>2, <1>3, <1>4

(* A number is read where there is one. *)
LEMMA NumberRead ==
  ASSUME CursorInv, NEW k \in Place, NumberEnd(k) # -1
  PROVE  NumberEnd(k) \in Place /\ IsNumber(str, k, NumberEnd(k))
<1> DEFINE w == Whole(k)
           f == Fraction(w)
           e == Exponent(f)
<1>1. e = NumberEnd(k)
  BY DEF NumberEnd
<1>2. f # -1 /\ w # -1
  <2>1. f = -1 => e = -1
    BY DEF Exponent
  <2>2. w = -1 => f = -1
    BY DEF Fraction
  <2> QED
    BY <1>1, <2>1, <2>2
<1>3. w \in Place /\ \E s \in {k, k + 1} : IsWhole(str, s, w) /\ (s = k + 1 => str[s] = "-")
  BY <1>2, WholeRead
<1> HIDE DEF w
<1>4. f \in Place /\ w <= f /\ IsFraction(str, w, f)
  BY <1>2, <1>3, FractionRead
<1> HIDE DEF f
<1>5. e \in Place /\ f <= e /\ IsExponent(str, f, e)
  BY <1>1, <1>4, ExponentRead
<1> HIDE DEF e
<1>6. k \in Nat /\ w \in Nat /\ f \in Nat /\ e \in Nat
  BY <1>3, <1>4, <1>5 DEF Place
<1>7. PICK s \in {k, k + 1} : IsWhole(str, s, w) /\ (s = k + 1 => str[s] = "-")
  BY <1>3
<1>8. k < w
  BY <1>6, <1>7 DEF IsWhole, Digital
<1>9. w \in k .. e /\ f \in k .. e
  BY <1>4, <1>5, <1>6, <1>8
<1>10. IsNumber(str, k, e)
  BY <1>4, <1>5, <1>7, <1>9 DEF IsNumber
<1> QED
  BY <1>1, <1>5, <1>10

-----------------------------------------------------------------------------
(* v is where the parser stops for what ends at w in the text that was     *)
(* sent: there; or, if that was cut before w, nowhere or at the end.       *)
Meets(v, w) ==
  \/ w <= Len(str) /\ v = w
  \/ Len(str) < w /\ (v = -1 \/ v = Len(str))

Stops(T, b, S) == b = Len(T) \/ T[b + 1] \notin S

(* Digits of T are read to their end, unless they were cut; *)
LEMMA DigitsIn ==
  ASSUME CursorInv, NEW T, Begins(T), NEW k \in Place, NEW w \in Nat, Digital(T, k, w),
         w <= Len(T), Stops(T, w, Digit)
  PROVE  /\ k < Len(str) => Meets(PastAll(Digit, k), w) /\ At(k) \in Digit /\ At(k) = T[k + 1]
         /\ k = Len(str) => At(k) = End
         /\ Meets(Digits(k), w)
<1>1. Len(str) \in Nat /\ k \in Nat /\ k <= Len(str) /\ Len(T) \in Nat /\ Len(str) <= Len(T)
  BY DEF CursorInv, Place, Begins
<1>2. k < w /\ \A m \in k + 1 .. w : T[m] \in Digit
  BY DEF Digital
<1>3. \A m \in 1 .. Len(str) : str[m] = T[m]
  BY DEF Begins
<1>4. CASE k = Len(str)
  <2>1. At(k) = End
    BY <1>1, <1>4 DEF At
  <2>2. Digits(k) = -1
    BY <2>1 DEF Digits, Digit, End
  <2> QED
    BY <1>1, <1>2, <1>4, <2>1, <2>2 DEF Meets
<1>5. CASE k < Len(str)
  <2>1. At(k) = T[k + 1] /\ T[k + 1] \in Digit
    <3>1. k + 1 \in 1 .. Len(str) /\ k + 1 \in k + 1 .. w
      BY <1>1, <1>2, <1>5
    <3> QED
      BY <1>2, <1>3, <1>5, <3>1 DEF At
  <2>2. CASE w <= Len(str)
    <3>1. w \in Place /\ \A m \in k + 1 .. w : m \in 1 .. Len(str)
      BY <1>1, <2>2 DEF Place
    <3>2. w = Len(str) \/ str[w + 1] \notin Digit
      <4>1. w # Len(str) => w + 1 \in 1 .. Len(str) /\ w # Len(T)
        BY <1>1, <2>2
      <4> QED
        BY <1>3, <4>1 DEF Stops
    <3>3. \A m \in k + 1 .. w : str[m] \in Digit
      BY <1>2, <1>3, <3>1
    <3>4. PastAll(Digit, k) = w
      BY <1>1, <1>2, <3>1, <3>2, <3>3, PastAllTo
    <3> QED
      BY <1>5, <2>1, <2>2, <3>4 DEF Meets, Digits
  <2>3. CASE Len(str) < w
    <3>1. Len(str) \in Place /\ \A m \in k + 1 .. Len(str) : m \in 1 .. Len(str) /\ m \in k + 1 .. w
      BY <1>1, <2>3 DEF Place
    <3>2. \A m \in k + 1 .. Len(str) : str[m] \in Digit
      BY <1>2, <1>3, <3>1
    <3>3. PastAll(Digit, k) = Len(str)
      BY <1>1, <3>1, <3>2, PastAllTo
    <3> QED
      BY <1>5, <2>1, <2>3, <3>3 DEF Meets, Digits
  <2> QED
    BY <1>1, <2>2, <2>3
<1> QED
  BY <1>1, <1>4, <1>5

(* and so is what is before a fraction, *)
LEMMA WholeIn ==
  ASSUME CursorInv, NEW T, Begins(T), NEW k \in Place, k < Len(str), NEW s \in {k, k + 1},
         NEW w \in Nat, IsWhole(T, s, w), w <= Len(T), Stops(T, w, Digit),
         s = k + 1 => T[s] = "-"
  PROVE  Meets(Whole(k), w)
<1>1. Len(str) \in Nat /\ k \in Nat /\ Len(T) \in Nat /\ Len(str) <= Len(T)
  BY DEF CursorInv, Place, Begins
<1>2. At(k) = T[k + 1]
  BY AtIn
<1>3. s \in Place /\ s < w /\ Digital(T, s, w) /\ (T[s + 1] = "0" => w = s + 1)
  <2>1. s \in Place
    BY <1>1 DEF Place
  <2> QED
    BY <2>1 DEF IsWhole, Digital
<1>4. s \in Nat /\ s <= Len(str)
  BY <1>1, <1>3 DEF Place
<1>5. (IF At(k) = "-" THEN k + 1 ELSE k) = s
  <2>1. CASE s = k
    <3>1. k + 1 \in k + 1 .. w
      BY <1>1, <1>3, <2>1
    <3>2. T[k + 1] \in Digit
      BY <1>3, <2>1, <3>1 DEF Digital
    <3> QED
      BY <1>2, <2>1, <3>2 DEF Digit
  <2>2. CASE s = k + 1
    BY <1>2, <2>2
  <2> QED
    BY <2>1, <2>2
<1>6. /\ s < Len(str) => Meets(PastAll(Digit, s), w) /\ At(s) \in Digit /\ At(s) = T[s + 1]
      /\ s = Len(str) => At(s) = End
  BY <1>3, DigitsIn
<1>7. Whole(k) = CASE At(s) = "0" /\ At(s + 1) \notin Digit -> s + 1
                   [] At(s) \in Digit \ {"0"} -> PastAll(Digit, s)
                   [] OTHER -> -1
  BY <1>5 DEF Whole
<1>8. CASE s = Len(str)
  <2>1. Whole(k) = -1
    BY <1>6, <1>7, <1>8 DEF End, Digit
  <2> QED
    BY <1>3, <1>8, <2>1 DEF Meets
<1>9. CASE s < Len(str) /\ T[s + 1] = "0"
  <2>1. w = s + 1 /\ At(s) = "0"
    BY <1>3, <1>6, <1>9
  <2>2. w \in Place /\ w <= Len(str)
    BY <1>1, <1>4, <1>9, <2>1 DEF Place
  <2>3. At(w) \notin Digit
    <3>1. \/ w < Len(str) /\ At(w) = T[w + 1]
          \/ w = Len(str) /\ At(w) = End
      BY <2>2, AtIn
    <3>2. w < Len(str) => w # Len(T)
      BY <1>1, <2>2
    <3> QED
      BY <3>1, <3>2 DEF Stops, End, Digit
  <2>4. Whole(k) = w
    BY <1>7, <2>1, <2>3 DEF Digit
  <2> QED
    BY <2>2, <2>4 DEF Meets
<1>10. CASE s < Len(str) /\ T[s + 1] # "0"
  BY <1>6, <1>7, <1>10
<1> QED
  BY <1>4, <1>8, <1>9, <1>10

(* a fraction, *)
LEMMA FractionIn ==
  ASSUME CursorInv, NEW T, Begins(T), NEW w \in Nat, NEW f \in Nat, NEW v, Meets(v, w),
         w <= f, IsFraction(T, w, f), f <= Len(T), Stops(T, f, Digit \cup {"."})
  PROVE  Meets(Fraction(v), f)
<1>1. Len(str) \in Nat /\ Len(T) \in Nat /\ Len(str) <= Len(T)
  BY DEF CursorInv, Begins
<1>2. CASE v = -1
  BY <1>1, <1>2 DEF Meets, Fraction
<1>3. CASE Len(str) < w /\ v = Len(str)
  <2>1. At(v) = End
    BY <1>1, <1>3 DEF At
  <2>2. Fraction(v) = v
    BY <1>1, <1>3, <2>1 DEF Fraction, End
  <2> QED
    BY <1>1, <1>3, <2>2 DEF Meets
<1>4. CASE w <= Len(str) /\ v = w
  <2>1. w \in Place /\ w # -1
    BY <1>1, <1>4 DEF Place
  <2>2. \/ w < Len(str) /\ At(w) = T[w + 1] /\ w + 1 \in Place
        \/ w = Len(str) /\ At(w) = End
    BY <2>1, AtIn
  <2>3. CASE w = f
    <3>1. At(w) # "."
      <4>1. w < Len(str) => w # Len(T)
        BY <1>1
      <4> QED
        BY <2>2, <2>3, <4>1 DEF Stops, End
    <3> QED
      BY <1>4, <2>3, <3>1 DEF Fraction, Meets
  <2>4. CASE w # f
    <3>1. w < f /\ T[w + 1] = "." /\ Digital(T, w + 1, f)
      BY <2>4 DEF IsFraction
    <3>2. CASE w = Len(str)
      <4>1. Fraction(v) = w
        BY <1>4, <2>2, <3>2 DEF Fraction, End
      <4> QED
        BY <3>1, <3>2, <4>1 DEF Meets
    <3>3. CASE w < Len(str)
      <4>1. Fraction(v) = Digits(w + 1) /\ w + 1 \in Place
        BY <1>4, <2>1, <2>2, <3>1, <3>3 DEF Fraction
      <4>2. Stops(T, f, Digit)
        BY DEF Stops
      <4> QED
        BY <3>1, <4>1, <4>2, DigitsIn
    <3> QED
      BY <1>4, <1>1, <3>2, <3>3
  <2> QED
    BY <2>3, <2>4
<1> QED
  BY <1>2, <1>3, <1>4 DEF Meets

(* and an exponent. *)
LEMMA ExponentIn ==
  ASSUME CursorInv, NEW T, Begins(T), NEW f \in Nat, NEW b \in Nat, NEW v, Meets(v, f),
         f <= b, IsExponent(T, f, b), b <= Len(T), Stops(T, b, Digit \cup {".", "e"})
  PROVE  Meets(Exponent(v), b)
<1>1. Len(str) \in Nat /\ Len(T) \in Nat /\ Len(str) <= Len(T)
  BY DEF CursorInv, Begins
<1>2. CASE v = -1
  BY <1>1, <1>2 DEF Meets, Exponent
<1>3. CASE Len(str) < f /\ v = Len(str)
  <2>1. At(v) = End
    BY <1>1, <1>3 DEF At
  <2>2. Exponent(v) = v
    BY <1>1, <1>3, <2>1 DEF Exponent, End
  <2> QED
    BY <1>1, <1>3, <2>2 DEF Meets
<1>4. CASE f <= Len(str) /\ v = f
  <2>1. f \in Place /\ f # -1
    BY <1>1, <1>4 DEF Place
  <2>2. \/ f < Len(str) /\ At(f) = T[f + 1] /\ f + 1 \in Place
        \/ f = Len(str) /\ At(f) = End
    BY <2>1, AtIn
  <2>3. CASE f = b
    <3>1. At(f) # "e"
      <4>1. f < Len(str) => f # Len(T)
        BY <1>1
      <4> QED
        BY <2>2, <2>3, <4>1 DEF Stops, End
    <3> QED
      BY <1>4, <2>3, <3>1 DEF Exponent, Meets
  <2>4. CASE f # b
    <3>1. /\ f < b /\ T[f + 1] = "e"
          /\ Digital(T, f + 1, b) \/ (Digital(T, f + 2, b) /\ T[f + 2] = "-")
      BY <2>4 DEF IsExponent
    <3>2. CASE f = Len(str)
      <4>1. Exponent(v) = f
        BY <1>4, <2>2, <3>2 DEF Exponent, End
      <4> QED
        BY <3>1, <3>2, <4>1 DEF Meets
    <3>3. CASE f < Len(str)
      <4>1. /\ f + 1 \in Place
            /\ Exponent(v) = Digits(IF At(f + 1) = "-" THEN f + 2 ELSE f + 1)
        BY <1>4, <2>1, <2>2, <3>1, <3>3 DEF Exponent
      <4>2. Stops(T, b, Digit)
        BY DEF Stops
      <4>3. (f + 1) + 1 = f + 2
        OBVIOUS
      <4>4. \/ f + 1 < Len(str) /\ At(f + 1) = T[f + 2] /\ f + 2 \in Place
            \/ f + 1 = Len(str) /\ At(f + 1) = End
        BY <4>1, <4>3, AtIn
      <4>5. CASE Digital(T, f + 1, b)
        <5>1. At(f + 1) # "-"
          <6>1. f + 2 \in (f + 1) + 1 .. b
            BY <4>5 DEF Digital
          <6>2. T[f + 2] \in Digit
            BY <4>5, <6>1 DEF Digital
          <6> QED
            BY <4>4, <6>2 DEF Digit, End
        <5> QED
          BY <4>1, <4>2, <4>5, <5>1, DigitsIn
      <4>6. CASE Digital(T, f + 2, b) /\ T[f + 2] = "-"
        <5>1. CASE f + 1 = Len(str)
          <6>1. At(f + 1) = End
            BY <4>4, <5>1
          <6>2. Exponent(v) = Digits(f + 1)
            BY <4>1, <6>1 DEF End
          <6>3. Exponent(v) = -1
            BY <6>1, <6>2 DEF Digits, Digit, End
          <6>4. Len(str) < b
            BY <4>6, <5>1 DEF Digital
          <6> QED
            BY <6>3, <6>4 DEF Meets
        <5>2. CASE f + 1 < Len(str)
          <6>1. Exponent(v) = Digits(f + 2) /\ f + 2 \in Place
            BY <4>1, <4>4, <4>6, <5>2
          <6> QED
            BY <4>2, <4>6, <6>1, DigitsIn
        <5> QED
          BY <4>4, <5>1, <5>2
      <4> QED
        BY <3>1, <4>5, <4>6
    <3> QED
      BY <1>4, <1>1, <3>2, <3>3
  <2> QED
    BY <2>3, <2>4
<1> QED
  BY <1>2, <1>3, <1>4 DEF Meets

(* A number of T is read to its end, unless it was cut. *)
LEMMA NumberIsRead ==
  ASSUME CursorInv, NEW T, Begins(T), NEW k \in Place, k < Len(str), NEW b \in Nat,
         IsNumber(T, k, b), b <= Len(T), Stops(T, b, Digit \cup {".", "e"})
  PROVE  Meets(NumberEnd(k), b)
<1>1. Len(str) \in Nat /\ k \in Nat /\ Len(T) \in Nat /\ Len(str) <= Len(T)
  BY DEF CursorInv, Place, Begins
<1>2. PICK s \in {k, k + 1}, w \in k .. b, f \in k .. b :
        /\ IsWhole(T, s, w) /\ IsFraction(T, w, f) /\ IsExponent(T, f, b)
        /\ s = k + 1 => T[s] = "-"
  BY DEF IsNumber
<1>3. w \in Nat /\ f \in Nat /\ f <= b /\ w <= f
  BY <1>1, <1>2 DEF IsFraction, IsExponent
<1>4. f <= Len(T) /\ w <= Len(T)
  BY <1>1, <1>3
<1>5. Stops(T, f, Digit \cup {"."})
  BY <1>2 DEF IsExponent, Stops, Digit
<1>6. Stops(T, w, Digit)
  BY <1>2, <1>5 DEF IsFraction, Stops, Digit
<1>7. Meets(Whole(k), w)
  BY <1>2, <1>3, <1>4, <1>6, WholeIn
<1>8. Meets(Fraction(Whole(k)), f)
  BY <1>2, <1>3, <1>4, <1>5, <1>7, FractionIn
<1>9. Meets(Exponent(Fraction(Whole(k))), b)
  BY <1>2, <1>3, <1>8, ExponentIn
<1> QED
  BY <1>9 DEF NumberEnd

-----------------------------------------------------------------------------
(* Lists and objects that are written, as they are followed *)

(* fr is the list or object w of T, where its value y is being read.       *)
ListHeld(T, R, fr, w, y) ==
  \E m, f, c :
    /\ IsRow(T, R, "[", "]", m, f) /\ w = ListPart(m, f) /\ c \in 1 .. m
    /\ fr = [type |-> "array", of |-> Before(f, c), key |-> <<>>]
    /\ y \in R /\ f[c].val = y.val /\ Blank(T, y.to, f[c].to)

ObjectHeld(T, R, fr, w, y) ==
  \E m, f, c :
    /\ IsRow(T, Pairs(T, R), OpenBrace, CloseBrace, m, f) /\ w = ObjectPart(m, f)
    /\ c \in 1 .. m
    /\ fr = [type |-> "object", of |-> Merged(Before(f, c)), key |-> fr.key]
    /\ y \in R /\ f[c].val = <<fr.key, y.val>> /\ Blank(T, y.to, f[c].to)

(* fr is the object w, where its key q is being read. *)
KeyHeld(T, R, fr, w, q) ==
  \E m, f, c, y :
    /\ IsRow(T, Pairs(T, R), OpenBrace, CloseBrace, m, f) /\ w = ObjectPart(m, f)
    /\ c \in 1 .. m
    /\ fr = [type |-> "object", of |-> Merged(Before(f, c)), key |-> fr.key]
    /\ q \in Quoted(T) /\ y \in R /\ Colon(T, q.to, y.from)
    /\ f[c].val = <<q.val, y.val>> /\ Blank(T, y.to, f[c].to)

(* A slot of a row has a value in it, and a comma after it or a bracket. *)
LEMMA RowItem ==
  ASSUME NEW T \in Seq(Character), NEW R, Solid(T, R), NEW open, NEW close,
         NEW m, NEW f, IsRow(T, R, open, close, m, f), NEW c \in 1 .. m
  PROVE  /\ \E y \in R : f[c].val = y.val /\ Spaced(T, y, f[c].from + 1, f[c].to)
         /\ f[c].to \in Nat /\ f[c].to < Len(T) /\ f[c].from \in Nat
         /\ c # m => T[f[c].to + 1] = Comma /\ f[c].to = f[c + 1].from /\ c + 1 \in 1 .. m
<1>1. f[c] \in Slots(T, R, open, close)
  BY DEF IsRow
<1>2. c # m => T[f[c].to + 1] = Comma /\ f[c].to = f[c + 1].from /\ c + 1 \in 1 .. m
  <2>1. c # m => c \in 1 .. m - 1 /\ c + 1 \in 1 .. m
    BY DEF IsRow
  <2> QED
    BY <2>1 DEF IsRow
<1> QED
  BY <1>1, <1>2, SlotOf

(* A list has a first value, *)
LEMMA ListEnter ==
  ASSUME NEW T \in Seq(Character), NEW R, Solid(T, R), NEW x \in Lists(T, R)
  PROVE  /\ T[x.from + 1] = "["
         /\ \E y \in R : Blank(T, x.from + 1, y.from) /\ ListHeld(T, R, List, x, y)
<1>1. PICK m, f : IsRow(T, R, "[", "]", m, f) /\ x = ListPart(m, f)
  BY ListOf
<1>2. 1 \in 1 .. m /\ T[f[1].from + 1] = "["
  BY <1>1 DEF IsRow
<1>3. x.from = f[1].from
  BY <1>1, PartIs DEF ListPart
<1>4. PICK y \in R : f[1].val = y.val /\ Spaced(T, y, f[1].from + 1, f[1].to)
  BY <1>1, <1>2, RowItem
<1>5. List = [type |-> "array", of |-> Before(f, 1), key |-> <<>>]
  BY BeforeFirst DEF List
<1>6. ListHeld(T, R, List, x, y)
  BY <1>1, <1>2, <1>4, <1>5 DEF ListHeld, Spaced
<1> QED
  BY <1>2, <1>3, <1>4, <1>6 DEF Spaced

(* and after each it goes on or is closed. *)
LEMMA ListNext ==
  ASSUME NEW T \in Seq(Character), NEW R, Solid(T, R), NEW fr, NEW w, NEW y,
         ListHeld(T, R, fr, w, y), NEW v, v = y.val,
         NEW g, g = [fr EXCEPT !.of = Append(@, v)]
  PROVE  /\ fr.type = "array"
         /\ \E b \in Nat :
              /\ Blank(T, y.to, b) /\ b < Len(T)
              /\ \/ T[b + 1] = "]" /\ w.to = b + 1 /\ w.val = Value(g)
                 \/ /\ T[b + 1] = Comma
                    /\ \E z \in R : Blank(T, b + 1, z.from) /\ ListHeld(T, R, g, w, z)
<1>1. PICK m, f, c :
    /\ IsRow(T, R, "[", "]", m, f) /\ w = ListPart(m, f) /\ c \in 1 .. m
    /\ fr = [type |-> "array", of |-> Before(f, c), key |-> <<>>]
    /\ y \in R /\ f[c].val = y.val /\ Blank(T, y.to, f[c].to)
  BY DEF ListHeld
<1>2. m \in Nat \ {0} /\ DOMAIN f = 1 .. m /\ T[f[m].to + 1] = "]"
  BY <1>1 DEF IsRow
<1>3. f[c].to \in Nat /\ f[c].to < Len(T)
      /\ (c # m => T[f[c].to + 1] = Comma /\ f[c].to = f[c + 1].from /\ c + 1 \in 1 .. m)
  BY <1>1, RowItem
<1>4. Append(Before(f, c), f[c].val) = Before(f, c + 1)
  <2>1. c \in Nat \ {0}
    BY <1>1
  <2> QED
    BY <2>1, BeforeNext
<1>5. g = [type |-> "array", of |-> Before(f, c + 1), key |-> <<>>]
  BY <1>1, <1>4
<1>6. CASE c = m
  <2>1. Values(f) = Before(f, m + 1)
    BY <1>2, ValuesAre
  <2>2. w.to = f[c].to + 1 /\ w.val = [type |-> "array", of |-> Values(f)]
    BY <1>1, <1>6, PartIs DEF ListPart
  <2>3. g.type = "array" /\ g.of = Values(f)
    BY <1>5, <1>6, <2>1
  <2>4. Value(g) = w.val
    BY <2>2, <2>3 DEF Value
  <2> QED
    BY <1>1, <1>2, <1>3, <1>6, <2>2, <2>4
<1>7. CASE c # m
  <2>1. PICK z \in R : f[c + 1].val = z.val /\ Spaced(T, z, f[c + 1].from + 1, f[c + 1].to)
    BY <1>1, <1>3, <1>7, RowItem
  <2>2. ListHeld(T, R, g, w, z)
    BY <1>1, <1>3, <1>5, <1>7, <2>1 DEF ListHeld, Spaced
  <2> QED
    BY <1>1, <1>3, <1>7, <2>1, <2>2 DEF Spaced
<1> QED
  BY <1>1, <1>6, <1>7

(* The members of an object. *)
LEMMA MemberItem ==
  ASSUME NEW T \in Seq(Character), NEW R, Solid(T, R), NEW m, NEW f,
         IsRow(T, Pairs(T, R), OpenBrace, CloseBrace, m, f), NEW c \in 1 .. m
  PROVE  /\ \E q \in Quoted(T), y \in R :
              /\ Blank(T, f[c].from + 1, q.from) /\ Colon(T, q.to, y.from)
              /\ f[c].val = <<q.val, y.val>> /\ Blank(T, y.to, f[c].to)
         /\ f[c].to \in Nat /\ f[c].to < Len(T) /\ f[c].from \in Nat
         /\ c # m => T[f[c].to + 1] = Comma /\ f[c].to = f[c + 1].from /\ c + 1 \in 1 .. m
<1>1. Solid(T, Pairs(T, R))
  BY PairsSolid
<1>2. /\ \E p \in Pairs(T, R) : f[c].val = p.val /\ Spaced(T, p, f[c].from + 1, f[c].to)
      /\ f[c].to \in Nat /\ f[c].to < Len(T) /\ f[c].from \in Nat
      /\ c # m => T[f[c].to + 1] = Comma /\ f[c].to = f[c + 1].from /\ c + 1 \in 1 .. m
  BY <1>1, RowItem
<1>3. PICK p \in Pairs(T, R) : f[c].val = p.val /\ Spaced(T, p, f[c].from + 1, f[c].to)
  BY <1>2
<1>4. PICK q \in Quoted(T), y \in R :
        Colon(T, q.to, y.from) /\ p = Part(q.from, y.to, <<q.val, y.val>>)
  BY PairOf
<1>5. p.from = q.from /\ p.to = y.to /\ p.val = <<q.val, y.val>>
  BY <1>4, PartIs
<1> QED
  BY <1>2, <1>3, <1>4, <1>5 DEF Spaced

(* An object has a first key, *)
LEMMA ObjectEnter ==
  ASSUME NEW T \in Seq(Character), NEW R, Solid(T, R), NEW x \in Objects(T, R)
  PROVE  /\ T[x.from + 1] = OpenBrace
         /\ \E q \in Quoted(T) : Blank(T, x.from + 1, q.from) /\ KeyHeld(T, R, Object, x, q)
<1>1. PICK m, f : IsRow(T, Pairs(T, R), OpenBrace, CloseBrace, m, f) /\ x = ObjectPart(m, f)
  BY ObjectOf
<1>2. 1 \in 1 .. m /\ T[f[1].from + 1] = OpenBrace
  BY <1>1 DEF IsRow
<1>3. x.from = f[1].from
  BY <1>1, PartIs DEF ObjectPart
<1>4. PICK q \in Quoted(T), y \in R :
        /\ Blank(T, f[1].from + 1, q.from) /\ Colon(T, q.to, y.from)
        /\ f[1].val = <<q.val, y.val>> /\ Blank(T, y.to, f[1].to)
  BY <1>1, <1>2, MemberItem
<1>5. Object = [type |-> "object", of |-> Merged(Before(f, 1)), key |-> Object.key]
  BY BeforeFirst DEF Object
<1>6. KeyHeld(T, R, Object, x, q)
  BY <1>1, <1>2, <1>4, <1>5 DEF KeyHeld
<1> QED
  BY <1>2, <1>3, <1>4, <1>6

(* after a key comes its value, *)
LEMMA KeyNext ==
  ASSUME NEW T \in Seq(Character), NEW R, NEW fr, NEW w, NEW q, KeyHeld(T, R, fr, w, q),
         NEW g, g = [fr EXCEPT !.key = q.val]
  PROVE  \E e \in Nat, y \in R :
           /\ Blank(T, q.to, e) /\ e < Len(T) /\ T[e + 1] = ":" /\ Blank(T, e + 1, y.from)
           /\ ObjectHeld(T, R, g, w, y)
<1>1. PICK m, f, c, y :
    /\ IsRow(T, Pairs(T, R), OpenBrace, CloseBrace, m, f) /\ w = ObjectPart(m, f)
    /\ c \in 1 .. m
    /\ fr = [type |-> "object", of |-> Merged(Before(f, c)), key |-> fr.key]
    /\ q \in Quoted(T) /\ y \in R /\ Colon(T, q.to, y.from)
    /\ f[c].val = <<q.val, y.val>> /\ Blank(T, y.to, f[c].to)
  BY DEF KeyHeld
<1>2. g = [type |-> "object", of |-> Merged(Before(f, c)), key |-> g.key] /\ g.key = q.val
  BY <1>1
<1>3. ObjectHeld(T, R, g, w, y)
  BY <1>1, <1>2 DEF ObjectHeld
<1>4. PICK e \in Marks(T, {":"}) : Blank(T, q.to, e) /\ Blank(T, e + 1, y.from)
  BY <1>1 DEF Colon
<1>5. e \in Nat /\ e < Len(T) /\ T[e + 1] = ":"
  BY DEF Marks
<1> QED
  BY <1>1, <1>3, <1>4, <1>5

(* and after that the object goes on or is closed. *)
LEMMA ObjectNext ==
  ASSUME NEW T \in Seq(Character), NEW R, Solid(T, R), NEW fr, NEW w, NEW y,
         ObjectHeld(T, R, fr, w, y), NEW v, v = y.val,
         NEW g, g = [fr EXCEPT !.of = Put(@, fr.key, v)]
  PROVE  /\ fr.type = "object"
         /\ \E b \in Nat :
              /\ Blank(T, y.to, b) /\ b < Len(T)
              /\ \/ T[b + 1] = CloseBrace /\ w.to = b + 1 /\ w.val = Value(g)
                 \/ /\ T[b + 1] = Comma
                    /\ \E q \in Quoted(T) : Blank(T, b + 1, q.from) /\ KeyHeld(T, R, g, w, q)
<1>1. PICK m, f, c :
    /\ IsRow(T, Pairs(T, R), OpenBrace, CloseBrace, m, f) /\ w = ObjectPart(m, f)
    /\ c \in 1 .. m
    /\ fr = [type |-> "object", of |-> Merged(Before(f, c)), key |-> fr.key]
    /\ y \in R /\ f[c].val = <<fr.key, y.val>> /\ Blank(T, y.to, f[c].to)
  BY DEF ObjectHeld
<1>2. m \in Nat \ {0} /\ DOMAIN f = 1 .. m /\ T[f[m].to + 1] = CloseBrace
  BY <1>1 DEF IsRow
<1>3. f[c].to \in Nat /\ f[c].to < Len(T)
      /\ (c # m => T[f[c].to + 1] = Comma /\ f[c].to = f[c + 1].from /\ c + 1 \in 1 .. m)
  BY <1>1, MemberItem
<1>4. Put(Merged(Before(f, c)), fr.key, v) = Merged(Before(f, c + 1))
  <2>1. c \in Nat \ {0}
    BY <1>1
  <2>2. f[c].val[1] = fr.key /\ f[c].val[2] = v
    BY <1>1
  <2> QED
    BY <2>1, <2>2, BeforeNext
<1>5. g = [type |-> "object", of |-> Merged(Before(f, c + 1)), key |-> g.key]
  BY <1>1, <1>4
<1>6. CASE c = m
  <2>1. Values(f) = Before(f, m + 1)
    BY <1>2, ValuesAre
  <2>2. w.to = f[c].to + 1 /\ w.val = [type |-> "object", of |-> Merged(Values(f))]
    BY <1>1, <1>6, PartIs DEF ObjectPart
  <2>3. g.type = "object" /\ g.of = Merged(Values(f))
    BY <1>5, <1>6, <2>1
  <2>4. Value(g) = w.val
    BY <2>2, <2>3 DEF Value
  <2> QED
    BY <1>1, <1>2, <1>3, <1>6, <2>2, <2>4
<1>7. CASE c # m
  <2>1. PICK q \in Quoted(T), z \in R :
          /\ Blank(T, f[c + 1].from + 1, q.from) /\ Colon(T, q.to, z.from)
          /\ f[c + 1].val = <<q.val, z.val>> /\ Blank(T, z.to, f[c + 1].to)
    BY <1>1, <1>3, <1>7, MemberItem
  <2>2. KeyHeld(T, R, g, w, q)
    BY <1>1, <1>3, <1>5, <1>7, <2>1 DEF KeyHeld
  <2> QED
    BY <1>1, <1>3, <1>7, <2>1, <2>2
<1> QED
  BY <1>1, <1>6, <1>7

(* What is on the stack after a call, a return, or a change of its top. *)
LEMMA PushedAt ==
  ASSUME NEW s, IsStack(s), NEW f
  PROVE  /\ Len(Append(s, f)) = Len(s) + 1 /\ Append(s, f)[Len(s) + 1] = f
         /\ \A j \in 1 .. Len(s) : Append(s, f)[j] = s[j]
<1> DEFINE R == {s[j] : j \in DOMAIN s} \cup {f}
<1>1. s \in Seq(R) /\ f \in R
  BY DEF IsStack
<1> HIDE DEF R
<1> QED
  BY <1>1

LEMMA PoppedAt ==
  ASSUME IsStack(stack), stack # <<>>
  PROVE  Len(Below) = Len(stack) - 1 /\ \A j \in 1 .. Len(stack) - 1 : Below[j] = stack[j]
<1> DEFINE R == {stack[j] : j \in DOMAIN stack}
<1>1. stack \in Seq(R) /\ Len(stack) \in Nat \ {0}
  BY DEF IsStack
<1> HIDE DEF R
<1>2. \A n \in 0 .. Len(stack) : /\ Len(SubSeq(stack, 1, n)) = n
                                /\ \A j \in 1 .. n : SubSeq(stack, 1, n)[j] = stack[j]
  BY <1>1
<1>3. Len(stack) - 1 \in 0 .. Len(stack)
  BY <1>1
<1>4. \A n : n = Len(stack) - 1 => Below = SubSeq(stack, 1, n)
  BY DEF Below
<1> QED
  BY <1>2, <1>3, <1>4

LEMMA ReplacedAt ==
  ASSUME IsStack(stack), stack # <<>>, NEW f
  PROVE  /\ Len(OnTop(f)) = Len(stack) /\ OnTop(f)[Len(stack)] = f
         /\ \A j \in 1 .. Len(stack) - 1 : OnTop(f)[j] = stack[j]
<1> DEFINE R == {stack[j] : j \in DOMAIN stack} \cup {f}
<1>1. stack \in Seq(R) /\ Len(stack) \in Nat \ {0} /\ f \in R
  BY DEF IsStack
<1> HIDE DEF R
<1> QED
  BY <1>1 DEF OnTop

-----------------------------------------------------------------------------
(* The string q of T, in which the parser has come to k and to the         *)
(* characters o.                                                           *)
Within(T, q, k, o) ==
  \E a \in Nat, b \in Nat : \E E \in Escapings(T, a + 1, b) :
    /\ q = Part(a, b + 1, SpelledTo(T, a + 1, b, E)) /\ b < Len(T) /\ T[b + 1] = Quote
    /\ a + 1 <= k /\ k <= b /\ k - 1 \notin E /\ o = SpelledTo(T, a + 1, k, E)

(* A string is entered after its first quote, *)
LEMMA WithinBegins ==
  ASSUME NEW T, NEW q \in Quoted(T)
  PROVE  T[q.from + 1] = Quote /\ Within(T, q, q.from + 1, <<>>)
<1>1. PICK a \in Marks(T, {Quote}), b \in Marks(T, {Quote}) :
        \E E \in Escapings(T, a + 1, b) : q = Part(a, b + 1, Spelled(T, (a + 1 .. b - 1) \ E))
  BY QuotedOf
<1>2. PICK E \in Escapings(T, a + 1, b) : q = Part(a, b + 1, Spelled(T, (a + 1 .. b - 1) \ E))
  BY <1>1
<1>3. a \in Nat /\ T[a + 1] = Quote /\ b \in Nat /\ b < Len(T) /\ T[b + 1] = Quote
  BY DEF Marks
<1>4. a + 1 <= b /\ \A h \in E : h \in a + 1 .. b - 1
  BY DEF Escapings, IsEscaping
<1>5. (a + 1) - 1 \notin E /\ (a + 1 .. (a + 1) - 1) \ E = {}
  BY <1>3, <1>4
<1>6. SpelledTo(T, a + 1, a + 1, E) = <<>>
  BY <1>5, SpelledNone DEF SpelledTo
<1>7. q = Part(a, b + 1, SpelledTo(T, a + 1, b, E)) /\ q.from = a
  BY <1>2, PartIs DEF SpelledTo
<1>8. a + 1 <= a + 1
  BY <1>3
<1>9. Within(T, q, a + 1, <<>>)
  BY <1>3, <1>4, <1>5, <1>6, <1>7, <1>8 DEF Within
<1> QED
  BY <1>3, <1>7, <1>9

(* and goes on or ends. *)
LEMMA WithinNext ==
  ASSUME NEW T \in Seq(Character), NEW q, NEW k \in Nat, NEW o, Within(T, q, k, o)
  PROVE  /\ k < Len(T)
         /\ \/ T[k + 1] = Quote /\ q.to = k + 1 /\ q.val = o
            \/ /\ k + 1 < Len(T) /\ T[k + 1] = Backslash /\ T[k + 2] \in {Quote, Backslash}
               /\ Within(T, q, k + 2, Append(o, T[k + 2]))
            \/ /\ T[k + 1] \notin {Quote, Backslash, Control}
               /\ Within(T, q, k + 1, Append(o, T[k + 1]))
<1>1. PICK a \in Nat, b \in Nat : \E E \in Escapings(T, a + 1, b) :
    /\ q = Part(a, b + 1, SpelledTo(T, a + 1, b, E)) /\ b < Len(T) /\ T[b + 1] = Quote
    /\ a + 1 <= k /\ k <= b /\ k - 1 \notin E /\ o = SpelledTo(T, a + 1, k, E)
  BY DEF Within
<1>2. PICK E \in Escapings(T, a + 1, b) :
    /\ q = Part(a, b + 1, SpelledTo(T, a + 1, b, E)) /\ b < Len(T) /\ T[b + 1] = Quote
    /\ a + 1 <= k /\ k <= b /\ k - 1 \notin E /\ o = SpelledTo(T, a + 1, k, E)
  BY <1>1
<1>3. Len(T) \in Nat /\ k < Len(T) /\ a + 1 \in Nat
  BY <1>2
<1>4. CASE k = b
  BY <1>2, <1>3, <1>4, PartIs
<1>5. CASE k < b
  <2>1. \/ /\ T[k + 1] = Backslash /\ T[k + 2] \in {Quote, Backslash}
           /\ k + 2 <= b /\ (k + 2) - 1 \notin E
           /\ SpelledTo(T, a + 1, k + 2, E) = Append(SpelledTo(T, a + 1, k, E), T[k + 2])
        \/ /\ T[k + 1] \notin {Quote, Backslash, Control} /\ (k + 1) - 1 \notin E
           /\ SpelledTo(T, a + 1, k + 1, E) = Append(SpelledTo(T, a + 1, k, E), T[k + 1])
    <3> DEFINE c == a + 1
    <3>1. c \in Nat /\ E \in Escapings(T, c, b) /\ c <= k /\ k < b /\ k - 1 \notin E
      BY <1>2, <1>3, <1>5
    <3> HIDE DEF c
    <3>2. \/ /\ T[k + 1] = Backslash /\ T[k + 2] \in {Quote, Backslash}
             /\ k + 2 <= b /\ (k + 2) - 1 \notin E
             /\ SpelledTo(T, c, k + 2, E) = Append(SpelledTo(T, c, k, E), T[k + 2])
          \/ /\ T[k + 1] \notin {Quote, Backslash, Control} /\ (k + 1) - 1 \notin E
             /\ SpelledTo(T, c, k + 1, E) = Append(SpelledTo(T, c, k, E), T[k + 1])
      BY ONLY <3>1, EscapeNext
    <3> QED
      BY <3>2 DEF c
  <2>2. CASE /\ T[k + 1] = Backslash /\ T[k + 2] \in {Quote, Backslash}
             /\ k + 2 <= b /\ (k + 2) - 1 \notin E
             /\ SpelledTo(T, a + 1, k + 2, E) = Append(SpelledTo(T, a + 1, k, E), T[k + 2])
    <3>1. a + 1 <= k + 2 /\ k + 1 < Len(T)
      BY <1>2, <1>3, <2>2
    <3>2. Within(T, q, k + 2, Append(o, T[k + 2]))
      BY <1>2, <2>2, <3>1 DEF Within
    <3> QED
      BY <1>3, <2>2, <3>1, <3>2
  <2>3. CASE /\ T[k + 1] \notin {Quote, Backslash, Control} /\ (k + 1) - 1 \notin E
             /\ SpelledTo(T, a + 1, k + 1, E) = Append(SpelledTo(T, a + 1, k, E), T[k + 1])
    <3>1. a + 1 <= k + 1 /\ k + 1 <= b
      BY <1>2, <1>3, <1>5
    <3>2. Within(T, q, k + 1, Append(o, T[k + 1]))
      BY <1>2, <2>3, <3>1 DEF Within
    <3> QED
      BY <1>3, <2>3, <3>2
  <2> QED
    BY <2>1, <2>2, <2>3
<1> QED
  BY <1>2, <1>4, <1>5

-----------------------------------------------------------------------------
(* What comes after a value: blanks, and the end of the text, or what goes *)
(* on with or closes the list or object that it is in.                     *)
Ends(T, y) ==
  \E b \in Nat : /\ Blank(T, y.to, b) /\ b <= Len(T)
                 /\ b < Len(T) => T[b + 1] = Comma \/ T[b + 1] = "]" \/ T[b + 1] = CloseBrace

(* So a number stops where the parser finds it to stop. *)
LEMMA EndsStops ==
  ASSUME NEW T \in Seq(Character), NEW y, y.to \in Nat, Ends(T, y)
  PROVE  y.to <= Len(T) /\ Stops(T, y.to, Digit \cup {".", "e"})
<1>1. PICK b \in Nat : /\ Blank(T, y.to, b) /\ b <= Len(T)
                       /\ b < Len(T) => T[b + 1] = Comma \/ T[b + 1] = "]" \/ T[b + 1] = CloseBrace
  BY DEF Ends
<1>2. y.to <= b /\ \A m \in y.to + 1 .. b : T[m] \in White
  BY <1>1 DEF Blank
<1>3. CASE y.to = b
  <2>1. Comma \notin Plain /\ CloseBrace \notin Plain
    BY Chars
  <2>2. Comma \notin Digit \cup {".", "e"} /\ CloseBrace \notin Digit \cup {".", "e"}
    BY <2>1 DEF Plain
  <2>3. "]" \notin Digit \cup {".", "e"}
    BY DEF Digit
  <2>4. b < Len(T) \/ b = Len(T)
    BY <1>1
  <2> QED
    BY <1>1, <1>3, <2>2, <2>3, <2>4 DEF Stops
<1>4. CASE y.to < b
  <2>1. T[y.to + 1] \in White /\ y.to < Len(T)
    BY <1>1, <1>2, <1>4
  <2>2. T[y.to + 1] \notin Plain
    BY <2>1, Chars
  <2> QED
    BY <1>1, <1>4, <2>1, <2>2 DEF Plain, Stops
<1> QED
  BY <1>2, <1>3, <1>4

(* So do the values in lists and objects. *)
LEMMA ListHeldEnds ==
  ASSUME NEW T \in Seq(Character), NEW R, Solid(T, R), NEW fr, NEW w, NEW y,
         ListHeld(T, R, fr, w, y)
  PROVE  y \in R /\ Ends(T, y)
<1>1. y \in R
  BY DEF ListHeld
<1> DEFINE g == [fr EXCEPT !.of = Append(@, y.val)]
<1>2. PICK b \in Nat :
              /\ Blank(T, y.to, b) /\ b < Len(T)
              /\ \/ T[b + 1] = "]" /\ w.to = b + 1 /\ w.val = Value(g)
                 \/ /\ T[b + 1] = Comma
                    /\ \E z \in R : Blank(T, b + 1, z.from) /\ ListHeld(T, R, g, w, z)
  BY ListNext
<1>3. b <= Len(T)
  BY <1>2
<1> QED
  BY <1>1, <1>2, <1>3 DEF Ends

LEMMA ObjectHeldEnds ==
  ASSUME NEW T \in Seq(Character), NEW R, Solid(T, R), NEW fr, NEW w, NEW y,
         ObjectHeld(T, R, fr, w, y)
  PROVE  y \in R /\ Ends(T, y)
<1>1. y \in R
  BY DEF ObjectHeld
<1> DEFINE g == [fr EXCEPT !.of = Put(@, fr.key, y.val)]
<1>2. PICK b \in Nat :
              /\ Blank(T, y.to, b) /\ b < Len(T)
              /\ \/ T[b + 1] = CloseBrace /\ w.to = b + 1 /\ w.val = Value(g)
                 \/ /\ T[b + 1] = Comma
                    /\ \E q \in Quoted(T) : Blank(T, b + 1, q.from) /\ KeyHeld(T, R, g, w, q)
  BY ObjectNext
<1>3. b <= Len(T)
  BY <1>2
<1> QED
  BY <1>1, <1>2, <1>3 DEF Ends

-----------------------------------------------------------------------------
(* Where the parser is in what is written *)

Held(T, R, fr, w, y) == ListHeld(T, R, fr, w, y) \/ ObjectHeld(T, R, fr, w, y)

(* The lists and objects in s are w[1], which is the whole of T, and in it *)
(* w[2], and so on to w[l + 1], which the innermost is at.                 *)
Chain(T, n, s, w, l) == \A j \in 1 .. l : Held(T, Readings(T)[n - j], s[j], w[j], w[j + 1])

(* x is what T is as a whole. *)
Wanted(T, n, x) == n \in Nat /\ x \in Readings(T)[n] /\ Spaced(T, x, 0, Len(T))

(* A part of a chain is one, whatever is on the stack above it; *)
LEMMA ChainPart ==
  ASSUME NEW T, NEW n, NEW s, NEW r, NEW w, NEW l \in Nat, NEW m \in Nat, m <= l,
         Chain(T, n, s, w, l), \A j \in 1 .. m : r[j] = s[j]
  PROVE  Chain(T, n, r, w, m)
<1>1. \A j \in 1 .. m : j \in 1 .. l
  OBVIOUS
<1> QED
  BY <1>1 DEF Chain

(* and one more list or object makes it longer. *)
LEMMA ChainMore ==
  ASSUME NEW T, NEW n, NEW s, NEW r, NEW w, NEW l \in Nat, NEW m, m = l + 1, NEW y,
         Chain(T, n, s, w, l), \A j \in 1 .. l : r[j] = s[j],
         Held(T, Readings(T)[n - m], r[m], w[m], y)
  PROVE  \E u : u[1] = w[1] /\ Chain(T, n, r, u, m) /\ u[m + 1] = y
<1> DEFINE u == [j \in Nat |-> IF j = m + 1 THEN y ELSE w[j]]
<1>1. u[1] = w[1] /\ u[m + 1] = y /\ u[m] = w[m]
  OBVIOUS
<1>2. \A j \in 1 .. l : u[j] = w[j] /\ u[j + 1] = w[j + 1]
  OBVIOUS
<1> HIDE DEF u
<1>3. ASSUME NEW j \in 1 .. m
      PROVE  Held(T, Readings(T)[n - j], r[j], u[j], u[j + 1])
  <2>1. CASE j = m
    BY <1>1, <2>1
  <2>2. CASE j # m
    <3>1. j \in 1 .. l
      BY <2>2
    <3>2. Held(T, Readings(T)[n - j], s[j], w[j], w[j + 1])
      BY <3>1 DEF Chain
    <3> QED
      BY <1>2, <3>1, <3>2
  <2> QED
    BY <2>1, <2>2
<1>4. Chain(T, n, r, u, m)
  BY <1>3 DEF Chain
<1> QED
  BY <1>1, <1>4

(* What the chain comes to is a value of its level, and ends as such.      *)
LEMMA ChainAt ==
  ASSUME NEW T \in Seq(Character), NEW n, NEW x, Wanted(T, n, x), NEW s, NEW w, w[1] = x,
         NEW l \in Nat, l <= n, Chain(T, n, s, w, l), NEW y, y = w[l + 1]
  PROVE  /\ y \in Readings(T)[n - l] /\ n - l \in Nat /\ Ends(T, y)
         /\ y.from \in Nat /\ y.to \in Nat /\ y.from < y.to /\ y.to <= Len(T)
         /\ T[y.from + 1] \in First /\ y = Part(y.from, y.to, y.val)
<1>1. n \in Nat /\ n - l \in Nat /\ Len(T) \in Nat
  BY DEF Wanted
<1>2. y \in Readings(T)[n - l] /\ Ends(T, y)
  <2>1. CASE l = 0
    <3>1. y = x /\ n - l = n
      BY <1>1, <2>1
    <3>2. Ends(T, x)
      BY <1>1 DEF Wanted, Spaced, Ends
    <3> QED
      BY <3>1, <3>2 DEF Wanted
  <2>2. CASE l # 0
    <3>1. l \in 1 .. l
      BY <2>2
    <3>2. Held(T, Readings(T)[n - l], s[l], w[l], y)
      BY <3>1 DEF Chain
    <3>3. Solid(T, Readings(T)[n - l])
      BY <1>1, ReadingsSolid
    <3> QED
      BY <3>2, <3>3, ListHeldEnds, ObjectHeldEnds DEF Held
  <2> QED
    BY <2>1, <2>2
<1>3. Solid(T, Readings(T)[n - l])
  BY <1>1, ReadingsSolid
<1> QED
  BY <1>1, <1>2, <1>3 DEF Solid

(* What kind of value it is shows in its first character. *)
LEMMA KindOf ==
  ASSUME NEW T \in Seq(Character), NEW m \in Nat, NEW y \in Readings(T)[m],
         NEW c, c = T[y.from + 1]
  PROVE  /\ c \in Digit \cup {"-"} => y \in Numbers(T)
         /\ c = True => y \in Literals(T)
         /\ c = Quote => y \in Strings(T)
         /\ c = "[" => \/ y \in Empties(T, "[", "]", Value(List))
                       \/ m > 0 /\ y \in Lists(T, Readings(T)[m - 1])
         /\ c = OpenBrace => \/ y \in Empties(T, OpenBrace, CloseBrace, Value(Object))
                             \/ m > 0 /\ y \in Objects(T, Readings(T)[m - 1])
<1>1. /\ OpenBrace \notin Digit \cup {"-"} /\ OpenBrace # True /\ OpenBrace # Quote
      /\ OpenBrace # "["
  BY Chars DEF Plain
<1>2. /\ "[" \notin Digit \cup {"-"} /\ True \notin Digit \cup {"-", "["}
      /\ Quote \notin Digit \cup {"-", "[", True}
  BY DEF Digit, True, Quote
<1>3. ASSUME y \in Numbers(T) PROVE c \in Digit \cup {"-"}
  <2>1. PICK a \in Marks(T, Digit \cup {"-"}), b \in Places(T) :
          y = Part(a, b, [type |-> "number", of |-> SubSeq(T, a + 1, b)])
    BY <1>3, NumberOf
  <2>2. y.from = a
    BY <2>1, PartIs
  <2> QED
    BY <2>2 DEF Marks
<1>4. ASSUME y \in Literals(T) PROVE c = True
  <2>1. PICK a \in Marks(T, {True}) : y = Part(a, a + 1, [type |-> "literal", of |-> <<True>>])
    BY <1>4 DEF Literals
  <2>2. y.from = a
    BY <2>1, PartIs
  <2> QED
    BY <2>2 DEF Marks
<1>5. ASSUME y \in Strings(T) PROVE c = Quote
  <2>1. PICK q \in Quoted(T) : y = Part(q.from, q.to, [type |-> "string", of |-> q.val])
    BY <1>5 DEF Strings
  <2>2. y.from = q.from /\ T[q.from + 1] = Quote
    BY <2>1, PartIs, WithinBegins
  <2> QED
    BY <2>2
<1>6. ASSUME NEW open, NEW close, NEW v, y \in Empties(T, open, close, v) PROVE c = open
  <2>1. PICK a, b \in Nat :
          /\ a < Len(T) /\ T[a + 1] = open /\ b < Len(T) /\ T[b + 1] = close
          /\ Blank(T, a + 1, b) /\ y = Part(a, b + 1, v)
    BY <1>6, EmptyOf
  <2>2. y.from = a
    BY <2>1, PartIs
  <2> QED
    BY <2>1, <2>2
<1>7. ASSUME m > 0, y \in Lists(T, Readings(T)[m - 1]) PROVE c = "["
  <2>1. Solid(T, Readings(T)[m - 1])
    <3>1. m - 1 \in Nat
      BY <1>7
    <3> QED
      BY <3>1, ReadingsSolid
  <2> QED
    BY <1>7, <2>1, ListEnter
<1>8. ASSUME m > 0, y \in Objects(T, Readings(T)[m - 1]) PROVE c = OpenBrace
  <2>1. Solid(T, Readings(T)[m - 1])
    <3>1. m - 1 \in Nat
      BY <1>8
    <3> QED
      BY <3>1, ReadingsSolid
  <2> QED
    BY <1>8, <2>1, ObjectEnter
<1>9. \/ y \in Numbers(T) \/ y \in Literals(T) \/ y \in Strings(T)
      \/ y \in Empties(T, "[", "]", Value(List))
      \/ y \in Empties(T, OpenBrace, CloseBrace, Value(Object))
      \/ m > 0 /\ y \in Lists(T, Readings(T)[m - 1])
      \/ m > 0 /\ y \in Objects(T, Readings(T)[m - 1])
  BY LevelOf DEF Flat, Nested
<1>10. /\ y \in Empties(T, "[", "]", Value(List)) => c = "["
       /\ y \in Empties(T, OpenBrace, CloseBrace, Value(Object)) => c = OpenBrace
  BY <1>6
<1> HIDE DEF Digit
<1> QED
  BY <1>1, <1>2, <1>3, <1>4, <1>5, <1>7, <1>8, <1>9, <1>10

(* T goes on after what arrived of it. *)
Cut(T) == Len(str) < Len(T)

(* Where the parser is in x, in each mode. *)
ValueAt(T, n, x, s, k) ==
  \E w : /\ w[1] = x /\ Len(s) <= n /\ Chain(T, n, s, w, Len(s))
         /\ Blank(T, k, w[Len(s) + 1].from)

StringAt(T, n, x, s, k, o) ==
  \E w, q : /\ w[1] = x /\ Len(s) <= n /\ Chain(T, n, s, w, Len(s))
            /\ Within(T, q, k, o)
            /\ w[Len(s) + 1] = Part(q.from, q.to, [type |-> "string", of |-> q.val])

KeyAt(T, n, x, s, k, o) ==
  \E w, q : /\ w[1] = x /\ Len(s) <= n /\ Chain(T, n, s, w, Len(s) - 1)
            /\ Within(T, q, k, o)
            /\ KeyHeld(T, Readings(T)[n - Len(s)], s[Len(s)], w[Len(s)], q)

ReturnAt(T, n, x, s, k, v) ==
  \E w : /\ w[1] = x /\ Len(s) <= n /\ Chain(T, n, s, w, Len(s))
         /\ k = w[Len(s) + 1].to /\ v = w[Len(s) + 1].val

(* A number was cut, and counts as the shorter number before the cut.      *)
CutAt(T, x, s, k) == Cut(T) /\ k = Len(str) /\ (s = <<>> => x.val.type = "number")

DoneAt(T, x, v) ==
  \/ v = x.val /\ Blank(T, Len(str), Len(T))
  \/ Cut(T) /\ x.val.type = "number"

Follows(T, n, x) ==
  /\ failed => Cut(T) \/ n > MaxDepth
  /\ ~failed /\ mode = "value" => ValueAt(T, n, x, stack, i)
  /\ ~failed /\ mode = "string" => StringAt(T, n, x, stack, i, out)
  /\ ~failed /\ mode = "key" => KeyAt(T, n, x, stack, i, out)
  /\ ~failed /\ mode = "return" => ReturnAt(T, n, x, stack, i, result) \/ CutAt(T, x, stack, i)
  /\ ~failed /\ mode = "done" => DoneAt(T, x, result)

-----------------------------------------------------------------------------

(* A step into each mode, with what has to be shown of it. *)
LEMMA FollowsFailure ==
  ASSUME NEW T, NEW n, NEW x, UNCHANGED str, failed' = TRUE, Cut(T) \/ n > MaxDepth
  PROVE  Follows(T, n, x)'
<1>1. Cut(T)' \/ n > MaxDepth
  BY DEF Cut
<1> QED
  BY <1>1 DEF Follows

LEMMA FollowsValue ==
  ASSUME NEW T, NEW n, NEW x, failed' = FALSE, mode' = "value",
         NEW s, s = stack', NEW k, k = i', ValueAt(T, n, x, s, k)
  PROVE  Follows(T, n, x)'
BY DEF Follows

LEMMA FollowsString ==
  ASSUME NEW T, NEW n, NEW x, failed' = FALSE, mode' = "string",
         NEW s, s = stack', NEW k, k = i', NEW o, o = out', StringAt(T, n, x, s, k, o)
  PROVE  Follows(T, n, x)'
BY DEF Follows

LEMMA FollowsKey ==
  ASSUME NEW T, NEW n, NEW x, failed' = FALSE, mode' = "key",
         NEW s, s = stack', NEW k, k = i', NEW o, o = out', KeyAt(T, n, x, s, k, o)
  PROVE  Follows(T, n, x)'
BY DEF Follows

LEMMA FollowsReturn ==
  ASSUME NEW T, NEW n, NEW x, failed' = FALSE, mode' = "return", UNCHANGED str,
         NEW s, s = stack', NEW k, k = i', NEW v, v = result',
         ReturnAt(T, n, x, s, k, v) \/ CutAt(T, x, s, k)
  PROVE  Follows(T, n, x)'
<1>1. CutAt(T, x, s, k) => CutAt(T, x, s, k)'
  BY DEF CutAt, Cut
<1> QED
  BY <1>1 DEF Follows

LEMMA FollowsDone ==
  ASSUME NEW T, NEW n, NEW x, failed' = FALSE, mode' = "done", UNCHANGED str,
         NEW v, v = result', DoneAt(T, x, v)
  PROVE  Follows(T, n, x)'
<1>1. DoneAt(T, x, v)'
  BY DEF DoneAt, Cut
<1> QED
  BY <1>1 DEF Follows

-----------------------------------------------------------------------------
(* Calls and returns keep to what is written *)

(* A first character is of one of these classes and of no other. *)
LEMMA FirstIs ==
  ASSUME NEW c, c \in First
  PROVE  /\ c \notin White /\ c # End /\ c # "]" /\ c # CloseBrace /\ c # Comma /\ c # ":"
         /\ (c \in Digit \/ c = "-" \/ c = True \/ c = Quote \/ c = "[" \/ c = OpenBrace)
<1>1. /\ Comma \notin Plain /\ OpenBrace \notin Plain \cup {Comma}
      /\ CloseBrace \notin Plain \cup {Comma, OpenBrace}
      /\ \A d \in White : d \notin Plain \cup {Comma, OpenBrace, CloseBrace}
  BY Chars
<1>2. c = OpenBrace \/ c \in Digit \cup {"-", True, Quote, "["}
  BY DEF First
<1>3. ASSUME c \in Digit \cup {"-", True, Quote, "["}
      PROVE  c \in Plain /\ c # End /\ c # "]" /\ c # ":"
  BY <1>3 DEF Plain, Digit, True, Quote, End
<1>4. CASE c = OpenBrace
  <2>1. OpenBrace # End /\ OpenBrace # "]" /\ OpenBrace # ":"
    BY <1>1 DEF Plain
  <2> QED
    BY <1>1, <1>4, <2>1
<1>5. CASE c # OpenBrace
  BY <1>1, <1>2, <1>3, <1>5
<1> QED
  BY <1>4, <1>5

(* Lists and objects, and keys of objects, as they are entered, go on, and *)
(* are left.                                                               *)
LEMMA Enters ==
  ASSUME IsStack(stack), NEW T, NEW n \in Nat, NEW x, NEW w, w[1] = x,
         Chain(T, n, stack, w, Len(stack)), Len(stack) + 1 <= n,
         NEW f, NEW s, s = Append(stack, f), NEW z, NEW k,
         Held(T, Readings(T)[n - (Len(stack) + 1)], f, w[Len(stack) + 1], z),
         Blank(T, k, z.from)
  PROVE  ValueAt(T, n, x, s, k)
<1>1. /\ Len(s) = Len(stack) + 1 /\ s[Len(stack) + 1] = f
      /\ \A j \in 1 .. Len(stack) : s[j] = stack[j]
  BY PushedAt
<1> DEFINE l == Len(stack)
<1>2. l \in Nat
  BY DEF IsStack
<1>3. Chain(T, n, stack, w, l) /\ \A j \in 1 .. l : s[j] = stack[j]
  BY <1>1
<1>4. Len(s) = l + 1 /\ Held(T, Readings(T)[n - Len(s)], s[Len(s)], w[Len(s)], z)
  BY <1>1
<1> HIDE DEF l
<1>5. \E u : u[1] = w[1] /\ Chain(T, n, s, u, Len(s)) /\ u[Len(s) + 1] = z
  BY ONLY <1>2, <1>3, <1>4, ChainMore
<1> QED
  BY <1>1, <1>5 DEF ValueAt

LEMMA EntersKey ==
  ASSUME IsStack(stack), NEW T, NEW n \in Nat, NEW x, NEW w, w[1] = x,
         Chain(T, n, stack, w, Len(stack)), Len(stack) + 1 <= n,
         NEW f, NEW s, s = Append(stack, f), NEW q, NEW k, NEW o,
         KeyHeld(T, Readings(T)[n - (Len(stack) + 1)], f, w[Len(stack) + 1], q),
         Within(T, q, k, o)
  PROVE  KeyAt(T, n, x, s, k, o)
<1>1. /\ Len(s) = Len(stack) + 1 /\ s[Len(stack) + 1] = f
      /\ \A j \in 1 .. Len(stack) : s[j] = stack[j]
  BY PushedAt
<1>2. Len(stack) \in Nat /\ Len(s) - 1 = Len(stack)
  BY <1>1 DEF IsStack
<1>3. Chain(T, n, s, w, Len(s) - 1)
  <2>1. Chain(T, n, stack, w, Len(stack)) /\ Len(stack) <= Len(stack)
    BY <1>2
  <2> QED
    BY ONLY <1>1, <1>2, <2>1, ChainPart
<1> QED
  BY <1>1, <1>3 DEF KeyAt

LEMMA GoesOn ==
  ASSUME IsStack(stack), stack # <<>>, NEW T, NEW n \in Nat, NEW x, NEW w, w[1] = x,
         Chain(T, n, stack, w, Len(stack) - 1), Len(stack) <= n,
         NEW f, NEW s, s = OnTop(f), NEW z, NEW k,
         Held(T, Readings(T)[n - Len(stack)], f, w[Len(stack)], z), Blank(T, k, z.from)
  PROVE  ValueAt(T, n, x, s, k)
<1> DEFINE l == Len(stack) - 1
<1>1. /\ Len(s) = Len(stack) /\ s[Len(stack)] = f
      /\ \A j \in 1 .. Len(stack) - 1 : s[j] = stack[j]
  BY ReplacedAt
<1>2. l \in Nat /\ l + 1 = Len(stack)
  BY DEF IsStack
<1>3. Chain(T, n, stack, w, l) /\ \A j \in 1 .. l : s[j] = stack[j]
  BY <1>1
<1>4. Len(s) = l + 1 /\ Held(T, Readings(T)[n - Len(s)], s[Len(s)], w[Len(s)], z)
  BY <1>1, <1>2
<1> HIDE DEF l
<1>5. \E u : u[1] = w[1] /\ Chain(T, n, s, u, Len(s)) /\ u[Len(s) + 1] = z
  BY ONLY <1>2, <1>3, <1>4, ChainMore
<1> QED
  BY <1>1, <1>2, <1>5 DEF ValueAt

LEMMA GoesOnKey ==
  ASSUME IsStack(stack), stack # <<>>, NEW T, NEW n \in Nat, NEW x, NEW w, w[1] = x,
         Chain(T, n, stack, w, Len(stack) - 1), Len(stack) <= n,
         NEW f, NEW s, s = OnTop(f), NEW q, NEW k, NEW o,
         KeyHeld(T, Readings(T)[n - Len(stack)], f, w[Len(stack)], q), Within(T, q, k, o)
  PROVE  KeyAt(T, n, x, s, k, o)
<1>1. /\ Len(s) = Len(stack) /\ s[Len(stack)] = f
      /\ \A j \in 1 .. Len(stack) - 1 : s[j] = stack[j]
  BY ReplacedAt
<1>2. Len(stack) - 1 \in Nat /\ Len(stack) - 1 <= Len(stack) - 1
  BY DEF IsStack
<1>3. Chain(T, n, s, w, Len(stack) - 1)
  <2>1. Chain(T, n, stack, w, Len(stack) - 1)
    OBVIOUS
  <2> QED
    BY ONLY <1>1, <1>2, <2>1, ChainPart
<1> QED
  BY <1>1, <1>3 DEF KeyAt

LEMMA Leaves ==
  ASSUME IsStack(stack), stack # <<>>, NEW T, NEW n \in Nat, NEW x, NEW w, w[1] = x,
         Chain(T, n, stack, w, Len(stack)), Len(stack) <= n, NEW s, s = Below,
         NEW k, k = w[Len(stack)].to, NEW v, v = w[Len(stack)].val
  PROVE  ReturnAt(T, n, x, s, k, v)
<1>1. Len(s) = Len(stack) - 1 /\ \A j \in 1 .. Len(stack) - 1 : s[j] = stack[j]
  BY PoppedAt
<1>2. /\ Len(stack) \in Nat /\ Len(stack) - 1 \in Nat /\ Len(stack) - 1 <= Len(stack)
      /\ Len(s) <= n /\ Len(s) + 1 = Len(stack)
  <2>1. Len(stack) \in Nat \ {0}
    BY DEF IsStack
  <2>2. Len(s) + 1 = Len(stack) /\ Len(stack) - 1 \in Nat /\ Len(stack) - 1 <= Len(stack)
    BY <1>1, <2>1
  <2>3. Len(s) <= n
    BY <1>1, <2>1
  <2> QED
    BY <2>1, <2>2, <2>3
<1>3. Chain(T, n, s, w, Len(s))
  <2>1. Chain(T, n, stack, w, Len(stack))
    OBVIOUS
  <2> QED
    BY ONLY <1>1, <1>2, <2>1, ChainPart
<1> QED
  BY <1>2, <1>3 DEF ReturnAt

-----------------------------------------------------------------------------
(* parse_json() at its beginning is before the value that is written.      *)
LEMMA AtValue ==
  ASSUME Inv, NEW T, Begins(T), NEW n, NEW x, Wanted(T, n, x), NEW w, w[1] = x,
         Len(stack) <= n, Chain(T, n, stack, w, Len(stack)),
         NEW y, y = w[Len(stack) + 1], Blank(T, i, y.from)
  PROVE  /\ y \in Readings(T)[n - Len(stack)] /\ n - Len(stack) \in Nat /\ Ends(T, y)
         /\ y.from \in Nat /\ y.to \in Nat /\ y.from < y.to /\ y.to <= Len(T)
         /\ T[y.from + 1] \in First
         /\ \/ /\ y.from < Len(str) /\ y.from \in Place /\ Here = T[y.from + 1]
               /\ Next1 = y.from + 1 /\ Next1 \in Place
            \/ Cut(T) /\ Here = End
<1>1. Len(stack) \in Nat /\ T \in Seq(Character) /\ Len(T) \in Nat /\ i \in Place /\ CursorInv
  BY HereNow DEF Begins, Inv
<1>2. /\ y \in Readings(T)[n - Len(stack)] /\ n - Len(stack) \in Nat /\ Ends(T, y)
      /\ y.from \in Nat /\ y.to \in Nat /\ y.from < y.to /\ y.to <= Len(T)
      /\ T[y.from + 1] \in First
  BY <1>1, ChainAt
<1>3. T[y.from + 1] \notin White /\ y.from < Len(T)
  BY <1>1, <1>2, FirstIs
<1>4. \/ /\ y.from < Len(str) /\ Token(i) = T[y.from + 1] /\ AfterToken(i) = y.from + 1
      \/ Len(str) < Len(T) /\ Token(i) = End
  BY <1>1, <1>2, <1>3, TokenIn
<1>5. y.from < Len(str) => y.from \in Place /\ y.from + 1 \in Place
  BY <1>1, <1>2 DEF Place, CursorInv
<1> QED
  BY <1>2, <1>4, <1>5 DEF Here, Next1, Cut

-----------------------------------------------------------------------------
(* Steps keep to what is written *)

(* What arrived is spelled as it was sent. *)
LEMMA SameUncut ==
  ASSUME CursorInv, NEW T, Begins(T), NEW a \in Nat, NEW b \in Nat, a < b, b <= Len(str)
  PROVE  SubSeq(str, a + 1, b) = SubSeq(T, a + 1, b)
<1>1. str \in Seq(Character) /\ T \in Seq(Character) /\ Len(str) <= Len(T)
      /\ \A m \in 1 .. Len(str) : str[m] = T[m]
  BY DEF CursorInv, Begins
<1>2. Len(str) \in Nat /\ Len(T) \in Nat
  BY <1>1
<1> HIDE DEF Character
<1>3. /\ SubSeq(str, a + 1, b) = [j \in 1 .. b - a |-> str[j + a]]
      /\ SubSeq(T, a + 1, b) = [j \in 1 .. b - a |-> T[j + a]]
  <2>1. ASSUME NEW u \in Seq(Character), b <= Len(u)
        PROVE  SubSeq(u, a + 1, b) = [j \in 1 .. b - a |-> u[j + a]]
    <3>1. /\ SubSeq(u, a + 1, b) \in Seq(Character) /\ Len(SubSeq(u, a + 1, b)) = b - a
          /\ \A j \in 1 .. b - a : SubSeq(u, a + 1, b)[j] = u[j + a]
      BY <2>1
    <3> QED
      BY <3>1
  <2> QED
    BY <1>1, <1>2, <2>1
<1>4. \A j \in 1 .. b - a : str[j + a] = T[j + a]
  BY <1>1, <1>2
<1> QED
  BY <1>3, <1>4

(* What is read is nested no deeper than it is written. *)
LEMMA TooDeepFollows ==
  ASSUME Inv, ~failed, NEW T, Begins(T), NEW n, NEW x, Wanted(T, n, x),
         Follows(T, n, x), ParseTooDeep
  PROVE  Follows(T, n, x)'
<1>1. mode = "value" /\ Len(stack) > MaxDepth /\ failed' = TRUE /\ UNCHANGED str
  BY DEF ParseTooDeep, TooDeep, Fail, FailWith
<1>2. Len(stack) <= n
  BY <1>1 DEF Follows, ValueAt
<1>3. n > MaxDepth
  BY <1>1, <1>2, HereNow, JsonAssumption DEF Wanted
<1> QED
  BY <1>1, <1>3, FollowsFailure

(* Where a value is written there is one, unless it was cut. *)
LEMMA NothingFollows ==
  ASSUME Inv, ~failed, NEW T, Begins(T), NEW n, NEW x, Wanted(T, n, x),
         Follows(T, n, x), ParseNothing
  PROVE  Follows(T, n, x)'
<1>1. /\ mode = "value" /\ failed' = TRUE /\ UNCHANGED str
      /\ Here \notin Digit \cup {"-", True, Quote, OpenBrace, "["}
  BY DEF ParseNothing, Fail, FailWith
<1>2. PICK w : /\ w[1] = x /\ Len(stack) <= n /\ Chain(T, n, stack, w, Len(stack))
               /\ Blank(T, i, w[Len(stack) + 1].from)
  BY <1>1 DEF Follows, ValueAt
<1> DEFINE y == w[Len(stack) + 1]
<1>3. /\ T[y.from + 1] \in First
      /\ Here = T[y.from + 1] \/ Cut(T)
  BY <1>2, AtValue
<1>4. Cut(T)
  BY <1>1, <1>3 DEF First
<1> QED
  BY <1>1, <1>4, FollowsFailure

(* The number that is written is read, or the beginning of it that arrived. *)
LEMMA NumberFollows ==
  ASSUME Inv, ~failed, NEW T, Begins(T), NEW n, NEW x, Wanted(T, n, x),
         Follows(T, n, x), ParseNumber
  PROVE  Follows(T, n, x)'
<1> DEFINE e == NumberEnd(Next1 - 1)
           number == [type |-> "number", of |-> SubSeq(str, Next1, e)]
<1>1. /\ mode = "value" /\ Here \in Digit \cup {"-"}
      /\ e = -1 => Fail(Next1, stack)
      /\ e # -1 => Return(number, e, stack)
  BY DEF ParseNumber, Starts
<1> HIDE DEF number
<1>2. PICK w : /\ w[1] = x /\ Len(stack) <= n /\ Chain(T, n, stack, w, Len(stack))
               /\ Blank(T, i, w[Len(stack) + 1].from)
  BY <1>1 DEF Follows, ValueAt
<1> DEFINE y == w[Len(stack) + 1]
<1>3. /\ y \in Readings(T)[n - Len(stack)] /\ n - Len(stack) \in Nat /\ Ends(T, y)
      /\ y.from \in Nat /\ y.to \in Nat /\ y.from < y.to /\ y.to <= Len(T)
      /\ \/ /\ y.from < Len(str) /\ y.from \in Place /\ Here = T[y.from + 1]
            /\ Next1 = y.from + 1 /\ Next1 \in Place
         \/ Cut(T) /\ Here = End
  BY <1>2, AtValue
<1>4. /\ y.from < Len(str) /\ y.from \in Place /\ Here = T[y.from + 1]
      /\ Next1 = y.from + 1 /\ Next1 - 1 = y.from
  BY <1>1, <1>3 DEF End, Digit
<1>5. T \in Seq(Character) /\ Len(str) \in Nat /\ Len(T) \in Nat /\ Len(stack) \in Nat /\ CursorInv
  BY HereNow DEF Begins, Inv, CursorInv
<1>6. y \in Numbers(T)
  BY <1>1, <1>3, <1>4, <1>5, KindOf
<1>7. PICK a \in Marks(T, Digit \cup {"-"}), b \in Places(T) :
        /\ IsNumber(T, a, b)
        /\ y = Part(a, b, [type |-> "number", of |-> SubSeq(T, a + 1, b)])
  BY <1>6, NumberOf
<1>8. /\ y.from = a /\ y.to = b
      /\ y.val = [type |-> "number", of |-> SubSeq(T, y.from + 1, y.to)]
  <2> DEFINE v == [type |-> "number", of |-> SubSeq(T, a + 1, b)]
  <2>1. y = Part(a, b, v)
    BY <1>7
  <2> HIDE DEF y, v
  <2>2. y.from = a /\ y.to = b /\ y.val = v
    BY <2>1, PartIs
  <2> QED
    BY <2>2 DEF v
<1> HIDE DEF y
<1>9. Stops(T, y.to, Digit \cup {".", "e"})
  BY <1>3, <1>5, EndsStops
<1>10. Meets(NumberEnd(y.from), y.to)
  BY <1>3, <1>4, <1>5, <1>7, <1>8, <1>9, NumberIsRead
<1>11. Meets(e, y.to)
  BY <1>4, <1>10
<1>12. CASE e = -1
  <2>1. Cut(T)
    BY <1>3, <1>5, <1>11, <1>12 DEF Meets, Cut
  <2>2. failed' = TRUE /\ UNCHANGED str
    BY <1>1, <1>12 DEF Fail, FailWith
  <2> QED
    BY <2>1, <2>2, FollowsFailure
<1>13. CASE e # -1
  <2>1. /\ failed' = FALSE /\ mode' = "return" /\ UNCHANGED str
        /\ stack' = stack /\ i' = e /\ result' = number
    BY <1>1, <1>13 DEF Return, Inv, CursorInv
  <2>2. CASE y.to <= Len(str) /\ e = y.to
    <3>1. SubSeq(str, y.from + 1, y.to) = SubSeq(T, y.from + 1, y.to)
      BY <1>3, <1>5, <2>2, SameUncut
    <3>2. number = y.val
      BY <1>4, <1>8, <2>2, <3>1 DEF number
    <3>3. ReturnAt(T, n, x, stack, e, number)
      BY <1>2, <2>2, <3>2 DEF ReturnAt, y
    <3> QED
      BY <2>1, <3>3, FollowsReturn
  <2>3. CASE Len(str) < y.to /\ e = Len(str)
    <3>1. stack = <<>> => x.val.type = "number"
      <4>1. stack = <<>> => y = x
        BY <1>2 DEF y
      <4> QED
        BY <1>8, <4>1
    <3>2. CutAt(T, x, stack, e)
      BY <1>3, <1>5, <2>3, <3>1 DEF CutAt, Cut
    <3> QED
      BY <2>1, <3>2, FollowsReturn
  <2> QED
    BY <1>11, <1>13, <2>2, <2>3 DEF Meets
<1> QED
  BY <1>12, <1>13

(* A literal, *)
LEMMA LiteralFollows ==
  ASSUME Inv, ~failed, NEW T, Begins(T), NEW n, NEW x, Wanted(T, n, x),
         Follows(T, n, x), ParseLiteral
  PROVE  Follows(T, n, x)'
<1> DEFINE literal == [type |-> "literal", of |-> <<True>>]
<1>1. mode = "value" /\ Here = True /\ Return(literal, Next1, stack)
  BY DEF ParseLiteral, Starts
<1> HIDE DEF literal
<1>2. PICK w : /\ w[1] = x /\ Len(stack) <= n /\ Chain(T, n, stack, w, Len(stack))
               /\ Blank(T, i, w[Len(stack) + 1].from)
  BY <1>1 DEF Follows, ValueAt
<1> DEFINE y == w[Len(stack) + 1]
<1>3. /\ y \in Readings(T)[n - Len(stack)] /\ n - Len(stack) \in Nat
      /\ \/ /\ y.from < Len(str) /\ y.from \in Place /\ Here = T[y.from + 1]
            /\ Next1 = y.from + 1 /\ Next1 \in Place
         \/ Cut(T) /\ Here = End
  BY <1>2, AtValue
<1>4. Here = T[y.from + 1] /\ Next1 = y.from + 1
  BY <1>1, <1>3 DEF End, True
<1>5. T \in Seq(Character)
  BY DEF Begins
<1>6. y \in Literals(T)
  BY <1>1, <1>3, <1>4, <1>5, KindOf
<1>7. PICK a \in Marks(T, {True}) : y = Part(a, a + 1, literal)
  BY <1>6 DEF Literals, literal
<1>8. y.from = a /\ y.to = a + 1 /\ y.val = literal
  BY <1>7, PartIs
<1>9. ReturnAt(T, n, x, stack, Next1, literal)
  BY <1>2, <1>4, <1>8 DEF ReturnAt
<1>10. /\ failed' = FALSE /\ mode' = "return" /\ UNCHANGED str
       /\ stack' = stack /\ i' = Next1 /\ result' = literal
  BY <1>1 DEF Return, Inv, CursorInv
<1> QED
  BY <1>9, <1>10, FollowsReturn

(* and the first quote of a string. *)
LEMMA StringFollows ==
  ASSUME Inv, ~failed, NEW T, Begins(T), NEW n, NEW x, Wanted(T, n, x),
         Follows(T, n, x), ParseString
  PROVE  Follows(T, n, x)'
<1>1. mode = "value" /\ Here = Quote /\ String("string", Next1, stack)
  BY DEF ParseString, Starts
<1>2. PICK w : /\ w[1] = x /\ Len(stack) <= n /\ Chain(T, n, stack, w, Len(stack))
               /\ Blank(T, i, w[Len(stack) + 1].from)
  BY <1>1 DEF Follows, ValueAt
<1> DEFINE y == w[Len(stack) + 1]
<1>3. /\ y \in Readings(T)[n - Len(stack)] /\ n - Len(stack) \in Nat
      /\ \/ /\ y.from < Len(str) /\ y.from \in Place /\ Here = T[y.from + 1]
            /\ Next1 = y.from + 1 /\ Next1 \in Place
         \/ Cut(T) /\ Here = End
  BY <1>2, AtValue
<1>4. Here = T[y.from + 1] /\ Next1 = y.from + 1
  BY <1>1, <1>3 DEF End, Quote
<1>5. T \in Seq(Character)
  BY DEF Begins
<1>6. y \in Strings(T)
  BY <1>1, <1>3, <1>4, <1>5, KindOf
<1>7. PICK q \in Quoted(T) : y = Part(q.from, q.to, [type |-> "string", of |-> q.val])
  BY <1>6 DEF Strings
<1>8. y.from = q.from /\ Within(T, q, q.from + 1, <<>>)
  BY <1>7, PartIs, WithinBegins
<1>9. StringAt(T, n, x, stack, Next1, <<>>)
  BY <1>2, <1>4, <1>7, <1>8 DEF StringAt
<1>10. /\ failed' = FALSE /\ mode' = "string"
       /\ stack' = stack /\ i' = Next1 /\ out' = <<>>
  BY <1>1 DEF String, Inv, CursorInv
<1> QED
  BY <1>9, <1>10, FollowsString

(* A list is entered, or is empty; *)
LEMMA ListFollows ==
  ASSUME Inv, ~failed, NEW T, Begins(T), NEW n, NEW x, Wanted(T, n, x),
         Follows(T, n, x), ParseList
  PROVE  Follows(T, n, x)'
<1> DEFINE empty == Value(List)
<1>1. /\ mode = "value" /\ Here = "["
      /\ Token(Next1) = "]" => Return(empty, AfterToken(Next1), stack)
      /\ Token(Next1) # "]" => Element(Next1, Append(stack, List))
  BY DEF ParseList, Starts
<1> HIDE DEF empty
<1>2. PICK w : /\ w[1] = x /\ Len(stack) <= n /\ Chain(T, n, stack, w, Len(stack))
               /\ Blank(T, i, w[Len(stack) + 1].from)
  BY <1>1 DEF Follows, ValueAt
<1> DEFINE y == w[Len(stack) + 1]
<1>3. /\ y \in Readings(T)[n - Len(stack)] /\ n - Len(stack) \in Nat
      /\ \/ /\ y.from < Len(str) /\ y.from \in Place /\ Here = T[y.from + 1]
            /\ Next1 = y.from + 1 /\ Next1 \in Place
         \/ Cut(T) /\ Here = End
  BY <1>2, AtValue
<1>4. Here = T[y.from + 1] /\ Next1 = y.from + 1 /\ Next1 \in Place
  BY <1>1, <1>3 DEF End
<1>5. /\ T \in Seq(Character) /\ n \in Nat /\ Len(stack) \in Nat /\ IsStack(stack) /\ CursorInv
  BY HereNow DEF Begins, Wanted, Inv
<1>6. \/ y \in Empties(T, "[", "]", empty)
      \/ n - Len(stack) > 0 /\ y \in Lists(T, Readings(T)[(n - Len(stack)) - 1])
  BY <1>1, <1>3, <1>4, <1>5, KindOf DEF empty
<1>7. ASSUME Cut(T), Token(Next1) = End PROVE Follows(T, n, x)'
  <2>1. failed' = TRUE /\ UNCHANGED str
    BY <1>1, <1>7 DEF Element, End
  <2> QED
    BY <1>7, <2>1, FollowsFailure
<1>8. CASE y \in Empties(T, "[", "]", empty)
  <2>1. PICK a, b \in Nat :
          /\ a < Len(T) /\ T[a + 1] = "[" /\ b < Len(T) /\ T[b + 1] = "]"
          /\ Blank(T, a + 1, b) /\ y = Part(a, b + 1, empty)
    BY <1>5, <1>8, EmptyOf
  <2>2. y.from = a /\ y.to = b + 1 /\ y.val = empty
    BY <2>1, PartIs
  <2>3. T[b + 1] \notin White
    BY <2>1, Chars DEF Plain
  <2>4. Blank(T, Next1, b)
    BY <1>4, <2>1, <2>2
  <2>5. \/ Token(Next1) = "]" /\ AfterToken(Next1) = b + 1
        \/ Cut(T) /\ Token(Next1) = End
    BY <1>4, <1>5, <2>1, <2>3, <2>4, TokenIn DEF Cut
  <2>6. CASE Token(Next1) = "]" /\ AfterToken(Next1) = b + 1
    <3>1. ReturnAt(T, n, x, stack, AfterToken(Next1), empty)
      BY <1>2, <2>2, <2>6 DEF ReturnAt
    <3>2. /\ failed' = FALSE /\ mode' = "return" /\ UNCHANGED str
          /\ stack' = stack /\ i' = AfterToken(Next1) /\ result' = empty
      BY <1>1, <2>6 DEF Return, Inv, CursorInv
    <3> QED
      BY <3>1, <3>2, FollowsReturn
  <2> QED
    BY <1>7, <2>5, <2>6
<1>9. CASE n - Len(stack) > 0 /\ y \in Lists(T, Readings(T)[(n - Len(stack)) - 1])
  <2> DEFINE l == Len(stack) + 1
             R == Readings(T)[n - l]
  <2>1. n - l \in Nat /\ (n - Len(stack)) - 1 = n - l /\ l <= n
    BY <1>5, <1>9
  <2>2. Solid(T, R) /\ y \in Lists(T, R)
    BY <1>5, <1>9, <2>1, ReadingsSolid
  <2> HIDE DEF R
  <2>3. PICK z \in R : Blank(T, y.from + 1, z.from) /\ ListHeld(T, R, List, y, z)
    BY <1>5, <2>2, ListEnter
  <2>4. z.from \in Nat /\ z.from < Len(T) /\ T[z.from + 1] \in First
    <3>1. /\ z.from \in Nat /\ z.to \in Nat /\ z.from < z.to /\ z.to <= Len(T)
          /\ T[z.from + 1] \in First
      BY <2>2, <2>3 DEF Solid
    <3>2. Len(T) \in Nat
      BY <1>5
    <3> QED
      BY <3>1, <3>2
  <2>5. T[z.from + 1] \notin White /\ T[z.from + 1] # "]" /\ T[z.from + 1] # End
    BY <2>4, FirstIs
  <2>6. \/ /\ Token(Next1) = T[z.from + 1] /\ AfterToken(Next1) = z.from + 1
        \/ Cut(T) /\ Token(Next1) = End
    BY <1>4, <1>5, <2>3, <2>4, <2>5, TokenIn DEF Cut
  <2>7. CASE Token(Next1) = T[z.from + 1] /\ AfterToken(Next1) = z.from + 1
    <3>1. /\ i' = z.from /\ failed' = FALSE /\ stack' = Append(stack, List) /\ mode' = "value"
      <4>1. Element(Next1, Append(stack, List))
        BY <1>1, <2>5, <2>7
      <4>2. (z.from + 1) - 1 = z.from
        BY <2>4
      <4> QED
        BY <2>5, <2>7, <4>1, <4>2 DEF Element
    <3>2. Held(T, Readings(T)[n - (Len(stack) + 1)], List, w[Len(stack) + 1], z)
      BY <2>3 DEF Held, R
    <3>3. Blank(T, z.from, z.from)
      BY <2>4 DEF Blank
    <3>4. \A s : s = Append(stack, List) => ValueAt(T, n, x, s, z.from)
      BY <1>2, <1>5, <2>1, <3>2, <3>3, Enters
    <3> QED
      BY <3>1, <3>4, FollowsValue
  <2> QED
    BY <1>7, <2>6, <2>7
<1> QED
  BY <1>6, <1>8, <1>9

(* and so is an object. *)
LEMMA ObjectFollows ==
  ASSUME Inv, ~failed, NEW T, Begins(T), NEW n, NEW x, Wanted(T, n, x),
         Follows(T, n, x), ParseObject
  PROVE  Follows(T, n, x)'
<1> DEFINE empty == Value(Object)
<1>1. /\ mode = "value" /\ Here = OpenBrace
      /\ Token(Next1) = CloseBrace => Return(empty, AfterToken(Next1), stack)
      /\ Token(Next1) = Quote => String("key", AfterToken(Next1), Append(stack, Object))
      /\ Token(Next1) # CloseBrace /\ Token(Next1) # Quote => Fail(AfterToken(Next1), stack)
  BY Distinct DEF ParseObject, Starts
<1> HIDE DEF empty
<1>2. PICK w : /\ w[1] = x /\ Len(stack) <= n /\ Chain(T, n, stack, w, Len(stack))
               /\ Blank(T, i, w[Len(stack) + 1].from)
  BY <1>1 DEF Follows, ValueAt
<1> DEFINE y == w[Len(stack) + 1]
<1>3. /\ y \in Readings(T)[n - Len(stack)] /\ n - Len(stack) \in Nat
      /\ \/ /\ y.from < Len(str) /\ y.from \in Place /\ Here = T[y.from + 1]
            /\ Next1 = y.from + 1 /\ Next1 \in Place
         \/ Cut(T) /\ Here = End
  BY <1>2, AtValue
<1>4. Here = T[y.from + 1] /\ Next1 = y.from + 1 /\ Next1 \in Place
  BY <1>1, <1>3, Distinct
<1>5. /\ T \in Seq(Character) /\ n \in Nat /\ Len(stack) \in Nat /\ IsStack(stack) /\ CursorInv
  BY HereNow DEF Begins, Wanted, Inv
<1>6. \/ y \in Empties(T, OpenBrace, CloseBrace, empty)
      \/ n - Len(stack) > 0 /\ y \in Objects(T, Readings(T)[(n - Len(stack)) - 1])
  BY <1>1, <1>3, <1>4, <1>5, KindOf DEF empty
<1>7. ASSUME Cut(T), Token(Next1) = End PROVE Follows(T, n, x)'
  <2>1. End # Quote /\ End # CloseBrace
    BY Distinct DEF End, Quote
  <2>2. failed' = TRUE /\ UNCHANGED str
    BY <1>1, <1>7, <2>1 DEF Fail, FailWith
  <2> QED
    BY <1>7, <2>2, FollowsFailure
<1>8. CASE y \in Empties(T, OpenBrace, CloseBrace, empty)
  <2>1. PICK a, b \in Nat :
          /\ a < Len(T) /\ T[a + 1] = OpenBrace /\ b < Len(T) /\ T[b + 1] = CloseBrace
          /\ Blank(T, a + 1, b) /\ y = Part(a, b + 1, empty)
    BY <1>5, <1>8, EmptyOf
  <2>2. y.from = a /\ y.to = b + 1 /\ y.val = empty
    BY <2>1, PartIs
  <2>3. T[b + 1] \notin White
    BY <2>1, Chars DEF Plain
  <2>4. Blank(T, Next1, b)
    BY <1>4, <2>1, <2>2
  <2>5. \/ Token(Next1) = CloseBrace /\ AfterToken(Next1) = b + 1
        \/ Cut(T) /\ Token(Next1) = End
    BY <1>4, <1>5, <2>1, <2>3, <2>4, TokenIn DEF Cut
  <2>6. CASE Token(Next1) = CloseBrace /\ AfterToken(Next1) = b + 1
    <3>1. ReturnAt(T, n, x, stack, AfterToken(Next1), empty)
      BY <1>2, <2>2, <2>6 DEF ReturnAt
    <3>2. /\ failed' = FALSE /\ mode' = "return" /\ UNCHANGED str
          /\ stack' = stack /\ i' = AfterToken(Next1) /\ result' = empty
      BY <1>1, <2>6 DEF Return, Inv, CursorInv
    <3> QED
      BY <3>1, <3>2, FollowsReturn
  <2> QED
    BY <1>7, <2>5, <2>6
<1>9. CASE n - Len(stack) > 0 /\ y \in Objects(T, Readings(T)[(n - Len(stack)) - 1])
  <2> DEFINE l == Len(stack) + 1
             R == Readings(T)[n - l]
  <2>1. n - l \in Nat /\ (n - Len(stack)) - 1 = n - l /\ l <= n
    BY <1>5, <1>9
  <2>2. Solid(T, R) /\ y \in Objects(T, R)
    BY <1>5, <1>9, <2>1, ReadingsSolid
  <2> HIDE DEF R
  <2>3. PICK q \in Quoted(T) : Blank(T, y.from + 1, q.from) /\ KeyHeld(T, R, Object, y, q)
    BY <1>5, <2>2, ObjectEnter
  <2>4. q.from \in Nat /\ q.from < Len(T) /\ T[q.from + 1] = Quote /\ Within(T, q, q.from + 1, <<>>)
    <3>1. Solid(T, Quoted(T)) /\ Len(T) \in Nat
      BY <1>5, QuotedSolid
    <3>2. q.from \in Nat /\ q.to \in Nat /\ q.from < q.to /\ q.to <= Len(T)
      BY <3>1 DEF Solid
    <3>3. q.from < Len(T)
      BY <3>1, <3>2
    <3> QED
      BY <3>2, <3>3, WithinBegins
  <2>5. Quote \notin White
    BY Chars DEF Plain
  <2>6. \/ /\ Token(Next1) = Quote /\ AfterToken(Next1) = q.from + 1
        \/ Cut(T) /\ Token(Next1) = End
    BY <1>4, <1>5, <2>3, <2>4, <2>5, TokenIn DEF Cut
  <2>7. CASE Token(Next1) = Quote /\ AfterToken(Next1) = q.from + 1
    <3>1. /\ i' = q.from + 1 /\ failed' = FALSE /\ stack' = Append(stack, Object)
          /\ mode' = "key" /\ out' = <<>>
      BY <1>1, <2>7 DEF String, Inv, CursorInv
    <3>2. KeyHeld(T, Readings(T)[n - (Len(stack) + 1)], Object, w[Len(stack) + 1], q)
      BY <2>3 DEF R
    <3>3. \A s : s = Append(stack, Object) => KeyAt(T, n, x, s, q.from + 1, <<>>)
      BY <1>2, <1>5, <2>1, <2>4, <3>2, EntersKey
    <3> QED
      BY <3>1, <3>3, FollowsKey
  <2> QED
    BY <1>7, <2>6, <2>7
<1> QED
  BY <1>6, <1>8, <1>9

(* The next character of a string, unless it was cut. *)
LEMMA AtWithin ==
  ASSUME Inv, NEW T, Begins(T), NEW q, Within(T, q, i, out)
  PROVE  \/ Cut(T) /\ At(i) = End
         \/ At(i) = Quote /\ q.to = i + 1 /\ q.val = out /\ i + 1 \in Place
         \/ Cut(T) /\ At(i) = Backslash /\ At(i + 1) = End
         \/ /\ At(i) = Backslash /\ (At(i + 1) = Quote \/ At(i + 1) = Backslash)
            /\ Within(T, q, i + 2, Append(out, At(i + 1)))
         \/ /\ At(i) \in Character /\ At(i) # Quote /\ At(i) # Backslash /\ At(i) # Control
            /\ Within(T, q, i + 1, Append(out, At(i)))
<1>1. /\ CursorInv /\ i \in Place /\ i \in Nat /\ T \in Seq(Character)
      /\ Len(T) \in Nat /\ Len(str) \in Nat
  BY DEF Inv, CursorInv, Place, Begins
<1>2. /\ i < Len(T)
      /\ \/ T[i + 1] = Quote /\ q.to = i + 1 /\ q.val = out
         \/ /\ i + 1 < Len(T) /\ T[i + 1] = Backslash /\ T[i + 2] \in {Quote, Backslash}
            /\ Within(T, q, i + 2, Append(out, T[i + 2]))
         \/ /\ T[i + 1] \notin {Quote, Backslash, Control}
            /\ Within(T, q, i + 1, Append(out, T[i + 1]))
  BY <1>1, WithinNext
<1>3. \/ i < Len(str) /\ At(i) = T[i + 1] /\ i + 1 \in Place /\ T[i + 1] \in Character
      \/ i = Len(str) /\ At(i) = End
  BY <1>1, AtIn
<1>4. CASE i = Len(str) /\ At(i) = End
  BY <1>2, <1>4 DEF Cut
<1>5. CASE At(i) = T[i + 1] /\ i + 1 \in Place /\ T[i + 1] \in Character
  <2>1. CASE T[i + 1] = Quote /\ q.to = i + 1 /\ q.val = out
    BY <1>5, <2>1
  <2>2. CASE /\ i + 1 < Len(T) /\ T[i + 1] = Backslash /\ T[i + 2] \in {Quote, Backslash}
             /\ Within(T, q, i + 2, Append(out, T[i + 2]))
    <3>1. (i + 1) + 1 = i + 2
      BY <1>1
    <3>2. \/ At(i + 1) = T[i + 2]
          \/ i + 1 = Len(str) /\ At(i + 1) = End
      BY <1>1, <1>5, <3>1, AtIn
    <3>3. CASE At(i + 1) = T[i + 2]
      BY <1>5, <2>2, <3>3
    <3>4. CASE i + 1 = Len(str) /\ At(i + 1) = End
      <4>1. Cut(T)
        BY <2>2, <3>4 DEF Cut
      <4> QED
        BY <1>5, <2>2, <3>4, <4>1
    <3> QED
      BY <3>2, <3>3, <3>4
  <2>3. CASE /\ T[i + 1] \notin {Quote, Backslash, Control}
             /\ Within(T, q, i + 1, Append(out, T[i + 1]))
    BY <1>5, <2>3
  <2> QED
    BY <1>2, <2>1, <2>2, <2>3
<1> QED
  BY <1>3, <1>4, <1>5

(* A string that is written can be read, unless it was cut. *)
LEMMA StringFailsFollows ==
  ASSUME Inv, ~failed, NEW T, Begins(T), NEW n, NEW x, Wanted(T, n, x),
         Follows(T, n, x), StringFails
  PROVE  Follows(T, n, x)'
<1>1. /\ mode = "string" \/ mode = "key"
      /\ failed' = TRUE /\ UNCHANGED str
      /\ \/ At(i) = End
         \/ At(i) = Control
         \/ At(i) = Backslash /\ At(i + 1) = End
         \/ At(i) = Backslash /\ At(i + 1) # Quote /\ At(i + 1) # Backslash
  BY DEF StringFails, InString, Unread, Fail, FailWith
<1>2. \E q : Within(T, q, i, out)
  BY <1>1 DEF Follows, StringAt, KeyAt
<1>3. PICK q : Within(T, q, i, out)
  BY <1>2
<1>4. End \notin Character
  BY Distinct DEF Character, Digit, Quote, Backslash, True, Control, End
<1>5. End # Quote /\ End # Backslash /\ Control # Quote /\ Control # Backslash /\ Quote # Backslash
  BY DEF End, Quote, Backslash, Control
<1>6. Cut(T)
  BY <1>1, <1>3, <1>4, <1>5, AtWithin
<1> QED
  BY <1>1, <1>6, FollowsFailure

(* Each of its characters is read, *)
LEMMA StringGoesOnFollows ==
  ASSUME Inv, ~failed, NEW T, Begins(T), NEW n, NEW x, Wanted(T, n, x),
         Follows(T, n, x), StringGoesOn
  PROVE  Follows(T, n, x)'
<1>1. /\ mode = "string" \/ mode = "key"
      /\ UNCHANGED <<str, failed, stack, mode>>
      /\ \/ /\ At(i) \in Character /\ At(i) # Quote /\ At(i) # Backslash /\ At(i) # Control
            /\ out' = Append(out, At(i)) /\ i' = i + 1
         \/ /\ At(i) = Backslash /\ (At(i + 1) = Quote \/ At(i + 1) = Backslash)
            /\ out' = Append(out, At(i + 1)) /\ i' = i + 2
  BY DEF StringGoesOn, InString
<1>2. End \notin Character
  BY Distinct DEF Character, Digit, Quote, Backslash, True, Control, End
<1>3. End # Quote /\ End # Backslash /\ Quote # Backslash
  BY DEF End, Quote, Backslash
<1>4. \A q : Within(T, q, i, out) => Within(T, q, i', out')
  <2>1. ASSUME NEW q, Within(T, q, i, out) PROVE Within(T, q, i', out')
    BY <1>1, <1>2, <1>3, <2>1, AtWithin
  <2> QED
    BY <2>1
<1>5. failed' = FALSE
  BY <1>1 DEF Inv, CursorInv
<1>6. CASE mode = "string"
  <2>1. PICK w, q :
            /\ w[1] = x /\ Len(stack) <= n /\ Chain(T, n, stack, w, Len(stack))
            /\ Within(T, q, i, out)
            /\ w[Len(stack) + 1] = Part(q.from, q.to, [type |-> "string", of |-> q.val])
    BY <1>6 DEF Follows, StringAt
  <2>2. Within(T, q, i', out')
    BY <1>4, <2>1
  <2>3. \A k, o : k = i' /\ o = out' => StringAt(T, n, x, stack, k, o)
    BY <2>1, <2>2 DEF StringAt
  <2> QED
    BY <1>1, <1>5, <1>6, <2>3, FollowsString
<1>7. CASE mode = "key"
  <2>1. PICK w, q :
            /\ w[1] = x /\ Len(stack) <= n /\ Chain(T, n, stack, w, Len(stack) - 1)
            /\ Within(T, q, i, out)
            /\ KeyHeld(T, Readings(T)[n - Len(stack)], stack[Len(stack)], w[Len(stack)], q)
    BY <1>7 DEF Follows, KeyAt
  <2>2. Within(T, q, i', out')
    BY <1>4, <2>1
  <2>3. \A k, o : k = i' /\ o = out' => KeyAt(T, n, x, stack, k, o)
    BY <2>1, <2>2 DEF KeyAt
  <2> QED
    BY <1>1, <1>5, <1>7, <2>3, FollowsKey
<1> QED
  BY <1>1, <1>6, <1>7

(* and it ends where it is written to end. *)
LEMMA StringEndsFollows ==
  ASSUME Inv, ~failed, NEW T, Begins(T), NEW n, NEW x, Wanted(T, n, x),
         Follows(T, n, x), StringEnds
  PROVE  Follows(T, n, x)'
<1> DEFINE string == [type |-> "string", of |-> out]
           f == [Top EXCEPT !.key = out]
<1>1. /\ mode = "string" \/ mode = "key"
      /\ At(i) = Quote
      /\ mode = "string" => Return(string, i + 1, stack)
      /\ mode = "key" /\ Token(i + 1) = ":" =>
           /\ i' = AfterToken(i + 1) /\ mode' = "value" /\ stack' = OnTop(f)
           /\ UNCHANGED <<sent, str, failed, out, result>>
      /\ mode = "key" /\ Token(i + 1) # ":" => Fail(AfterToken(i + 1), Below)
  BY DEF StringEnds, InString
<1> HIDE DEF string, f
<1>2. End # Quote /\ Quote # Backslash
  BY DEF End, Quote, Backslash
<1>3. /\ T \in Seq(Character) /\ n \in Nat /\ IsStack(stack) /\ CursorInv /\ Len(stack) \in Nat
      /\ mode = "key" => stack # <<>>
  BY HereNow DEF Begins, Wanted, Inv, StackInv
<1>4. CASE mode = "string"
  <2>1. PICK w, q :
            /\ w[1] = x /\ Len(stack) <= n /\ Chain(T, n, stack, w, Len(stack))
            /\ Within(T, q, i, out)
            /\ w[Len(stack) + 1] = Part(q.from, q.to, [type |-> "string", of |-> q.val])
    BY <1>4 DEF Follows, StringAt
  <2>2. q.to = i + 1 /\ q.val = out
    BY <1>1, <1>2, <2>1, AtWithin
  <2>3. w[Len(stack) + 1] = Part(q.from, i + 1, string)
    BY <2>1, <2>2 DEF string
  <2>4. ReturnAt(T, n, x, stack, i + 1, string)
    BY <2>1, <2>3, PartIs DEF ReturnAt
  <2>5. /\ failed' = FALSE /\ mode' = "return" /\ UNCHANGED str
        /\ stack' = stack /\ i' = i + 1 /\ result' = string
    BY <1>1, <1>4 DEF Return, Inv, CursorInv
  <2> QED
    BY <2>4, <2>5, FollowsReturn
<1>5. CASE mode = "key"
  <2> DEFINE R == Readings(T)[n - Len(stack)]
  <2>1. PICK w, q :
            /\ w[1] = x /\ Len(stack) <= n /\ Chain(T, n, stack, w, Len(stack) - 1)
            /\ Within(T, q, i, out)
            /\ KeyHeld(T, R, stack[Len(stack)], w[Len(stack)], q)
    BY <1>5 DEF Follows, KeyAt
  <2>2. q.to = i + 1 /\ q.val = out /\ i + 1 \in Place
    BY <1>1, <1>2, <2>1, AtWithin
  <2>3. f = [stack[Len(stack)] EXCEPT !.key = q.val]
    BY <2>2 DEF f, Top
  <2> HIDE DEF R
  <2>4. PICK e \in Nat, y \in R :
           /\ Blank(T, q.to, e) /\ e < Len(T) /\ T[e + 1] = ":" /\ Blank(T, e + 1, y.from)
           /\ ObjectHeld(T, R, f, w[Len(stack)], y)
    <3> DEFINE fr == stack[Len(stack)]
               u == w[Len(stack)]
    <3>1. T \in Seq(Character) /\ KeyHeld(T, R, fr, u, q) /\ f = [fr EXCEPT !.key = q.val]
      BY <1>3, <2>1, <2>3
    <3> HIDE DEF fr, u
    <3>2. \E e \in Nat, y \in R :
             /\ Blank(T, q.to, e) /\ e < Len(T) /\ T[e + 1] = ":" /\ Blank(T, e + 1, y.from)
             /\ ObjectHeld(T, R, f, u, y)
      BY ONLY <3>1, KeyNext
    <3> QED
      BY <3>2 DEF u
  <2>5. ":" \notin White /\ ":" # End
    BY Chars DEF Plain, End
  <2>6. \/ Token(i + 1) = ":" /\ AfterToken(i + 1) = e + 1
        \/ Cut(T) /\ Token(i + 1) = End
    BY <1>3, <2>2, <2>4, <2>5, TokenIn DEF Cut
  <2>7. CASE Token(i + 1) = ":" /\ AfterToken(i + 1) = e + 1
    <3>1. /\ i' = e + 1 /\ mode' = "value" /\ stack' = OnTop(f) /\ failed' = FALSE
      BY <1>1, <1>5, <2>7 DEF Inv, CursorInv
    <3>2. Held(T, Readings(T)[n - Len(stack)], f, w[Len(stack)], y)
      BY <2>4 DEF Held, R
    <3>3. \A s : s = OnTop(f) => ValueAt(T, n, x, s, e + 1)
      BY <1>3, <1>5, <2>1, <2>4, <3>2, GoesOn
    <3> QED
      BY <3>1, <3>3, FollowsValue
  <2>8. CASE Cut(T) /\ Token(i + 1) = End
    <3>1. failed' = TRUE /\ UNCHANGED str
      BY <1>1, <1>5, <2>5, <2>8 DEF Fail, FailWith
    <3> QED
      BY <2>8, <3>1, FollowsFailure
  <2> QED
    BY <2>6, <2>7, <2>8
<1> QED
  BY <1>1, <1>4, <1>5

(* At the end of the text there is no token. *)
LEMMA NothingLeft ==
  ASSUME CursorInv, i = Len(str) PROVE Here = End
<1>1. i \in Place /\ Len(str) \in Nat
  BY DEF CursorInv
<1>2. PastAll(White, i) \in i .. Len(str)
  BY <1>1, PastAllPlace
<1>3. PastAll(White, i) = Len(str)
  BY <1>1, <1>2
<1> QED
  BY <1>1, <1>3 DEF Here, Token, At

(* After a value a list goes on or is closed where it is written to; *)
LEMMA ListGoesOnFollows ==
  ASSUME Inv, ~failed, NEW T, Begins(T), NEW n, NEW x, Wanted(T, n, x),
         Follows(T, n, x), ListGoesOn
  PROVE  Follows(T, n, x)'
<1> DEFINE f == [Top EXCEPT !.of = Append(@, result)]
           list == Value(f)
<1>1. /\ mode = "return" /\ stack # <<>> /\ Top.type = "array"
      /\ Here = "]" => Return(list, Next1, Below)
      /\ Here = Comma => Element(Next1, OnTop(f))
      /\ Here # "]" /\ Here # Comma => Fail(Next1, Below)
  BY Distinct DEF ListGoesOn, Returned
<1> HIDE DEF list
<1>2. /\ T \in Seq(Character) /\ n \in Nat /\ IsStack(stack) /\ CursorInv /\ Len(stack) \in Nat
      /\ i \in Place /\ Next1 \in Place
  BY HereNow DEF Begins, Wanted, Inv
<1>3. End # "]" /\ End # Comma
  BY Distinct DEF End
<1>4. ASSUME Cut(T), Here = End PROVE Follows(T, n, x)'
  <2>1. failed' = TRUE /\ UNCHANGED str
    BY <1>1, <1>3, <1>4 DEF Fail, FailWith
  <2> QED
    BY <1>4, <2>1, FollowsFailure
<1>5. CASE CutAt(T, x, stack, i)
  BY <1>2, <1>4, <1>5, NothingLeft DEF CutAt
<1>6. CASE ReturnAt(T, n, x, stack, i, result)
  <2> DEFINE R == Readings(T)[n - Len(stack)]
  <2>1. PICK w : /\ w[1] = x /\ Len(stack) <= n /\ Chain(T, n, stack, w, Len(stack))
                 /\ i = w[Len(stack) + 1].to /\ result = w[Len(stack) + 1].val
    BY <1>6 DEF ReturnAt
  <2> DEFINE fr == stack[Len(stack)]
             u == w[Len(stack)]
             y == w[Len(stack) + 1]
  <2>2. Len(stack) \in 1 .. Len(stack) /\ Len(stack) # 0
    BY <1>1, <1>2 DEF IsStack
  <2>3. Held(T, R, fr, u, y)
    BY <2>1, <2>2 DEF Chain
  <2>4. n - Len(stack) \in Nat /\ Solid(T, R)
    BY <1>2, <2>1, ReadingsSolid
  <2>5. i = y.to /\ result = y.val /\ fr.type = "array" /\ f = [fr EXCEPT !.of = Append(@, result)]
    BY <1>1, <2>1 DEF Top
  <2> HIDE DEF R, fr, u, y, f
  <2>6. ListHeld(T, R, fr, u, y)
    BY <2>3, <2>5 DEF Held, ObjectHeld
  <2>7. PICK b \in Nat :
          /\ Blank(T, y.to, b) /\ b < Len(T)
          /\ \/ T[b + 1] = "]" /\ u.to = b + 1 /\ u.val = Value(f)
             \/ /\ T[b + 1] = Comma
                /\ \E z \in R : Blank(T, b + 1, z.from) /\ ListHeld(T, R, f, u, z)
    BY ONLY <1>2, <2>4, <2>5, <2>6, ListNext
  <2>8. T[b + 1] \notin White /\ T[b + 1] # End
    BY <1>3, <2>7, Chars DEF Plain
  <2>9. \/ b < Len(str) /\ Here = T[b + 1] /\ Next1 = b + 1
        \/ Cut(T) /\ Here = End
    BY <1>2, <2>5, <2>7, <2>8, TokenIn DEF Cut, Here, Next1
  <2>10. CASE Here = "]" /\ Next1 = b + 1 /\ T[b + 1] = "]"
    <3>1. u.to = b + 1 /\ u.val = list
      BY <2>7, <2>10, Brackets DEF list
    <3>2. /\ failed' = FALSE /\ mode' = "return" /\ UNCHANGED str
          /\ stack' = Below /\ i' = b + 1 /\ result' = list
      BY <1>1, <2>10 DEF Return, Inv, CursorInv
    <3>3. \A s : s = Below => ReturnAt(T, n, x, s, b + 1, list)
      BY <1>1, <1>2, <2>1, <3>1, Leaves DEF u
    <3> QED
      BY <3>2, <3>3, FollowsReturn
  <2>11. CASE Here = Comma /\ Next1 = b + 1 /\ T[b + 1] = Comma
    <3>1. PICK z \in R : Blank(T, b + 1, z.from) /\ ListHeld(T, R, f, u, z)
      BY <2>7, <2>11, Brackets
    <3>2. z.from \in Nat /\ z.from < Len(T) /\ T[z.from + 1] \in First
      <4>1. /\ z.from \in Nat /\ z.to \in Nat /\ z.from < z.to /\ z.to <= Len(T)
            /\ T[z.from + 1] \in First
        BY <2>4 DEF Solid
      <4>2. Len(T) \in Nat
        BY <1>2
      <4> QED
        BY <4>1, <4>2
    <3>3. T[z.from + 1] \notin White /\ T[z.from + 1] # End
      BY <3>2, FirstIs
    <3>4. \/ Token(Next1) = T[z.from + 1] /\ AfterToken(Next1) = z.from + 1
          \/ Cut(T) /\ Token(Next1) = End
      BY <1>2, <2>11, <3>1, <3>2, <3>3, TokenIn DEF Cut
    <3>5. Element(Next1, OnTop(f))
      BY <1>1, <2>11 DEF f
    <3>6. CASE Token(Next1) = T[z.from + 1] /\ AfterToken(Next1) = z.from + 1
      <4>1. i' = z.from /\ failed' = FALSE /\ stack' = OnTop(f) /\ mode' = "value"
        <5>1. (z.from + 1) - 1 = z.from
          BY <3>2
        <5> QED
          BY <3>3, <3>5, <3>6, <5>1 DEF Element
      <4>2. Held(T, Readings(T)[n - Len(stack)], f, w[Len(stack)], z)
        BY <3>1 DEF Held, R, u
      <4>3. Blank(T, z.from, z.from) /\ Chain(T, n, stack, w, Len(stack) - 1)
        BY <1>2, <2>1, <2>2, <3>2 DEF Blank, Chain
      <4>4. \A s : s = OnTop(f) => ValueAt(T, n, x, s, z.from)
        BY <1>1, <1>2, <2>1, <4>2, <4>3, GoesOn
      <4> QED
        BY <4>1, <4>4, FollowsValue
    <3>7. CASE Cut(T) /\ Token(Next1) = End
      <4>1. failed' = TRUE /\ UNCHANGED str
        BY <3>5, <3>7 DEF Element
      <4> QED
        BY <3>7, <4>1, FollowsFailure
    <3> QED
      BY <3>4, <3>6, <3>7
  <2> QED
    BY <1>4, <2>7, <2>9, <2>10, <2>11
<1> QED
  BY <1>1, <1>5, <1>6 DEF Follows

(* and so is an object. *)
LEMMA ObjectGoesOnFollows ==
  ASSUME Inv, ~failed, NEW T, Begins(T), NEW n, NEW x, Wanted(T, n, x),
         Follows(T, n, x), ObjectGoesOn
  PROVE  Follows(T, n, x)'
<1> DEFINE f == [Top EXCEPT !.of = Put(@, Top.key, result)]
           object == Value(f)
<1>1. /\ mode = "return" /\ stack # <<>> /\ Top.type = "object"
      /\ Here = CloseBrace => Return(object, Next1, Below)
      /\ Here = Comma /\ Token(Next1) = Quote => String("key", AfterToken(Next1), OnTop(f))
      /\ Here = Comma /\ Token(Next1) # Quote => Fail(AfterToken(Next1), Below)
      /\ Here # CloseBrace /\ Here # Comma => Fail(Next1, Below)
  BY Distinct DEF ObjectGoesOn, Returned
<1> HIDE DEF object
<1>2. /\ T \in Seq(Character) /\ n \in Nat /\ IsStack(stack) /\ CursorInv /\ Len(stack) \in Nat
      /\ i \in Place /\ Next1 \in Place
  BY HereNow DEF Begins, Wanted, Inv
<1>3. End # CloseBrace /\ End # Comma /\ End # Quote
  BY Distinct DEF End, Quote
<1>4. ASSUME Cut(T), Here = End PROVE Follows(T, n, x)'
  <2>1. failed' = TRUE /\ UNCHANGED str
    BY <1>1, <1>3, <1>4 DEF Fail, FailWith
  <2> QED
    BY <1>4, <2>1, FollowsFailure
<1>5. CASE CutAt(T, x, stack, i)
  BY <1>2, <1>4, <1>5, NothingLeft DEF CutAt
<1>6. CASE ReturnAt(T, n, x, stack, i, result)
  <2> DEFINE R == Readings(T)[n - Len(stack)]
  <2>1. PICK w : /\ w[1] = x /\ Len(stack) <= n /\ Chain(T, n, stack, w, Len(stack))
                 /\ i = w[Len(stack) + 1].to /\ result = w[Len(stack) + 1].val
    BY <1>6 DEF ReturnAt
  <2> DEFINE fr == stack[Len(stack)]
             u == w[Len(stack)]
             y == w[Len(stack) + 1]
  <2>2. Len(stack) \in 1 .. Len(stack) /\ Len(stack) # 0
    BY <1>1, <1>2 DEF IsStack
  <2>3. Held(T, R, fr, u, y)
    BY <2>1, <2>2 DEF Chain
  <2>4. n - Len(stack) \in Nat /\ Solid(T, R)
    BY <1>2, <2>1, ReadingsSolid
  <2>5. i = y.to /\ result = y.val /\ fr.type = "object"
        /\ f = [fr EXCEPT !.of = Put(@, fr.key, result)]
    BY <1>1, <2>1 DEF Top
  <2> HIDE DEF R, fr, u, y, f
  <2>6. ObjectHeld(T, R, fr, u, y)
    BY <2>3, <2>5 DEF Held, ListHeld
  <2>7. PICK b \in Nat :
          /\ Blank(T, y.to, b) /\ b < Len(T)
          /\ \/ T[b + 1] = CloseBrace /\ u.to = b + 1 /\ u.val = Value(f)
             \/ /\ T[b + 1] = Comma
                /\ \E q \in Quoted(T) : Blank(T, b + 1, q.from) /\ KeyHeld(T, R, f, u, q)
    BY ONLY <1>2, <2>4, <2>5, <2>6, ObjectNext
  <2>8. T[b + 1] \notin White /\ T[b + 1] # End
    BY <1>3, <2>7, Chars
  <2>9. \/ b < Len(str) /\ Here = T[b + 1] /\ Next1 = b + 1
        \/ Cut(T) /\ Here = End
    BY <1>2, <2>5, <2>7, <2>8, TokenIn DEF Cut, Here, Next1
  <2>10. CASE Here = CloseBrace /\ Next1 = b + 1 /\ T[b + 1] = CloseBrace
    <3>1. u.to = b + 1 /\ u.val = object
      BY <2>7, <2>10, Brackets DEF object
    <3>2. /\ failed' = FALSE /\ mode' = "return" /\ UNCHANGED str
          /\ stack' = Below /\ i' = b + 1 /\ result' = object
      BY <1>1, <2>10 DEF Return, Inv, CursorInv
    <3>3. \A s : s = Below => ReturnAt(T, n, x, s, b + 1, object)
      BY <1>1, <1>2, <2>1, <3>1, Leaves DEF u
    <3> QED
      BY <3>2, <3>3, FollowsReturn
  <2>11. CASE Here = Comma /\ Next1 = b + 1 /\ T[b + 1] = Comma
    <3>1. PICK q \in Quoted(T) : Blank(T, b + 1, q.from) /\ KeyHeld(T, R, f, u, q)
      BY <2>7, <2>11, Brackets
    <3>2. /\ q.from \in Nat /\ q.from < Len(T) /\ T[q.from + 1] = Quote
          /\ Within(T, q, q.from + 1, <<>>)
      <4>1. Solid(T, Quoted(T)) /\ Len(T) \in Nat
        BY <1>2, QuotedSolid
      <4>2. q.from \in Nat /\ q.to \in Nat /\ q.from < q.to /\ q.to <= Len(T)
        BY <4>1 DEF Solid
      <4>3. q.from < Len(T)
        BY <4>1, <4>2
      <4> QED
        BY <4>2, <4>3, WithinBegins
    <3>3. Quote \notin White
      BY Chars DEF Plain
    <3>4. \/ Token(Next1) = Quote /\ AfterToken(Next1) = q.from + 1
          \/ Cut(T) /\ Token(Next1) = End
      BY <1>2, <2>11, <3>1, <3>2, <3>3, TokenIn DEF Cut
    <3>5. CASE Token(Next1) = Quote /\ AfterToken(Next1) = q.from + 1
      <4>1. /\ i' = q.from + 1 /\ failed' = FALSE /\ stack' = OnTop(f)
            /\ mode' = "key" /\ out' = <<>>
        BY <1>1, <2>11, <3>5 DEF String, Inv, CursorInv, f
      <4>2. KeyHeld(T, Readings(T)[n - Len(stack)], f, w[Len(stack)], q)
        BY <3>1 DEF R, u
      <4>3. Chain(T, n, stack, w, Len(stack) - 1)
        BY <1>2, <2>1, <2>2 DEF Chain
      <4>4. \A s : s = OnTop(f) => KeyAt(T, n, x, s, q.from + 1, <<>>)
        BY <1>1, <1>2, <2>1, <3>2, <4>2, <4>3, GoesOnKey
      <4> QED
        BY <4>1, <4>4, FollowsKey
    <3>6. CASE Cut(T) /\ Token(Next1) = End
      <4>1. failed' = TRUE /\ UNCHANGED str
        BY <1>1, <1>3, <2>11, <3>6 DEF Fail, FailWith
      <4> QED
        BY <3>6, <4>1, FollowsFailure
    <3> QED
      BY <3>4, <3>5, <3>6
  <2> QED
    BY <1>4, <2>7, <2>9, <2>10, <2>11
<1> QED
  BY <1>1, <1>5, <1>6 DEF Follows

(* After the whole value there are blanks, or the text was cut. *)
LEMMA EndFollows ==
  ASSUME Inv, ~failed, NEW T, Begins(T), NEW n, NEW x, Wanted(T, n, x),
         Follows(T, n, x), ParseEnds
  PROVE  Follows(T, n, x)'
<1>1. /\ mode = "return" /\ stack = <<>> /\ mode' = "done" /\ i' = PastAll(White, i)
      /\ failed' = (i' # Len(str)) /\ UNCHANGED str
      /\ ~failed' => result' = result
  BY DEF ParseEnds
<1>2. /\ T \in Seq(Character) /\ n \in Nat /\ CursorInv /\ Len(stack) = 0
      /\ i \in Place /\ i \in Nat /\ Len(str) \in Nat /\ Len(T) \in Nat /\ Len(str) <= Len(T)
      /\ i <= Len(str) /\ \A m \in 1 .. Len(str) : str[m] = T[m]
  BY <1>1, HereNow DEF Begins, Wanted, Inv, CursorInv, Place
<1>3. CASE CutAt(T, x, stack, i)
  <2>1. PastAll(White, i) \in i .. Len(str) /\ i = Len(str)
    BY <1>2, <1>3, PastAllPlace DEF CutAt
  <2>2. i' = Len(str)
    BY <1>1, <1>2, <2>1
  <2>3. DoneAt(T, x, result)
    BY <1>1, <1>3 DEF CutAt, DoneAt
  <2> QED
    BY <1>1, <2>2, <2>3, FollowsDone
<1>4. CASE ReturnAt(T, n, x, stack, i, result)
  <2>1. PICK w : /\ w[1] = x /\ i = w[Len(stack) + 1].to /\ result = w[Len(stack) + 1].val
    BY <1>4 DEF ReturnAt
  <2>2. i = x.to /\ result = x.val
    BY <1>2, <2>1
  <2>3. \A m \in i + 1 .. Len(T) : T[m] \in White
    BY <2>2 DEF Wanted, Spaced, Blank
  <2>4. \A m \in i + 1 .. Len(str) : str[m] \in White
    <3>1. \A m \in i + 1 .. Len(str) : m \in i + 1 .. Len(T) /\ m \in 1 .. Len(str)
      BY <1>2
    <3> QED
      BY <1>2, <2>3, <3>1
  <2>5. Len(str) \in Place
    BY <1>2 DEF Place
  <2>6. PastAll(White, i) = Len(str)
    BY <1>2, <2>4, <2>5, PastAllTo
  <2>7. Blank(T, Len(str), Len(T))
    <3>1. \A m \in Len(str) + 1 .. Len(T) : m \in i + 1 .. Len(T)
      BY <1>2
    <3> QED
      BY <1>2, <2>3, <3>1 DEF Blank
  <2>8. DoneAt(T, x, result)
    BY <2>2, <2>7 DEF DoneAt
  <2> QED
    BY <1>1, <2>6, <2>8, FollowsDone
<1> QED
  BY <1>1, <1>3, <1>4 DEF Follows

(* Whatever the text that arrived is the beginning of means, the parser    *)
(* follows it.                                                             *)
FollowInv ==
  \A T : Begins(T) => \A n, x : Wanted(T, n, x) => Follows(T, n, x)

(* The texts stay, and so does an error. *)
LEMMA TextStays ==
  ASSUME Next PROVE UNCHANGED <<sent, str>> /\ (failed = TRUE => failed' = TRUE)
<1>1. CASE \/ ParseTooDeep \/ ParseNothing \/ ParseNumber \/ ParseLiteral \/ ParseString
           \/ ParseList \/ ParseObject
  <2>1. /\ ~ParseString => \/ \E v, k, s : Return(v, k, s)
                           \/ \E k, s : Fail(k, s)
                           \/ \E k, s : Element(k, s)
                           \/ \E m, k, s : String(m, k, s)
    BY <1>1, Distinct
       DEF ParseTooDeep, ParseNothing, ParseNumber, ParseLiteral, ParseList, ParseObject
  <2>2. ParseString => \E m, k, s : String(m, k, s)
    BY DEF ParseString
  <2> QED
    BY <2>1, <2>2 DEF Return, Fail, FailWith, Element, String
<1>2. CASE StringFails \/ StringGoesOn \/ StringEnds
  BY <1>2 DEF StringFails, StringGoesOn, StringEnds, InString, Unread, Return, Fail, FailWith
<1>3. CASE ReturnFailed \/ ListGoesOn \/ ObjectGoesOn \/ ParseEnds
  <2>1. CASE ReturnFailed
    BY <2>1 DEF ReturnFailed, Fail, FailWith
  <2>2. CASE ListGoesOn
    BY <2>2, Distinct DEF ListGoesOn, Return, Fail, FailWith, Element
  <2>3. CASE ObjectGoesOn
    BY <2>3, Distinct DEF ObjectGoesOn, Return, Fail, FailWith, String
  <2>4. CASE ParseEnds
    BY <2>4 DEF ParseEnds
  <2> QED
    BY <1>3, <2>1, <2>2, <2>3, <2>4
<1> QED
  BY <1>1, <1>2, <1>3 DEF Next

(* Every step keeps to what is written. *)
LEMMA StepFollows ==
  ASSUME Inv, FollowInv, Next PROVE FollowInv'
<1>1. UNCHANGED str /\ (failed = TRUE => failed' = TRUE)
  BY TextStays
<1>2. ASSUME NEW T, Begins(T), NEW n, NEW x, Wanted(T, n, x) PROVE Follows(T, n, x)'
  <2>1. Follows(T, n, x)
    BY <1>2 DEF FollowInv
  <2>2. CASE failed
    <3>1. failed' = TRUE
      BY <1>1, <2>2 DEF Inv, CursorInv
    <3>2. Cut(T) \/ n > MaxDepth
      BY <2>1, <2>2 DEF Follows
    <3> QED
      BY <1>1, <3>1, <3>2, FollowsFailure
  <2>3. CASE ~failed
    <3>1. ~ReturnFailed
      BY <2>3 DEF ReturnFailed
    <3> QED
      BY <1>2, <2>1, <2>3, <3>1, TooDeepFollows, NothingFollows, NumberFollows, LiteralFollows,
         StringFollows, ListFollows, ObjectFollows, StringFailsFollows, StringGoesOnFollows,
         StringEndsFollows, ListGoesOnFollows, ObjectGoesOnFollows, EndFollows DEF Next
  <2> QED
    BY <2>2, <2>3
<1>3. \A T : Begins(T)' => Begins(T)
  BY <1>1 DEF Begins
<1> QED
  BY <1>2, <1>3 DEF FollowInv

(* The parser starts before it. *)
LEMMA InitFollows ==
  ASSUME Init PROVE FollowInv
<1>1. i = 0 /\ failed = FALSE /\ stack = <<>> /\ mode = "value"
  BY DEF Init
<1>2. SUFFICES ASSUME NEW T, Begins(T), NEW n, NEW x, Wanted(T, n, x) PROVE Follows(T, n, x)
  BY DEF FollowInv
<1>3. ValueAt(T, n, x, <<>>, 0)
  <2> DEFINE w == [j \in Nat |-> x]
  <2>1. w[1] = x /\ Len(<<>>) = 0 /\ w[0 + 1] = x
    OBVIOUS
  <2> HIDE DEF w
  <2>2. Chain(T, n, <<>>, w, 0)
    BY DEF Chain
  <2>3. 0 <= n /\ Blank(T, 0, x.from)
    BY <1>2 DEF Wanted, Spaced
  <2> QED
    BY <2>1, <2>2, <2>3 DEF ValueAt
<1> QED
  BY <1>1, <1>3 DEF Follows

(* The parser follows what is written. *)
LEMMA Following == Spec => []FollowInv
<1>1. Inv /\ FollowInv /\ [Next]_vars => FollowInv'
  <2>1. ASSUME Inv, FollowInv, UNCHANGED vars PROVE FollowInv'
    BY <2>1 DEF FollowInv, vars, Begins, Follows, Cut, CutAt, DoneAt
  <2> QED
    BY <2>1, StepFollows
<1> QED
  BY <1>1, InitFollows, Invariance, PTL DEF Spec

(* What arrives is the beginning of what was sent. *)
LEMMA Arrival == Spec => []Begins(sent)
<1>1. Init => Begins(sent)
  <2>1. SUFFICES ASSUME Init PROVE Begins(sent)
    OBVIOUS
  <2>2. sent \in Seq(Character)
    BY <2>1, JsonAssumption DEF Init
  <2>3. PICK n \in 0 .. Len(sent) : str = SubSeq(sent, 1, n)
    BY <2>1 DEF Init
  <2> HIDE DEF Character
  <2>4. Len(str) = n /\ \A m \in 1 .. n : str[m] = sent[m]
    BY <2>2, <2>3
  <2>5. Len(str) <= Len(sent)
    BY <2>2, <2>4
  <2> QED
    BY <2>2, <2>4, <2>5 DEF Begins
<1>2. Begins(sent) /\ [Next]_vars => Begins(sent)'
  <2>1. ASSUME Begins(sent), [Next]_vars PROVE Begins(sent)'
    <3>1. UNCHANGED <<sent, str>>
      BY <2>1, TextStays DEF vars
    <3> QED
      BY <2>1, <3>1 DEF Begins
  <2> QED
    BY <2>1
<1> QED
  BY <1>1, <1>2, PTL DEF Spec

(* An answer that is an object, a list or a string is not read at all when *)
(* its end was cut off.                                                    *)
THEOREM CutsAreNoticed == Spec => []CutIsNoticed
<1>1. Begins(sent) /\ FollowInv => CutIsNoticed
  <2>1. SUFFICES ASSUME Begins(sent), FollowInv, mode = "done", ~failed,
                        NEW v \in Denoted(sent, Len(sent)), v.type # "number"
                 PROVE  Blank(sent, Len(str), Len(sent))
    BY DEF CutIsNoticed
  <2>2. PICK x \in Readings(sent)[Len(sent)] : v = x.val /\ Spaced(sent, x, 0, Len(sent))
    BY DEF Denoted
  <2>3. Len(sent) \in Nat
    BY <2>1 DEF Begins
  <2>4. Wanted(sent, Len(sent), x)
    BY <2>2, <2>3 DEF Wanted
  <2>5. Follows(sent, Len(sent), x)
    BY <2>1, <2>4 DEF FollowInv
  <2> QED
    BY <2>1, <2>2, <2>5 DEF Follows, DoneAt
<1> QED
  BY <1>1, Arrival, Following, PTL

-----------------------------------------------------------------------------
(* Lists and objects that are read, as they grow *)

(* The first m slots of a list or object that begins at a; the next one    *)
(* begins at c.                                                            *)
IsRun(t, R, open, close, m, f, a, c) ==
  /\ m \in Nat /\ DOMAIN f = 1 .. m /\ f = [j \in 1 .. m |-> f[j]]
  /\ \A j \in 1 .. m : f[j] \in Slots(t, R, open, close) /\ t[f[j].to + 1] = Comma
  /\ \A j \in 1 .. m - 1 : f[j].to = f[j + 1].from
  /\ a \in Nat /\ t[a + 1] = open /\ c \in Nat /\ c < Len(t)
  /\ m = 0 => c = a
  /\ m > 0 => f[1].from = a /\ f[m].to = c

(* There is a run with no slots, *)
LEMMA RunBegins ==
  ASSUME NEW t, NEW R, NEW open, NEW close, NEW a \in Nat, a < Len(t), t[a + 1] = open
  PROVE  IsRun(t, R, open, close, 0, <<>>, a, a)
BY DEF IsRun

(* and each part that is read makes it longer, or a whole row. *)
LEMMA RunMore ==
  ASSUME NEW t \in Seq(Character), NEW R, NEW open, NEW close, NEW m, NEW f, NEW a, NEW c,
         IsRun(t, R, open, close, m, f, a, c), NEW y \in R, NEW b \in Nat, b < Len(t),
         Spaced(t, y, c + 1, b), t[b + 1] = close \/ t[b + 1] = Comma
  PROVE  \E g : /\ Before(g, m + 1) = Before(f, m + 1) /\ g[m + 1].val = y.val
                /\ g[m + 1].to = b /\ g[1].from = a /\ DOMAIN g = 1 .. m + 1
                /\ t[b + 1] = Comma => IsRun(t, R, open, close, m + 1, g, a, b)
                /\ t[b + 1] = close => IsRow(t, R, open, close, m + 1, g)
<1> DEFINE new == Part(c, b, y.val)
           g == [j \in 1 .. m + 1 |-> IF j = m + 1 THEN new ELSE f[j]]
           S == Slots(t, R, open, close)
<1>1. /\ m \in Nat /\ DOMAIN f = 1 .. m
      /\ \A j \in 1 .. m : f[j] \in S /\ t[f[j].to + 1] = Comma
      /\ \A j \in 1 .. m - 1 : f[j].to = f[j + 1].from
      /\ a \in Nat /\ t[a + 1] = open /\ c \in Nat /\ c < Len(t)
      /\ m = 0 => c = a
      /\ m > 0 => f[1].from = a /\ f[m].to = c
  BY DEF IsRun
<1>2. new.from = c /\ new.to = b /\ new.val = y.val
  BY PartIs
<1>3. t[c + 1] = open \/ t[c + 1] = Comma
  <2>1. m > 0 => m \in 1 .. m
    BY <1>1
  <2> QED
    BY <1>1, <2>1
<1>4. new \in S
  BY <1>1, <1>3, SlotIn
<1> HIDE DEF new, S
<1>5. /\ DOMAIN g = 1 .. m + 1 /\ g = [j \in 1 .. m + 1 |-> g[j]] /\ g[m + 1] = new
      /\ \A j \in 1 .. m : g[j] = f[j]
  BY <1>1
<1> HIDE DEF g
<1>6. \A j \in 1 .. m + 1 : j \in 1 .. m \/ j = m + 1
  BY <1>1
<1>7. \A j \in 1 .. m + 1 : g[j] \in S
  BY <1>1, <1>4, <1>5, <1>6
<1>8. ASSUME NEW j \in 1 .. (m + 1) - 1
      PROVE  g[j].to = g[j + 1].from /\ t[g[j].to + 1] = Comma
  <2>1. j \in 1 .. m
    BY <1>1
  <2>2. CASE j = m
    <3>1. m > 0 /\ m \in 1 .. m
      BY <1>1, <2>1
    <3>2. g[m] = f[m] /\ f[m].to = c /\ t[f[m].to + 1] = Comma
      BY <1>1, <1>5, <3>1
    <3> QED
      BY <1>2, <1>5, <2>2, <3>2
  <2>3. CASE j # m
    <3>1. j \in 1 .. m - 1 /\ j + 1 \in 1 .. m
      BY <1>1, <2>1, <2>3
    <3> QED
      BY <1>1, <1>5, <2>1, <3>1
  <2> QED
    BY <2>2, <2>3
<1>9. g[1].from = a
  <2>1. CASE m = 0
    BY <1>1, <1>2, <1>5, <2>1
  <2>2. CASE m > 0
    <3>1. 1 \in 1 .. m
      BY <1>1, <2>2
    <3> QED
      BY <1>1, <1>5, <2>2, <3>1
  <2> QED
    BY <1>1, <2>1, <2>2
<1>10. Before(g, m + 1) = Before(f, m + 1)
  <2>1. (m + 1) - 1 = m
    BY <1>1
  <2>2. \A j \in 1 .. m : g[j].val = f[j].val
    BY <1>5
  <2> QED
    BY <2>1, <2>2 DEF Before
<1>11. m + 1 \in Nat \ {0} /\ m + 1 > 0 /\ m + 1 # 0
  BY <1>1
<1>12. t[b + 1] = Comma => IsRun(t, R, open, close, m + 1, g, a, b)
  <2>1. t[b + 1] = Comma => \A j \in 1 .. m + 1 : t[g[j].to + 1] = Comma
    BY <1>1, <1>2, <1>5, <1>6
  <2> QED
    BY <1>1, <1>2, <1>5, <1>7, <1>8, <1>9, <1>11, <2>1 DEF IsRun, S
<1>13. t[b + 1] = close => IsRow(t, R, open, close, m + 1, g)
  BY <1>1, <1>2, <1>5, <1>7, <1>8, <1>9, <1>11 DEF IsRow, S
<1> QED
  BY <1>2, <1>5, <1>9, <1>10, <1>12, <1>13

(* fr is a list or object that begins at a in t, and that has been read    *)
(* but for the element or member that begins after c.                      *)
ListBegun(t, R, fr, a, c) ==
  \E m, f : /\ IsRun(t, R, "[", "]", m, f, a, c)
            /\ fr = [type |-> "array", of |-> Before(f, m + 1), key |-> <<>>]

ObjectBegun(t, R, fr, a, c) ==
  \E m, f : /\ IsRun(t, Pairs(t, R), OpenBrace, CloseBrace, m, f, a, c)
            /\ fr = [type |-> "object", of |-> Merged(Before(f, m + 1)), key |-> fr.key]

(* A list or object begins with its bracket, *)
LEMMA ListBegins ==
  ASSUME NEW t, NEW R, NEW a \in Nat, a < Len(t), t[a + 1] = "["
  PROVE  ListBegun(t, R, List, a, a)
<1>1. IsRun(t, R, "[", "]", 0, <<>>, a, a)
  BY RunBegins
<1>2. List = [type |-> "array", of |-> Before(<<>>, 0 + 1), key |-> <<>>]
  BY BeforeFirst DEF List
<1> QED
  BY <1>1, <1>2 DEF ListBegun

LEMMA ObjectBegins ==
  ASSUME NEW t, NEW R, NEW a \in Nat, a < Len(t), t[a + 1] = OpenBrace
  PROVE  ObjectBegun(t, R, Object, a, a)
<1>1. IsRun(t, Pairs(t, R), OpenBrace, CloseBrace, 0, <<>>, a, a)
  BY RunBegins
<1>2. Object = [type |-> "object", of |-> Merged(Before(<<>>, 0 + 1)), key |-> Object.key]
  BY BeforeFirst DEF Object
<1> QED
  BY <1>1, <1>2 DEF ObjectBegun

(* and what is read in it becomes its element, or its member. *)
LEMMA ListAdds ==
  ASSUME NEW t \in Seq(Character), NEW R, Solid(t, R), NEW fr, NEW a, NEW c,
         ListBegun(t, R, fr, a, c), NEW y \in R, NEW b \in Nat, b < Len(t),
         Spaced(t, y, c + 1, b), NEW v, v = y.val, NEW g, g = [fr EXCEPT !.of = Append(@, v)]
  PROVE  /\ fr.type = "array"
         /\ t[b + 1] = Comma => ListBegun(t, R, g, a, b)
         /\ t[b + 1] = "]" => Part(a, b + 1, Value(g)) \in Lists(t, R)
<1>1. PICK m, f : /\ IsRun(t, R, "[", "]", m, f, a, c)
                  /\ fr = [type |-> "array", of |-> Before(f, m + 1), key |-> <<>>]
  BY DEF ListBegun
<1>2. SUFFICES ASSUME t[b + 1] = "]" \/ t[b + 1] = Comma
               PROVE  /\ t[b + 1] = Comma => ListBegun(t, R, g, a, b)
                      /\ t[b + 1] = "]" => Part(a, b + 1, Value(g)) \in Lists(t, R)
  BY <1>1
<1>3. PICK h :  /\ Before(h, m + 1) = Before(f, m + 1) /\ h[m + 1].val = y.val
                /\ h[m + 1].to = b /\ h[1].from = a /\ DOMAIN h = 1 .. m + 1
                /\ t[b + 1] = Comma => IsRun(t, R, "[", "]", m + 1, h, a, b)
                /\ t[b + 1] = "]" => IsRow(t, R, "[", "]", m + 1, h)
  BY <1>1, <1>2, RunMore
<1>4. m + 1 \in Nat \ {0} /\ m + 1 \in Nat
  BY <1>1 DEF IsRun
<1>5. Append(Before(f, m + 1), v) = Before(h, (m + 1) + 1)
  BY <1>3, <1>4, BeforeNext
<1>6. g = [type |-> "array", of |-> Before(h, (m + 1) + 1), key |-> <<>>]
  BY <1>1, <1>5
<1>7. t[b + 1] = Comma => ListBegun(t, R, g, a, b)
  BY <1>3, <1>6 DEF ListBegun
<1>8. ASSUME t[b + 1] = "]" PROVE Part(a, b + 1, Value(g)) \in Lists(t, R)
  <2>1. ListPart(m + 1, h) \in Lists(t, R)
    BY <1>3, <1>8, ListIn
  <2>2. Values(h) = Before(h, (m + 1) + 1)
    BY <1>3, <1>4, ValuesAre
  <2>3. g.type = "array" /\ g.of = Values(h)
    BY <1>6, <2>2
  <2>4. ListPart(m + 1, h) = Part(a, b + 1, Value(g))
    BY <1>3, <2>3 DEF ListPart, Value
  <2> QED
    BY <2>1, <2>4
<1> QED
  BY <1>7, <1>8

LEMMA ObjectAdds ==
  ASSUME NEW t \in Seq(Character), NEW R, Solid(t, R), NEW fr, NEW a, NEW c,
         ObjectBegun(t, R, fr, a, c), NEW q \in Quoted(t), NEW y \in R, NEW b \in Nat, b < Len(t),
         q.val = fr.key, Blank(t, c + 1, q.from), Colon(t, q.to, y.from), Blank(t, y.to, b),
         NEW v, v = y.val, NEW g, g = [fr EXCEPT !.of = Put(@, fr.key, v)]
  PROVE  /\ fr.type = "object"
         /\ t[b + 1] = Comma => ObjectBegun(t, R, g, a, b)
         /\ t[b + 1] = CloseBrace => Part(a, b + 1, Value(g)) \in Objects(t, R)
<1> DEFINE P == Pairs(t, R)
           p == Part(q.from, y.to, <<q.val, y.val>>)
<1>1. PICK m, f : /\ IsRun(t, P, OpenBrace, CloseBrace, m, f, a, c)
                  /\ fr = [type |-> "object", of |-> Merged(Before(f, m + 1)), key |-> fr.key]
  BY DEF ObjectBegun
<1>2. SUFFICES ASSUME t[b + 1] = CloseBrace \/ t[b + 1] = Comma
               PROVE  /\ t[b + 1] = Comma => ObjectBegun(t, R, g, a, b)
                      /\ t[b + 1] = CloseBrace => Part(a, b + 1, Value(g)) \in Objects(t, R)
  BY <1>1
<1>3. p \in P /\ Spaced(t, p, c + 1, b) /\ p.val = <<fr.key, v>>
  <2>1. p \in P
    BY PairIn
  <2> QED
    BY <2>1, PartIs DEF Spaced
<1> HIDE DEF P, p
<1>4. PICK h :  /\ Before(h, m + 1) = Before(f, m + 1) /\ h[m + 1].val = p.val
                /\ h[m + 1].to = b /\ h[1].from = a /\ DOMAIN h = 1 .. m + 1
                /\ t[b + 1] = Comma => IsRun(t, P, OpenBrace, CloseBrace, m + 1, h, a, b)
                /\ t[b + 1] = CloseBrace => IsRow(t, P, OpenBrace, CloseBrace, m + 1, h)
  BY <1>1, <1>2, <1>3, RunMore
<1>5. m + 1 \in Nat \ {0} /\ m + 1 \in Nat
  BY <1>1 DEF IsRun
<1>6. Put(Merged(Before(f, m + 1)), fr.key, v) = Merged(Before(h, (m + 1) + 1))
  <2>1. h[m + 1].val[1] = fr.key /\ h[m + 1].val[2] = v
    BY <1>3, <1>4
  <2>2. Merged(Before(h, (m + 1) + 1))
          = Put(Merged(Before(h, m + 1)), h[m + 1].val[1], h[m + 1].val[2])
    BY <1>5, BeforeNext
  <2> QED
    BY <1>4, <2>1, <2>2
<1>7. g = [type |-> "object", of |-> Merged(Before(h, (m + 1) + 1)), key |-> g.key]
  BY <1>1, <1>6
<1>8. t[b + 1] = Comma => ObjectBegun(t, R, g, a, b)
  BY <1>4, <1>7 DEF ObjectBegun, P
<1>9. ASSUME t[b + 1] = CloseBrace PROVE Part(a, b + 1, Value(g)) \in Objects(t, R)
  <2>1. ObjectPart(m + 1, h) \in Objects(t, R)
    BY <1>4, <1>9, ObjectIn DEF P
  <2>2. Values(h) = Before(h, (m + 1) + 1)
    BY <1>4, <1>5, ValuesAre
  <2>3. g.type = "object" /\ g.of = Merged(Values(h))
    BY <1>7, <2>2
  <2>4. ObjectPart(m + 1, h) = Part(a, b + 1, Value(g))
    BY <1>4, <2>3 DEF ObjectPart, Value
  <2> QED
    BY <2>1, <2>4
<1> QED
  BY <1>8, <1>9

(* What the key is does not matter to the members before. *)
LEMMA KeyIs ==
  ASSUME NEW t, NEW R, NEW fr, NEW a, NEW c, ObjectBegun(t, R, fr, a, c), NEW o,
         NEW g, g = [fr EXCEPT !.key = o]
  PROVE  ObjectBegun(t, R, g, a, c) /\ g.key = o
<1>1. PICK m, f : /\ IsRun(t, Pairs(t, R), OpenBrace, CloseBrace, m, f, a, c)
                  /\ fr = [type |-> "object", of |-> Merged(Before(f, m + 1)), key |-> fr.key]
  BY DEF ObjectBegun
<1>2. g = [type |-> "object", of |-> Merged(Before(f, m + 1)), key |-> g.key] /\ g.key = o
  BY <1>1
<1> QED
  BY <1>1, <1>2 DEF ObjectBegun

(* fr begins at a, and its element, or the value of its member, at b.      *)
Opened(t, R, fr, a, b) ==
  \/ \E c : ListBegun(t, R, fr, a, c) /\ Blank(t, c + 1, b)
  \/ \E c : \E q \in Quoted(t) :
       /\ ObjectBegun(t, R, fr, a, c) /\ q.val = fr.key
       /\ Blank(t, c + 1, q.from) /\ Colon(t, q.to, b)

(* The lists and objects in s begin at p[1], p[2] and so on, in each other. *)
Opens(t, n, s, p, l) == \A j \in 1 .. l : Opened(t, Readings(t)[n - j], s[j], p[j], p[j + 1])

(* What lies below is not touched by what is on top of it; *)
LEMMA OpensPart ==
  ASSUME NEW t, NEW n, NEW s, NEW r, NEW p, NEW l \in Nat, NEW m \in Nat, m <= l,
         Opens(t, n, s, p, l), \A j \in 1 .. m : r[j] = s[j]
  PROVE  Opens(t, n, r, p, m)
<1>1. \A j \in 1 .. m : j \in 1 .. l
  OBVIOUS
<1> QED
  BY <1>1 DEF Opens

(* and one more list or object lies in the others. *)
LEMMA OpensMore ==
  ASSUME NEW t, NEW n, NEW s, NEW r, NEW p, NEW l \in Nat, NEW m, m = l + 1, NEW b,
         Opens(t, n, s, p, l), \A j \in 1 .. l : r[j] = s[j],
         Opened(t, Readings(t)[n - m], r[m], p[m], b)
  PROVE  \E u : u[1] = p[1] /\ Opens(t, n, r, u, m) /\ u[m + 1] = b
<1> DEFINE u == [j \in Nat |-> IF j = m + 1 THEN b ELSE p[j]]
<1>1. u[1] = p[1] /\ u[m + 1] = b /\ u[m] = p[m]
  OBVIOUS
<1>2. \A j \in 1 .. l : u[j] = p[j] /\ u[j + 1] = p[j + 1]
  OBVIOUS
<1> HIDE DEF u
<1>3. ASSUME NEW j \in 1 .. m
      PROVE  Opened(t, Readings(t)[n - j], r[j], u[j], u[j + 1])
  <2>1. CASE j = m
    BY <1>1, <2>1
  <2>2. CASE j # m
    <3>1. j \in 1 .. l
      BY <2>2
    <3>2. Opened(t, Readings(t)[n - j], s[j], p[j], p[j + 1])
      BY <3>1 DEF Opens
    <3> QED
      BY <1>2, <3>1, <3>2
  <2> QED
    BY <2>1, <2>2
<1>4. Opens(t, n, r, u, m)
  BY <1>3 DEF Opens
<1> QED
  BY <1>1, <1>4

-----------------------------------------------------------------------------
(* What the parser has read *)

(* The next value begins at b, or there is none. *)
Starting(t, k, b) ==
  b \in Nat /\ b <= Len(t) /\ Blank(t, k, b) /\ (b < Len(t) => t[b + 1] \notin White)

(* From a to k, o is spelled. *)
Spelling(t, a, k, o) ==
  /\ a \in Nat /\ a < Len(t) /\ t[a + 1] = Quote /\ a + 1 <= k
  /\ \E E \in Escapings(t, a + 1, k) : o = SpelledTo(t, a + 1, k, E)

(* What the parser has read of t, in each mode. *)
ReadsValue(t, s, k) ==
  \E p : /\ Blank(t, 0, p[1]) /\ Opens(t, MaxDepth, s, p, Len(s))
         /\ Starting(t, k, p[Len(s) + 1])

ReadsString(t, s, k, o) ==
  \E p : /\ Blank(t, 0, p[1]) /\ Opens(t, MaxDepth, s, p, Len(s)) /\ Len(s) <= MaxDepth
         /\ Spelling(t, p[Len(s) + 1], k, o)

ReadsKey(t, s, k, o) ==
  \E p, a, c : /\ Blank(t, 0, p[1]) /\ Opens(t, MaxDepth, s, p, Len(s) - 1)
               /\ ObjectBegun(t, Readings(t)[MaxDepth - Len(s)], s[Len(s)], p[Len(s)], c)
               /\ Blank(t, c + 1, a) /\ Spelling(t, a, k, o)

ReadsReturn(t, s, k, v) ==
  \E p : /\ Blank(t, 0, p[1]) /\ Opens(t, MaxDepth, s, p, Len(s)) /\ Len(s) <= MaxDepth
         /\ Part(p[Len(s) + 1], k, v) \in Readings(t)[MaxDepth - Len(s)]

(* What is returned with an error: a broken string may be a part of t. *)
ErrorAt(t, s, k, v) ==
  v = Null \/ (v = EmptyString /\ (s = <<>> => BrokenAt(t, k) /\ k \in Places(t)))

Error(t, v) == v = Null \/ (v = EmptyString /\ Broken(t))

Reads(t) ==
  /\ failed => mode # "string" /\ mode # "key"
  /\ failed /\ mode = "return" => ErrorAt(t, stack, i, result)
  /\ failed /\ mode = "done" => Error(t, result)
  /\ ~failed /\ mode = "value" => ReadsValue(t, stack, i)
  /\ ~failed /\ mode = "string" => ReadsString(t, stack, i, out)
  /\ ~failed /\ mode = "key" => ReadsKey(t, stack, i, out)
  /\ ~failed /\ mode = "return" => ReadsReturn(t, stack, i, result)
  /\ ~failed /\ mode = "done" => result \in Denoted(t, MaxDepth)

(* A step into each mode, with what has to be shown of it. *)
LEMMA ReadsFailure ==
  ASSUME NEW t, failed' = TRUE, mode' = "value" \/ (mode' = "return" /\ result' = Null)
  PROVE  Reads(t)'
BY DEF Reads, ErrorAt

LEMMA ReadsOn ==
  ASSUME NEW t, failed' = FALSE, NEW s, s = stack', NEW k, k = i', NEW o, o = out',
         NEW v, v = result',
         \/ mode' = "value" /\ ReadsValue(t, s, k)
         \/ mode' = "string" /\ ReadsString(t, s, k, o)
         \/ mode' = "key" /\ ReadsKey(t, s, k, o)
         \/ mode' = "return" /\ ReadsReturn(t, s, k, v)
  PROVE  Reads(t)'
BY DEF Reads

(* Lists and objects, as they are entered, go on, and are left. *)
LEMMA EnterReads ==
  ASSUME IsStack(stack), NEW t, NEW p, Blank(t, 0, p[1]),
         Opens(t, MaxDepth, stack, p, Len(stack)), NEW f, NEW s, s = Append(stack, f),
         NEW b, NEW k, Starting(t, k, b),
         Opened(t, Readings(t)[MaxDepth - (Len(stack) + 1)], f, p[Len(stack) + 1], b)
  PROVE  ReadsValue(t, s, k)
<1>1. /\ Len(s) = Len(stack) + 1 /\ s[Len(stack) + 1] = f
      /\ \A j \in 1 .. Len(stack) : s[j] = stack[j]
  BY PushedAt
<1> DEFINE l == Len(stack)
<1>2. l \in Nat
  BY DEF IsStack
<1>3. Opens(t, MaxDepth, stack, p, l) /\ \A j \in 1 .. l : s[j] = stack[j]
  BY <1>1
<1>4. Len(s) = l + 1 /\ Opened(t, Readings(t)[MaxDepth - Len(s)], s[Len(s)], p[Len(s)], b)
  BY <1>1
<1> HIDE DEF l
<1>5. \E u : u[1] = p[1] /\ Opens(t, MaxDepth, s, u, Len(s)) /\ u[Len(s) + 1] = b
  BY ONLY <1>2, <1>3, <1>4, OpensMore
<1> QED
  BY <1>5 DEF ReadsValue

LEMMA EnterKeyReads ==
  ASSUME IsStack(stack), NEW t, NEW p, Blank(t, 0, p[1]),
         Opens(t, MaxDepth, stack, p, Len(stack)), NEW f, NEW s, s = Append(stack, f),
         NEW a, NEW c, NEW k, NEW o,
         ObjectBegun(t, Readings(t)[MaxDepth - (Len(stack) + 1)], f, p[Len(stack) + 1], c),
         Blank(t, c + 1, a), Spelling(t, a, k, o)
  PROVE  ReadsKey(t, s, k, o)
<1>1. /\ Len(s) = Len(stack) + 1 /\ s[Len(stack) + 1] = f
      /\ \A j \in 1 .. Len(stack) : s[j] = stack[j]
  BY PushedAt
<1>2. Len(stack) \in Nat /\ Len(s) - 1 = Len(stack) /\ Len(stack) <= Len(stack)
  BY <1>1 DEF IsStack
<1>3. Opens(t, MaxDepth, s, p, Len(s) - 1)
  <2>1. Opens(t, MaxDepth, stack, p, Len(stack))
    OBVIOUS
  <2> QED
    BY ONLY <1>1, <1>2, <2>1, OpensPart
<1> QED
  BY <1>1, <1>3 DEF ReadsKey

LEMMA GoOnReads ==
  ASSUME IsStack(stack), stack # <<>>, NEW t, NEW p, Blank(t, 0, p[1]),
         Opens(t, MaxDepth, stack, p, Len(stack) - 1), NEW f, NEW s, s = OnTop(f),
         NEW b, NEW k, Starting(t, k, b),
         Opened(t, Readings(t)[MaxDepth - Len(stack)], f, p[Len(stack)], b)
  PROVE  ReadsValue(t, s, k)
<1> DEFINE l == Len(stack) - 1
<1>1. /\ Len(s) = Len(stack) /\ s[Len(stack)] = f
      /\ \A j \in 1 .. Len(stack) - 1 : s[j] = stack[j]
  BY ReplacedAt
<1>2. l \in Nat /\ l + 1 = Len(stack)
  BY DEF IsStack
<1>3. Opens(t, MaxDepth, stack, p, l) /\ \A j \in 1 .. l : s[j] = stack[j]
  BY <1>1
<1>4. Len(s) = l + 1 /\ Opened(t, Readings(t)[MaxDepth - Len(s)], s[Len(s)], p[Len(s)], b)
  BY <1>1, <1>2
<1> HIDE DEF l
<1>5. \E u : u[1] = p[1] /\ Opens(t, MaxDepth, s, u, Len(s)) /\ u[Len(s) + 1] = b
  BY ONLY <1>2, <1>3, <1>4, OpensMore
<1> QED
  BY <1>5 DEF ReadsValue

LEMMA GoOnKeyReads ==
  ASSUME IsStack(stack), stack # <<>>, NEW t, NEW p, Blank(t, 0, p[1]),
         Opens(t, MaxDepth, stack, p, Len(stack) - 1), NEW f, NEW s, s = OnTop(f),
         NEW a, NEW c, NEW k, NEW o,
         ObjectBegun(t, Readings(t)[MaxDepth - Len(stack)], f, p[Len(stack)], c),
         Blank(t, c + 1, a), Spelling(t, a, k, o)
  PROVE  ReadsKey(t, s, k, o)
<1>1. /\ Len(s) = Len(stack) /\ s[Len(stack)] = f
      /\ \A j \in 1 .. Len(stack) - 1 : s[j] = stack[j]
  BY ReplacedAt
<1>2. Len(stack) - 1 \in Nat /\ Len(stack) - 1 <= Len(stack) - 1
  BY DEF IsStack
<1>3. Opens(t, MaxDepth, s, p, Len(stack) - 1)
  <2>1. Opens(t, MaxDepth, stack, p, Len(stack) - 1)
    OBVIOUS
  <2> QED
    BY ONLY <1>1, <1>2, <2>1, OpensPart
<1> QED
  BY <1>1, <1>3 DEF ReadsKey

LEMMA LeaveReads ==
  ASSUME IsStack(stack), stack # <<>>, NEW t, NEW p, Blank(t, 0, p[1]),
         Opens(t, MaxDepth, stack, p, Len(stack)), NEW s, s = Below, NEW k, NEW v,
         Len(stack) - 1 <= MaxDepth,
         Part(p[Len(stack)], k, v) \in Readings(t)[MaxDepth - (Len(stack) - 1)]
  PROVE  ReadsReturn(t, s, k, v)
<1>1. Len(s) = Len(stack) - 1 /\ \A j \in 1 .. Len(stack) - 1 : s[j] = stack[j]
  BY PoppedAt
<1>2. /\ Len(stack) \in Nat /\ Len(stack) - 1 \in Nat /\ Len(stack) - 1 <= Len(stack)
      /\ Len(s) + 1 = Len(stack)
  <2>1. Len(stack) \in Nat \ {0}
    BY DEF IsStack
  <2> QED
    BY <1>1, <2>1
<1>3. Opens(t, MaxDepth, s, p, Len(s))
  <2>1. Opens(t, MaxDepth, stack, p, Len(stack))
    OBVIOUS
  <2> QED
    BY ONLY <1>1, <1>2, <2>1, OpensPart
<1> QED
  BY <1>1, <1>2, <1>3 DEF ReadsReturn

-----------------------------------------------------------------------------
(* Where the parser finds a character. *)
LEMMA TokenFound ==
  ASSUME CursorInv, NEW k \in Place, Token(k) # End
  PROVE  \E b \in Place : /\ b \in Nat /\ b < Len(str) /\ b + 1 \in Place /\ Blank(str, k, b)
                          /\ Token(k) = str[b + 1] /\ AfterToken(k) = b + 1
                          /\ str[b + 1] \notin White
<1> DEFINE b == PastAll(White, k)
<1>1. /\ b \in Place /\ k <= b /\ Blank(str, k, b)
      /\ \/ b = Len(str) /\ Token(k) = End /\ AfterToken(k) = b
         \/ /\ b < Len(str) /\ Token(k) = str[b + 1] /\ AfterToken(k) = b + 1
            /\ str[b + 1] \notin White /\ str[b + 1] \in Character
  BY TokenIs
<1> HIDE DEF b
<1>2. b \in Nat /\ (b < Len(str) => b + 1 \in Place)
  BY <1>1 DEF Place, CursorInv
<1> QED
  BY <1>1, <1>2

LEMMA StartingThere ==
  ASSUME CursorInv, NEW k \in Place PROVE \E b : Starting(str, k, b)
<1> DEFINE b == PastAll(White, k)
<1>1. /\ b \in Place /\ k <= b /\ Blank(str, k, b)
      /\ \/ b = Len(str)
         \/ /\ b < Len(str) /\ str[b + 1] \notin White
  BY TokenIs
<1> HIDE DEF b
<1>2. b \in Nat /\ b <= Len(str) /\ Len(str) \in Nat
  BY <1>1 DEF Place, CursorInv
<1> QED
  BY <1>1, <1>2 DEF Starting

(* The value that begins at b does so where the parser is. *)
LEMMA ValueStarts ==
  ASSUME CursorInv, NEW b, Starting(str, i, b), Here # End
  PROVE  /\ b \in Nat /\ b < Len(str) /\ b \in Place /\ b + 1 \in Place
         /\ Here = str[b + 1] /\ Next1 = b + 1
<1>1. i \in Place /\ Len(str) \in Nat
  BY DEF CursorInv
<1>2. /\ b \in Nat /\ b <= Len(str) /\ i <= b /\ \A m \in i + 1 .. b : str[m] \in White
      /\ b < Len(str) => str[b + 1] \notin White
  BY DEF Starting, Blank
<1>3. b \in Place /\ (b < Len(str) => b + 1 \in Place) /\ (b = Len(str) \/ b < Len(str))
  BY <1>1, <1>2 DEF Place
<1>4. PastAll(White, i) = b
  BY <1>1, <1>2, <1>3, PastAllTo
<1> QED
  BY <1>3, <1>2, <1>4 DEF Here, Next1, Token, AfterToken, At

-----------------------------------------------------------------------------
(* Steps read what is written *)

(* What is read at one depth. *)
LEMMA Depth ==
  ASSUME Inv, ~TooDeep
  PROVE  MaxDepth - Len(stack) \in Nat /\ Len(stack) <= MaxDepth /\ Len(stack) \in Nat
         /\ IsStack(stack) /\ CursorInv /\ str \in Seq(Character) /\ Len(str) \in Nat
<1>1. Len(stack) \in Nat /\ Len(stack) <= MaxDepth /\ IsStack(stack)
  BY HereNow, JsonAssumption DEF TooDeep
<1> QED
  BY <1>1, JsonAssumption DEF Inv, CursorInv

(* A number, *)
LEMMA NumberReads ==
  ASSUME Inv, ~failed, NEW t, t = str, Reads(t), ParseNumber PROVE Reads(t)'
<1> DEFINE e == NumberEnd(Next1 - 1)
           number == [type |-> "number", of |-> SubSeq(str, Next1, e)]
<1>1. /\ mode = "value" /\ Here \in Digit \cup {"-"} /\ ~TooDeep
      /\ e = -1 => Fail(Next1, stack)
      /\ e # -1 => Return(number, e, stack)
  BY DEF ParseNumber, Starts
<1> HIDE DEF number
<1>2. PICK p : /\ Blank(t, 0, p[1]) /\ Opens(t, MaxDepth, stack, p, Len(stack))
               /\ Starting(t, i, p[Len(stack) + 1])
  BY <1>1 DEF Reads, ReadsValue
<1> DEFINE b == p[Len(stack) + 1]
<1>3. Starting(str, i, b) /\ Here # End
  BY <1>1, <1>2 DEF End, Digit
<1>4. /\ MaxDepth - Len(stack) \in Nat /\ Len(stack) <= MaxDepth /\ CursorInv
      /\ Len(str) \in Nat
  BY <1>1, Depth
<1> HIDE DEF b
<1>5. /\ b \in Nat /\ b < Len(str) /\ b \in Place /\ Here = str[b + 1] /\ Next1 = b + 1
  BY <1>3, <1>4, ValueStarts
<1>6. Next1 - 1 = b
  BY <1>5
<1>7. CASE e = -1
  BY <1>1, <1>7, ReadsFailure DEF Fail, FailWith
<1>8. CASE e # -1
  <2>1. e \in Place /\ IsNumber(str, b, e)
    BY <1>4, <1>5, <1>6, <1>8, NumberRead
  <2>2. b \in Marks(t, Digit \cup {"-"}) /\ e \in Places(t)
    BY <1>1, <1>4, <1>5, <2>1 DEF Marks, Places, Place
  <2> HIDE DEF e
  <2>3. Part(b, e, number) \in Numbers(t)
    BY <1>5, <2>1, <2>2, NumberIn DEF number
  <2>4. Part(b, e, number) \in Readings(t)[MaxDepth - Len(stack)]
    BY <1>4, <2>3, LevelIn DEF Flat
  <2>5. ReadsReturn(t, stack, e, number)
    BY <1>2, <1>4, <2>4 DEF ReadsReturn, b
  <2>6. /\ failed' = FALSE /\ mode' = "return"
        /\ stack' = stack /\ i' = e /\ result' = number
    BY <1>1, <1>8 DEF Return, Inv, CursorInv, e
  <2> QED
    BY <2>5, <2>6, ReadsOn
<1> QED
  BY <1>7, <1>8

(* a literal, *)
LEMMA LiteralReads ==
  ASSUME Inv, ~failed, NEW t, t = str, Reads(t), ParseLiteral PROVE Reads(t)'
<1> DEFINE literal == [type |-> "literal", of |-> <<True>>]
<1>1. mode = "value" /\ Here = True /\ ~TooDeep /\ Return(literal, Next1, stack)
  BY DEF ParseLiteral, Starts
<1>2. PICK p : /\ Blank(t, 0, p[1]) /\ Opens(t, MaxDepth, stack, p, Len(stack))
               /\ Starting(t, i, p[Len(stack) + 1])
  BY <1>1 DEF Reads, ReadsValue
<1> DEFINE b == p[Len(stack) + 1]
<1>3. Starting(str, i, b) /\ Here # End
  BY <1>1, <1>2 DEF End, True
<1>4. /\ MaxDepth - Len(stack) \in Nat /\ Len(stack) <= MaxDepth /\ CursorInv
      /\ Len(str) \in Nat
  BY <1>1, Depth
<1> HIDE DEF b
<1>5. /\ b \in Nat /\ b < Len(str) /\ b \in Place /\ Here = str[b + 1] /\ Next1 = b + 1
  BY <1>3, <1>4, ValueStarts
<1>6. b \in Marks(t, {True})
  BY <1>1, <1>4, <1>5 DEF Marks
<1>7. Part(b, b + 1, literal) \in Literals(t)
  BY <1>6 DEF Literals
<1> HIDE DEF literal
<1>8. Part(b, Next1, literal) \in Readings(t)[MaxDepth - Len(stack)]
  BY <1>4, <1>5, <1>7, LevelIn DEF Flat
<1>9. ReadsReturn(t, stack, Next1, literal)
  BY <1>2, <1>4, <1>8 DEF ReadsReturn, b
<1>10. /\ failed' = FALSE /\ mode' = "return"
       /\ stack' = stack /\ i' = Next1 /\ result' = literal
  BY <1>1 DEF Return, Inv, CursorInv
<1> QED
  BY <1>9, <1>10, ReadsOn

(* A string begins after a quote. *)
LEMMA SpellingBegins ==
  ASSUME NEW t, NEW a \in Nat, a < Len(t), t[a + 1] = Quote
  PROVE  Spelling(t, a, a + 1, <<>>)
<1>1. a + 1 \in Nat /\ a + 1 <= a + 1
  OBVIOUS
<1>2. {} \in Escapings(t, a + 1, a + 1) /\ SpelledTo(t, a + 1, a + 1, {}) = <<>>
  BY <1>1, EscapeNone
<1> QED
  BY <1>1, <1>2 DEF Spelling

(* and the first quote of a string. *)
LEMMA StringReads ==
  ASSUME Inv, ~failed, NEW t, t = str, Reads(t), ParseString PROVE Reads(t)'
<1>1. mode = "value" /\ Here = Quote /\ ~TooDeep /\ String("string", Next1, stack)
  BY DEF ParseString, Starts
<1>2. PICK p : /\ Blank(t, 0, p[1]) /\ Opens(t, MaxDepth, stack, p, Len(stack))
               /\ Starting(t, i, p[Len(stack) + 1])
  BY <1>1 DEF Reads, ReadsValue
<1> DEFINE b == p[Len(stack) + 1]
<1>3. Starting(str, i, b) /\ Here # End
  BY <1>1, <1>2 DEF End, Quote
<1>4. Len(stack) <= MaxDepth /\ CursorInv
  BY <1>1, Depth
<1> HIDE DEF b
<1>5. /\ b \in Nat /\ b < Len(str) /\ b \in Place /\ Here = str[b + 1] /\ Next1 = b + 1
  BY <1>3, <1>4, ValueStarts
<1>6. Spelling(t, b, Next1, <<>>)
  BY <1>1, <1>5, SpellingBegins
<1>7. ReadsString(t, stack, Next1, <<>>)
  BY <1>2, <1>4, <1>6 DEF ReadsString, b
<1>8. /\ failed' = FALSE /\ mode' = "string"
      /\ stack' = stack /\ i' = Next1 /\ out' = <<>>
  BY <1>1 DEF String, Inv, CursorInv
<1> QED
  BY <1>7, <1>8, ReadsOn

(* An empty list, or the beginning of one; *)
LEMMA ListReads ==
  ASSUME Inv, ~failed, NEW t, t = str, Reads(t), ParseList PROVE Reads(t)'
<1> DEFINE empty == Value(List)
<1>1. /\ mode = "value" /\ Here = "[" /\ ~TooDeep
      /\ Token(Next1) = "]" => Return(empty, AfterToken(Next1), stack)
      /\ Token(Next1) # "]" => Element(Next1, Append(stack, List))
  BY DEF ParseList, Starts
<1> HIDE DEF empty
<1>2. PICK p : /\ Blank(t, 0, p[1]) /\ Opens(t, MaxDepth, stack, p, Len(stack))
               /\ Starting(t, i, p[Len(stack) + 1])
  BY <1>1 DEF Reads, ReadsValue
<1> DEFINE a == p[Len(stack) + 1]
<1>3. Starting(str, i, a) /\ Here # End
  BY <1>1, <1>2 DEF End
<1>4. /\ MaxDepth - Len(stack) \in Nat /\ Len(stack) <= MaxDepth /\ CursorInv
      /\ IsStack(stack) /\ t \in Seq(Character)
  BY <1>1, Depth
<1> HIDE DEF a
<1>5. /\ a \in Nat /\ a < Len(t) /\ t[a + 1] = "[" /\ Next1 = a + 1 /\ Next1 \in Place
  BY <1>1, <1>3, <1>4, ValueStarts
<1>6. CASE Token(Next1) = End
  <2>1. failed' = TRUE /\ mode' = "value"
    BY <1>1, <1>6 DEF Element, End
  <2> QED
    BY <2>1, ReadsFailure
<1>7. CASE Token(Next1) # End
  <2>1. PICK b \in Place : /\ b \in Nat /\ b < Len(str) /\ b + 1 \in Place
                           /\ Blank(str, Next1, b)
                           /\ Token(Next1) = str[b + 1] /\ AfterToken(Next1) = b + 1
                           /\ str[b + 1] \notin White
    BY <1>4, <1>5, <1>7, TokenFound
  <2>2. CASE Token(Next1) = "]"
    <3>1. Part(a, b + 1, empty) \in Empties(t, "[", "]", empty)
      BY <1>4, <1>5, <2>1, <2>2, EmptyIn
    <3>2. Part(a, AfterToken(Next1), empty) \in Readings(t)[MaxDepth - Len(stack)]
      BY <1>4, <2>1, <3>1, LevelIn DEF Flat, empty
    <3>3. ReadsReturn(t, stack, AfterToken(Next1), empty)
      BY <1>2, <1>4, <3>2 DEF ReadsReturn, a
    <3>4. /\ failed' = FALSE /\ mode' = "return"
          /\ stack' = stack /\ i' = AfterToken(Next1) /\ result' = empty
      BY <1>1, <2>2 DEF Return, Inv, CursorInv
    <3> QED
      BY <3>3, <3>4, ReadsOn
  <2>3. CASE Token(Next1) # "]"
    <3>1. i' = b /\ failed' = FALSE /\ stack' = Append(stack, List) /\ mode' = "value"
      <4>1. Element(Next1, Append(stack, List))
        BY <1>1, <2>3
      <4>2. (b + 1) - 1 = b
        BY <2>1
      <4> QED
        BY <1>7, <2>1, <4>1, <4>2 DEF Element, Inv, CursorInv
    <3>2. Starting(t, b, b)
      <4>1. b <= Len(t) /\ Blank(t, b, b)
        BY <1>4, <2>1 DEF Blank
      <4> QED
        BY <2>1, <4>1 DEF Starting
    <3> DEFINE R == Readings(t)[MaxDepth - (Len(stack) + 1)]
    <3>3. Opened(t, R, List, a, b)
      <4>1. ListBegun(t, R, List, a, a)
        BY <1>5, ListBegins
      <4>2. Blank(t, a + 1, b)
        BY <1>5, <2>1
      <4> QED
        BY <4>1, <4>2 DEF Opened
    <3>4. \A s : s = Append(stack, List) => ReadsValue(t, s, b)
      BY <1>2, <1>4, <3>2, <3>3, EnterReads DEF a
    <3> QED
      BY <3>1, <3>4, ReadsOn
  <2> QED
    BY <2>2, <2>3
<1> QED
  BY <1>6, <1>7

(* and of an object. *)
LEMMA ObjectReads ==
  ASSUME Inv, ~failed, NEW t, t = str, Reads(t), ParseObject PROVE Reads(t)'
<1> DEFINE empty == Value(Object)
<1>1. /\ mode = "value" /\ Here = OpenBrace /\ ~TooDeep
      /\ Token(Next1) = CloseBrace => Return(empty, AfterToken(Next1), stack)
      /\ Token(Next1) = Quote => String("key", AfterToken(Next1), Append(stack, Object))
      /\ Token(Next1) # CloseBrace /\ Token(Next1) # Quote => Fail(AfterToken(Next1), stack)
  BY Distinct DEF ParseObject, Starts
<1> HIDE DEF empty
<1>2. PICK p : /\ Blank(t, 0, p[1]) /\ Opens(t, MaxDepth, stack, p, Len(stack))
               /\ Starting(t, i, p[Len(stack) + 1])
  BY <1>1 DEF Reads, ReadsValue
<1> DEFINE a == p[Len(stack) + 1]
<1>3. Starting(str, i, a) /\ Here # End
  BY <1>1, <1>2, Distinct
<1>4. /\ MaxDepth - Len(stack) \in Nat /\ Len(stack) <= MaxDepth /\ CursorInv
      /\ IsStack(stack) /\ t \in Seq(Character)
  BY <1>1, Depth
<1> HIDE DEF a
<1>5. /\ a \in Nat /\ a < Len(t) /\ t[a + 1] = OpenBrace /\ Next1 = a + 1 /\ Next1 \in Place
  BY <1>1, <1>3, <1>4, ValueStarts
<1>6. CASE Token(Next1) # CloseBrace /\ Token(Next1) # Quote
  <2>1. failed' = TRUE /\ mode' = "return" /\ result' = Null
    BY <1>1, <1>6 DEF Fail, FailWith
  <2> QED
    BY <2>1, ReadsFailure
<1>7. CASE Token(Next1) = CloseBrace \/ Token(Next1) = Quote
  <2>1. Token(Next1) # End
    BY <1>7, Distinct DEF Quote, End
  <2>2. PICK b \in Place : /\ b \in Nat /\ b < Len(str) /\ b + 1 \in Place
                           /\ Blank(str, Next1, b)
                           /\ Token(Next1) = str[b + 1] /\ AfterToken(Next1) = b + 1
                           /\ str[b + 1] \notin White
    BY <1>4, <1>5, <2>1, TokenFound
  <2>3. CASE Token(Next1) = CloseBrace
    <3>1. Part(a, b + 1, empty) \in Empties(t, OpenBrace, CloseBrace, empty)
      BY <1>4, <1>5, <2>2, <2>3, EmptyIn
    <3>2. Part(a, AfterToken(Next1), empty) \in Readings(t)[MaxDepth - Len(stack)]
      BY <1>4, <2>2, <3>1, LevelIn DEF Flat, empty
    <3>3. ReadsReturn(t, stack, AfterToken(Next1), empty)
      BY <1>2, <1>4, <3>2 DEF ReadsReturn, a
    <3>4. /\ failed' = FALSE /\ mode' = "return"
          /\ stack' = stack /\ i' = AfterToken(Next1) /\ result' = empty
      BY <1>1, <2>3 DEF Return, Inv, CursorInv
    <3> QED
      BY <3>3, <3>4, ReadsOn
  <2>4. CASE Token(Next1) = Quote
    <3>1. /\ i' = b + 1 /\ failed' = FALSE /\ stack' = Append(stack, Object)
          /\ mode' = "key" /\ out' = <<>>
      BY <1>1, <2>2, <2>4 DEF String, Inv, CursorInv
    <3>2. Spelling(t, b, b + 1, <<>>)
      BY <2>2, <2>4, SpellingBegins
    <3> DEFINE R == Readings(t)[MaxDepth - (Len(stack) + 1)]
    <3>3. ObjectBegun(t, R, Object, a, a) /\ Blank(t, a + 1, b)
      BY <1>5, <2>2, ObjectBegins
    <3>4. \A s : s = Append(stack, Object) => ReadsKey(t, s, b + 1, <<>>)
      BY <1>2, <1>4, <3>2, <3>3, EnterKeyReads DEF a
    <3> QED
      BY <3>1, <3>4, ReadsOn
  <2> QED
    BY <1>7, <2>3, <2>4
<1> QED
  BY <1>6, <1>7

(* One more character of a string, or one that is escaped. *)
LEMMA SpellingMore ==
  ASSUME CursorInv, NEW t, t = str, NEW k \in Place, NEW a, NEW o, Spelling(t, a, k, o),
         At(k) # End
  PROVE  /\ At(k) # Quote /\ At(k) # Backslash /\ At(k) # Control
              => Spelling(t, a, k + 1, Append(o, At(k)))
         /\ At(k) = Backslash /\ (At(k + 1) = Quote \/ At(k + 1) = Backslash)
              => Spelling(t, a, k + 2, Append(o, At(k + 1)))
<1>1. /\ a \in Nat /\ a < Len(t) /\ t[a + 1] = Quote /\ a + 1 <= k
      /\ \E E \in Escapings(t, a + 1, k) : o = SpelledTo(t, a + 1, k, E)
  BY DEF Spelling
<1>2. PICK E \in Escapings(t, a + 1, k) : o = SpelledTo(t, a + 1, k, E)
  BY <1>1
<1>3. k \in Nat /\ k < Len(t) /\ t[k + 1] = At(k) /\ k + 1 \in Place
  BY AtPlace
<1>4. a + 1 \in Nat /\ a + 1 <= k + 1 /\ a + 1 <= k + 2 /\ (k + 1) + 1 = k + 2
  BY <1>1, <1>3
<1>5. ASSUME At(k) # Quote, At(k) # Backslash, At(k) # Control
      PROVE  Spelling(t, a, k + 1, Append(o, At(k)))
  <2>1. /\ E \in Escapings(t, a + 1, k + 1)
        /\ SpelledTo(t, a + 1, k + 1, E) = Append(SpelledTo(t, a + 1, k, E), t[k + 1])
    BY <1>1, <1>3, <1>4, <1>5, EscapePlain
  <2>2. Append(o, At(k)) = SpelledTo(t, a + 1, k + 1, E)
    BY <1>2, <1>3, <2>1
  <2> QED
    BY <1>1, <1>4, <2>1, <2>2 DEF Spelling
<1>6. ASSUME At(k) = Backslash, At(k + 1) = Quote \/ At(k + 1) = Backslash
      PROVE  Spelling(t, a, k + 2, Append(o, At(k + 1)))
  <2>1. t[k + 2] = At(k + 1)
    BY <1>3, <1>4, <1>6, AtPlace DEF End, Quote, Backslash
  <2>2. t[k + 2] \in {Quote, Backslash} /\ t[k + 1] = Backslash
    BY <1>3, <1>6, <2>1
  <2>3. /\ E \cup {k} \in Escapings(t, a + 1, k + 2)
        /\ SpelledTo(t, a + 1, k + 2, E \cup {k})
             = Append(SpelledTo(t, a + 1, k, E), t[k + 2])
    <3> DEFINE c == a + 1
    <3>1. c \in Nat /\ E \in Escapings(t, c, k) /\ c <= k /\ k \in Nat
      BY <1>1, <1>3, <1>4
    <3> HIDE DEF c
    <3>2. /\ E \cup {k} \in Escapings(t, c, k + 2)
          /\ SpelledTo(t, c, k + 2, E \cup {k}) = Append(SpelledTo(t, c, k, E), t[k + 2])
      BY ONLY <2>2, <3>1, EscapePair
    <3> QED
      BY <3>2 DEF c
  <2>4. Append(o, At(k + 1)) = SpelledTo(t, a + 1, k + 2, E \cup {k})
    BY <1>2, <2>1, <2>3
  <2> QED
    BY <1>1, <1>4, <2>3, <2>4 DEF Spelling
<1> QED
  BY <1>5, <1>6

(* A quote that is not escaped ends a string. *)
LEMMA SpellingEnds ==
  ASSUME CursorInv, NEW t, t = str, NEW k \in Place, NEW a, NEW o, Spelling(t, a, k, o),
         At(k) = Quote
  PROVE  Part(a, k + 1, o) \in Quoted(t) /\ k + 1 \in Place
<1>1. /\ a \in Nat /\ a < Len(t) /\ t[a + 1] = Quote /\ a + 1 <= k
      /\ \E E \in Escapings(t, a + 1, k) : o = SpelledTo(t, a + 1, k, E)
  BY DEF Spelling
<1>2. PICK E \in Escapings(t, a + 1, k) : o = SpelledTo(t, a + 1, k, E)
  BY <1>1
<1>3. k \in Nat /\ k < Len(t) /\ t[k + 1] = Quote /\ k + 1 \in Place
  BY AtPlace DEF End, Quote
<1>4. a \in Marks(t, {Quote}) /\ k \in Marks(t, {Quote})
  <2>1. Len(t) \in Nat
    BY DEF CursorInv
  <2> QED
    BY <1>1, <1>3, <2>1 DEF Marks
<1>5. Part(a, k + 1, Spelled(t, (a + 1 .. k - 1) \ E)) \in Quoted(t)
  BY <1>4, QuotedIn
<1> QED
  BY <1>2, <1>3, <1>5 DEF SpelledTo

(* Each character of a string, *)
LEMMA StringGoesOnReads ==
  ASSUME Inv, ~failed, NEW t, t = str, Reads(t), StringGoesOn PROVE Reads(t)'
<1>1. /\ mode = "string" \/ mode = "key"
      /\ UNCHANGED <<failed, stack, mode>>
      /\ \/ /\ At(i) \in Character /\ At(i) # Quote /\ At(i) # Backslash /\ At(i) # Control
            /\ out' = Append(out, At(i)) /\ i' = i + 1
         \/ /\ At(i) = Backslash /\ (At(i + 1) = Quote \/ At(i + 1) = Backslash)
            /\ out' = Append(out, At(i + 1)) /\ i' = i + 2
  BY DEF StringGoesOn, InString
<1>2. At(i) # End
  <2>1. End \notin Character
    BY Distinct DEF Character, Digit, Quote, Backslash, True, Control, End
  <2> QED
    BY <1>1, <2>1 DEF End, Backslash
<1>3. CursorInv /\ i \in Place /\ failed' = FALSE
  BY <1>1 DEF Inv, CursorInv
<1>4. ASSUME NEW a, Spelling(t, a, i, out) PROVE Spelling(t, a, i', out')
  BY <1>1, <1>2, <1>3, <1>4, SpellingMore
<1>5. CASE mode = "string"
  <2>1. PICK p : /\ Blank(t, 0, p[1]) /\ Opens(t, MaxDepth, stack, p, Len(stack))
                 /\ Len(stack) <= MaxDepth /\ Spelling(t, p[Len(stack) + 1], i, out)
    BY <1>5 DEF Reads, ReadsString
  <2>2. Spelling(t, p[Len(stack) + 1], i', out')
    BY <1>4, <2>1
  <2>3. \A k, o : k = i' /\ o = out' => ReadsString(t, stack, k, o)
    BY <2>1, <2>2 DEF ReadsString
  <2> QED
    BY <1>1, <1>3, <1>5, <2>3, ReadsOn
<1>6. CASE mode = "key"
  <2> DEFINE R == Readings(t)[MaxDepth - Len(stack)]
  <2>1. PICK p, a, c : /\ Blank(t, 0, p[1]) /\ Opens(t, MaxDepth, stack, p, Len(stack) - 1)
                       /\ ObjectBegun(t, R, stack[Len(stack)], p[Len(stack)], c)
                       /\ Blank(t, c + 1, a) /\ Spelling(t, a, i, out)
    BY <1>6 DEF Reads, ReadsKey
  <2>2. Spelling(t, a, i', out')
    BY <1>4, <2>1
  <2>3. \A k, o : k = i' /\ o = out' => ReadsKey(t, stack, k, o)
    BY <2>1, <2>2 DEF ReadsKey
  <2> QED
    BY <1>1, <1>3, <1>6, <2>3, ReadsOn
<1> QED
  BY <1>1, <1>5, <1>6

(* and its last quote. *)
LEMMA StringEndsReads ==
  ASSUME Inv, ~failed, NEW t, t = str, Reads(t), StringEnds PROVE Reads(t)'
<1> DEFINE string == [type |-> "string", of |-> out]
           fr == [Top EXCEPT !.key = out]
<1>1. /\ mode = "string" \/ mode = "key"
      /\ At(i) = Quote
      /\ mode = "string" => Return(string, i + 1, stack)
      /\ mode = "key" /\ Token(i + 1) = ":" =>
           /\ i' = AfterToken(i + 1) /\ mode' = "value" /\ stack' = OnTop(fr)
           /\ UNCHANGED failed
      /\ mode = "key" /\ Token(i + 1) # ":" => Fail(AfterToken(i + 1), Below)
  BY DEF StringEnds, InString
<1> HIDE DEF string, fr
<1>2. CursorInv /\ i \in Place /\ IsStack(stack) /\ Len(stack) \in Nat
  BY HereNow DEF Inv, CursorInv
<1>3. ASSUME NEW a, Spelling(t, a, i, out)
      PROVE  Part(a, i + 1, out) \in Quoted(t) /\ i + 1 \in Place
  BY <1>1, <1>2, <1>3, SpellingEnds
<1>4. CASE mode = "string"
  <2>1. PICK p : /\ Blank(t, 0, p[1]) /\ Opens(t, MaxDepth, stack, p, Len(stack))
                 /\ Len(stack) <= MaxDepth /\ Spelling(t, p[Len(stack) + 1], i, out)
    BY <1>4 DEF Reads, ReadsString
  <2> DEFINE a == p[Len(stack) + 1]
             q == Part(a, i + 1, out)
  <2>2. q \in Quoted(t)
    BY <1>3, <2>1
  <2>3. q.from = a /\ q.to = i + 1 /\ q.val = out
    BY PartIs
  <2> HIDE DEF q
  <2>4. Part(q.from, q.to, [type |-> "string", of |-> q.val]) \in Strings(t)
    BY <2>2 DEF Strings
  <2> HIDE DEF a
  <2>5. Part(a, i + 1, string) \in Strings(t)
    BY <2>3, <2>4 DEF string
  <2>6. MaxDepth - Len(stack) \in Nat
    BY <1>2, <2>1, JsonAssumption
  <2>7. Part(a, i + 1, string) \in Readings(t)[MaxDepth - Len(stack)]
    BY <2>5, <2>6, LevelIn DEF Flat
  <2>8. ReadsReturn(t, stack, i + 1, string)
    BY <2>1, <2>7 DEF ReadsReturn, a
  <2>9. /\ failed' = FALSE /\ mode' = "return"
        /\ stack' = stack /\ i' = i + 1 /\ result' = string
    BY <1>1, <1>4 DEF Return, Inv, CursorInv
  <2> QED
    BY <2>8, <2>9, ReadsOn
<1>5. CASE mode = "key" /\ Token(i + 1) # ":"
  <2>1. failed' = TRUE /\ mode' = "return" /\ result' = Null
    BY <1>1, <1>5 DEF Fail, FailWith
  <2> QED
    BY <2>1, ReadsFailure
<1>6. CASE mode = "key" /\ Token(i + 1) = ":"
  <2> DEFINE R == Readings(t)[MaxDepth - Len(stack)]
  <2>1. PICK p, a, c : /\ Blank(t, 0, p[1]) /\ Opens(t, MaxDepth, stack, p, Len(stack) - 1)
                       /\ ObjectBegun(t, R, stack[Len(stack)], p[Len(stack)], c)
                       /\ Blank(t, c + 1, a) /\ Spelling(t, a, i, out)
    BY <1>6 DEF Reads, ReadsKey
  <2> HIDE DEF R
  <2> DEFINE q == Part(a, i + 1, out)
  <2>2. q \in Quoted(t) /\ i + 1 \in Place
    BY <1>3, <2>1
  <2>3. q.from = a /\ q.to = i + 1 /\ q.val = out
    BY PartIs
  <2> HIDE DEF q
  <2>4. PICK e \in Place : /\ e \in Nat /\ e < Len(str) /\ e + 1 \in Place
                           /\ Blank(str, i + 1, e)
                           /\ Token(i + 1) = str[e + 1] /\ AfterToken(i + 1) = e + 1
                           /\ str[e + 1] \notin White
    BY <1>2, <1>6, <2>2, TokenFound DEF End
  <2>5. PICK b : Starting(str, e + 1, b)
    BY <1>2, <2>4, StartingThere
  <2>6. Colon(t, q.to, b)
    <3>1. Blank(t, e + 1, b)
      BY <2>5 DEF Starting
    <3>2. e \in Marks(t, {":"})
      BY <1>2, <1>6, <2>4 DEF Marks, CursorInv
    <3> QED
      BY <2>3, <2>4, <3>1, <3>2 DEF Colon
  <2>7. ObjectBegun(t, R, fr, p[Len(stack)], c) /\ fr.key = out
    BY <2>1, KeyIs DEF fr, Top
  <2>8. Opened(t, R, fr, p[Len(stack)], b)
    BY <2>1, <2>2, <2>3, <2>6, <2>7 DEF Opened
  <2>9. stack # <<>>
    BY <1>6 DEF Inv, StackInv
  <2>10. \A s : s = OnTop(fr) => ReadsValue(t, s, e + 1)
    BY <1>2, <2>1, <2>5, <2>8, <2>9, GoOnReads DEF R
  <2>11. failed' = FALSE /\ mode' = "value" /\ stack' = OnTop(fr) /\ i' = e + 1
    BY <1>1, <1>6, <2>4 DEF Inv, CursorInv
  <2> QED
    BY <2>10, <2>11, ReadsOn
<1> QED
  BY <1>1, <1>4, <1>5, <1>6

(* What parse_json() has returned, in the list or object on top.           *)
LEMMA Returns ==
  ASSUME Inv, ~failed, NEW t, t = str, Reads(t), Returned
  PROVE  \E p, y :
           /\ Blank(t, 0, p[1]) /\ Opens(t, MaxDepth, stack, p, Len(stack))
           /\ Opens(t, MaxDepth, stack, p, Len(stack) - 1)
           /\ y \in Readings(t)[MaxDepth - Len(stack)]
           /\ y.from = p[Len(stack) + 1] /\ y.to = i /\ y.val = result
           /\ Opened(t, Readings(t)[MaxDepth - Len(stack)], stack[Len(stack)],
                     p[Len(stack)], y.from)
           /\ Solid(t, Readings(t)[MaxDepth - Len(stack)])
           /\ Len(stack) <= MaxDepth
<1>1. mode = "return" /\ stack # <<>>
  BY DEF Returned
<1>2. PICK p : /\ Blank(t, 0, p[1]) /\ Opens(t, MaxDepth, stack, p, Len(stack))
               /\ Len(stack) <= MaxDepth
               /\ Part(p[Len(stack) + 1], i, result) \in Readings(t)[MaxDepth - Len(stack)]
  BY <1>1 DEF Reads, ReadsReturn
<1> DEFINE y == Part(p[Len(stack) + 1], i, result)
           R == Readings(t)[MaxDepth - Len(stack)]
<1>3. y.from = p[Len(stack) + 1] /\ y.to = i /\ y.val = result
  BY PartIs
<1> HIDE DEF y
<1>4. /\ Len(stack) \in Nat /\ Len(stack) \in 1 .. Len(stack)
      /\ MaxDepth - Len(stack) \in Nat /\ t \in Seq(Character)
  <2>1. Len(stack) \in Nat \ {0} /\ t \in Seq(Character)
    BY <1>1, HereNow DEF IsStack, Inv, CursorInv
  <2> QED
    BY <1>2, <2>1, JsonAssumption
<1>5. Solid(t, R)
  BY <1>4, ReadingsSolid
<1>6. Opened(t, R, stack[Len(stack)], p[Len(stack)], y.from)
  BY <1>2, <1>3, <1>4 DEF Opens
<1>7. Opens(t, MaxDepth, stack, p, Len(stack) - 1)
  <2>1. \A j \in 1 .. Len(stack) - 1 : j \in 1 .. Len(stack)
    BY <1>4
  <2> QED
    BY <1>2, <2>1 DEF Opens
<1> QED
  BY <1>2, <1>3, <1>5, <1>6, <1>7 DEF y

(* A list that goes on or is closed; *)
LEMMA ListGoesOnReads ==
  ASSUME Inv, ~failed, NEW t, t = str, Reads(t), ListGoesOn PROVE Reads(t)'
<1> DEFINE f == [Top EXCEPT !.of = Append(@, result)]
           list == Value(f)
           R == Readings(t)[MaxDepth - Len(stack)]
           l == Len(stack)
           fr == stack[Len(stack)]
<1>1. /\ Returned /\ stack # <<>> /\ Top.type = "array"
      /\ Here = "]" => Return(list, Next1, Below)
      /\ Here = Comma => Element(Next1, OnTop(f))
      /\ Here # "]" /\ Here # Comma => Fail(Next1, Below)
  BY Distinct DEF ListGoesOn, Returned
<1> HIDE DEF list
<1>2. /\ t \in Seq(Character) /\ IsStack(stack) /\ CursorInv /\ l \in Nat
      /\ i \in Place /\ Next1 \in Place /\ Len(t) \in Nat
  BY HereNow DEF Inv, CursorInv
<1>3. CASE Here # "]" /\ Here # Comma
  <2>1. failed' = TRUE /\ mode' = "return" /\ result' = Null
    BY <1>1, <1>3 DEF Fail, FailWith
  <2> QED
    BY <2>1, ReadsFailure
<1>4. CASE Here = "]" \/ Here = Comma
  <2>1. PICK p, y :
           /\ Blank(t, 0, p[1]) /\ Opens(t, MaxDepth, stack, p, l)
           /\ Opens(t, MaxDepth, stack, p, l - 1)
           /\ y \in R
           /\ y.from = p[l + 1] /\ y.to = i /\ y.val = result
           /\ Opened(t, R, fr, p[l], y.from)
           /\ Solid(t, R)
           /\ l <= MaxDepth
    BY <1>1, Returns
  <2>2. Here # End
    BY <1>4, Distinct DEF End
  <2>3. PICK b \in Place : /\ b \in Nat /\ b < Len(t) /\ b + 1 \in Place
                           /\ Blank(t, i, b)
                           /\ Here = t[b + 1] /\ Next1 = b + 1
                           /\ t[b + 1] \notin White
    BY <1>2, <2>2, TokenFound DEF Here, Next1
  <2>4. fr.type = "array" /\ f = [fr EXCEPT !.of = Append(@, result)]
    BY <1>1 DEF Top
  <2> HIDE DEF fr, R, f
  <2>5. PICK c : ListBegun(t, R, fr, p[l], c) /\ Blank(t, c + 1, y.from)
    <3>1. \A c : ~ObjectBegun(t, R, fr, p[l], c)
      <4>1. ASSUME NEW c, ObjectBegun(t, R, fr, p[l], c) PROVE fr.type = "object"
        BY <4>1 DEF ObjectBegun
      <4> QED
        BY <2>4, <4>1
    <3> QED
      BY <2>1, <3>1 DEF Opened
  <2>6. Spaced(t, y, c + 1, b)
    BY <2>1, <2>3, <2>5 DEF Spaced
  <2>7. /\ t[b + 1] = Comma => ListBegun(t, R, f, p[l], b)
        /\ t[b + 1] = "]" => Part(p[l], b + 1, Value(f)) \in Lists(t, R)
    BY ONLY <1>2, <2>1, <2>3, <2>4, <2>5, <2>6, ListAdds
  <2>8. CASE Here = "]"
    <3>1. Part(p[l], Next1, list) \in Lists(t, R)
      BY <2>3, <2>7, <2>8 DEF list
    <3>2. /\ MaxDepth - (l - 1) \in Nat /\ MaxDepth - (l - 1) > 0 /\ l - 1 <= MaxDepth
          /\ (MaxDepth - (l - 1)) - 1 = MaxDepth - l
      <4>1. MaxDepth \in Nat
        BY JsonAssumption
      <4> HIDE DEF l
      <4> QED
        BY ONLY <1>2, <2>1, <4>1
    <3>3. Part(p[l], Next1, list) \in Readings(t)[MaxDepth - (l - 1)]
      <4>1. Nested(t, R) \subseteq Readings(t)[MaxDepth - (l - 1)]
        BY <3>2, LevelIn DEF R
      <4> QED
        BY <3>1, <4>1 DEF Nested
    <3>4. \A s : s = Below => ReadsReturn(t, s, Next1, list)
      BY <1>1, <1>2, <2>1, <3>2, <3>3, LeaveReads
    <3>5. /\ failed' = FALSE /\ mode' = "return"
          /\ stack' = Below /\ i' = Next1 /\ result' = list
      BY <1>1, <2>8 DEF Return, Inv, CursorInv
    <3> QED
      BY <3>4, <3>5, ReadsOn
  <2>9. CASE Here = Comma
    <3>1. Element(Next1, OnTop(f))
      BY <1>1, <2>9 DEF f
    <3>2. CASE Token(Next1) = End
      <4>1. failed' = TRUE /\ mode' = "value"
        BY <3>1, <3>2 DEF Element
      <4> QED
        BY <4>1, ReadsFailure
    <3>3. CASE Token(Next1) # End
      <4>1. PICK d \in Place : /\ d \in Nat /\ d < Len(t) /\ d + 1 \in Place
                               /\ Blank(t, Next1, d)
                               /\ Token(Next1) = t[d + 1] /\ AfterToken(Next1) = d + 1
                               /\ t[d + 1] \notin White
        BY <1>2, <3>3, TokenFound
      <4>2. i' = d /\ failed' = FALSE /\ stack' = OnTop(f) /\ mode' = "value"
        <5>1. (d + 1) - 1 = d
          BY <4>1
        <5> QED
          BY <3>1, <3>3, <4>1, <5>1 DEF Element, Inv, CursorInv
      <4>3. Starting(t, d, d)
        <5>1. d <= Len(t) /\ Blank(t, d, d)
          BY <1>2, <4>1 DEF Blank
        <5> QED
          BY <4>1, <5>1 DEF Starting
      <4>4. Opened(t, R, f, p[l], d)
        BY <2>3, <2>7, <2>9, <4>1 DEF Opened
      <4>5. \A s : s = OnTop(f) => ReadsValue(t, s, d)
        BY <1>1, <1>2, <2>1, <4>3, <4>4, GoOnReads DEF R
      <4> QED
        BY <4>2, <4>5, ReadsOn
    <3> QED
      BY <3>2, <3>3
  <2> QED
    BY <1>4, <2>8, <2>9
<1> QED
  BY <1>3, <1>4

(* and an object. *)
LEMMA ObjectGoesOnReads ==
  ASSUME Inv, ~failed, NEW t, t = str, Reads(t), ObjectGoesOn PROVE Reads(t)'
<1> DEFINE f == [Top EXCEPT !.of = Put(@, Top.key, result)]
           object == Value(f)
           R == Readings(t)[MaxDepth - Len(stack)]
           l == Len(stack)
           fr == stack[Len(stack)]
<1>1. /\ Returned /\ stack # <<>> /\ Top.type = "object"
      /\ Here = CloseBrace => Return(object, Next1, Below)
      /\ Here = Comma /\ Token(Next1) = Quote =>
           String("key", AfterToken(Next1), OnTop(f))
      /\ Here = Comma /\ Token(Next1) # Quote => Fail(AfterToken(Next1), Below)
      /\ Here # CloseBrace /\ Here # Comma => Fail(Next1, Below)
  BY Distinct DEF ObjectGoesOn, Returned
<1> HIDE DEF object
<1>2. /\ t \in Seq(Character) /\ IsStack(stack) /\ CursorInv /\ l \in Nat
      /\ i \in Place /\ Next1 \in Place /\ Len(t) \in Nat
  BY HereNow DEF Inv, CursorInv
<1>3. CASE \/ Here # CloseBrace /\ Here # Comma
           \/ Here = Comma /\ Token(Next1) # Quote
  <2>1. failed' = TRUE /\ mode' = "return" /\ result' = Null
    BY <1>1, <1>3 DEF Fail, FailWith
  <2> QED
    BY <2>1, ReadsFailure
<1>4. CASE Here = CloseBrace \/ (Here = Comma /\ Token(Next1) = Quote)
  <2>1. PICK p, y :
           /\ Blank(t, 0, p[1]) /\ Opens(t, MaxDepth, stack, p, l)
           /\ Opens(t, MaxDepth, stack, p, l - 1)
           /\ y \in R
           /\ y.from = p[l + 1] /\ y.to = i /\ y.val = result
           /\ Opened(t, R, fr, p[l], y.from)
           /\ Solid(t, R)
           /\ l <= MaxDepth
    BY <1>1, Returns
  <2>2. Here # End
    BY <1>4, Distinct
  <2>3. PICK b \in Place : /\ b \in Nat /\ b < Len(t) /\ b + 1 \in Place
                           /\ Blank(t, i, b)
                           /\ Here = t[b + 1] /\ Next1 = b + 1
                           /\ t[b + 1] \notin White
    BY <1>2, <2>2, TokenFound DEF Here, Next1
  <2>4. fr.type = "object" /\ f = [fr EXCEPT !.of = Put(@, fr.key, result)]
    BY <1>1 DEF Top
  <2> HIDE DEF fr, R, f
  <2>5. PICK c : \E q \in Quoted(t) :
                   /\ ObjectBegun(t, R, fr, p[l], c) /\ q.val = fr.key
                   /\ Blank(t, c + 1, q.from) /\ Colon(t, q.to, y.from)
    <3>1. \A c : ~ListBegun(t, R, fr, p[l], c)
      <4>1. ASSUME NEW c, ListBegun(t, R, fr, p[l], c) PROVE fr.type = "array"
        BY <4>1 DEF ListBegun
      <4> QED
        BY <2>4, <4>1
    <3> QED
      BY <2>1, <3>1 DEF Opened
  <2>6. PICK q \in Quoted(t) :
               /\ ObjectBegun(t, R, fr, p[l], c) /\ q.val = fr.key
               /\ Blank(t, c + 1, q.from) /\ Colon(t, q.to, y.from)
    BY <2>5
  <2>7. Blank(t, y.to, b)
    BY <2>1, <2>3
  <2>8. /\ t[b + 1] = Comma => ObjectBegun(t, R, f, p[l], b)
        /\ t[b + 1] = CloseBrace => Part(p[l], b + 1, Value(f)) \in Objects(t, R)
    BY ONLY <1>2, <2>1, <2>3, <2>4, <2>6, <2>7, ObjectAdds
  <2>9. CASE Here = CloseBrace
    <3>1. Part(p[l], Next1, object) \in Objects(t, R)
      BY <2>3, <2>8, <2>9 DEF object
    <3>2. /\ MaxDepth - (l - 1) \in Nat /\ MaxDepth - (l - 1) > 0 /\ l - 1 <= MaxDepth
          /\ (MaxDepth - (l - 1)) - 1 = MaxDepth - l
      <4>1. MaxDepth \in Nat
        BY JsonAssumption
      <4> HIDE DEF l
      <4> QED
        BY ONLY <1>2, <2>1, <4>1
    <3>3. Part(p[l], Next1, object) \in Readings(t)[MaxDepth - (l - 1)]
      <4>1. Nested(t, R) \subseteq Readings(t)[MaxDepth - (l - 1)]
        BY <3>2, LevelIn DEF R
      <4> QED
        BY <3>1, <4>1 DEF Nested
    <3>4. \A s : s = Below => ReadsReturn(t, s, Next1, object)
      BY <1>1, <1>2, <2>1, <3>2, <3>3, LeaveReads
    <3>5. /\ failed' = FALSE /\ mode' = "return"
          /\ stack' = Below /\ i' = Next1 /\ result' = object
      BY <1>1, <2>9 DEF Return, Inv, CursorInv
    <3> QED
      BY <3>4, <3>5, ReadsOn
  <2>10. CASE Here = Comma /\ Token(Next1) = Quote
    <3>1. PICK d \in Place : /\ d \in Nat /\ d < Len(t) /\ d + 1 \in Place
                             /\ Blank(t, Next1, d)
                             /\ Token(Next1) = t[d + 1] /\ AfterToken(Next1) = d + 1
                             /\ t[d + 1] \notin White
      BY <1>2, <2>10, TokenFound DEF Quote, End
    <3>2. /\ i' = d + 1 /\ failed' = FALSE /\ stack' = OnTop(f)
          /\ mode' = "key" /\ out' = <<>>
      BY <1>1, <2>10, <3>1 DEF String, Inv, CursorInv, f
    <3>3. Spelling(t, d, d + 1, <<>>)
      BY <2>10, <3>1, SpellingBegins
    <3>4. ObjectBegun(t, R, f, p[l], b) /\ Blank(t, b + 1, d)
      BY <2>3, <2>8, <2>10, <3>1
    <3>5. \A s : s = OnTop(f) => ReadsKey(t, s, d + 1, <<>>)
      BY <1>1, <1>2, <2>1, <3>3, <3>4, GoOnKeyReads DEF R
    <3> QED
      BY <3>2, <3>5, ReadsOn
  <2> QED
    BY <1>4, <2>9, <2>10
<1> QED
  BY <1>3, <1>4

(* The character at a place of the text, or its end. *)
LEMMA CharAt ==
  ASSUME CursorInv, NEW k \in Place
  PROVE  /\ k = Len(str) <=> At(k) = End
         /\ k < Len(str) => At(k) = str[k + 1] /\ str[k + 1] \in Character /\ k + 1 \in Place
<1>1. /\ k \in Nat /\ k <= Len(str) /\ Len(str) \in Nat
      /\ \A m \in 1 .. Len(str) : str[m] \in Character
  BY DEF CursorInv, Place
<1>2. End \notin Character
  BY Distinct DEF Character, Digit, Quote, Backslash, True, Control, End
<1>3. k < Len(str) => k + 1 \in 1 .. Len(str) /\ k + 1 \in Place
  BY <1>1 DEF Place
<1> HIDE DEF Character
<1> QED
  BY <1>1, <1>2, <1>3 DEF At

(* A string that cannot be read is broken, where it stands alone. *)
LEMMA StringFailsReads ==
  ASSUME Inv, NEW t, t = str, Reads(t), StringFails PROVE Reads(t)'
<1>1. /\ mode = "string" \/ mode = "key"
      /\ ~failed
  BY DEF StringFails, InString, Reads
<1>2. /\ i \in Nat /\ i <= Len(t) /\ Len(t) \in Nat /\ CursorInv /\ i \in Place
      /\ IsStack(stack) /\ t \in Seq(Character)
  BY DEF Inv, CursorInv, StackInv, Place
<1>3. CASE mode = "key"
  <2>1. failed' = TRUE /\ mode' = "return" /\ result' = Null
    BY <1>3 DEF StringFails, Unread, Fail, FailWith
  <2> QED
    BY <2>1, ReadsFailure
<1>4. CASE mode = "string"
  <2>1. failed' = TRUE /\ mode' = "return" /\ result' = EmptyString /\ stack' = stack
    BY <1>4 DEF StringFails, Unread, FailWith
  <2>2. Wrong(t, i, i') /\ i' \in Places(t)
    <3>1. /\ At(i) = End => i = Len(t)
          /\ At(i) # End => i < Len(t) /\ At(i) = t[i + 1] /\ i + 1 \in Place
      BY <1>2, CharAt
    <3>4. /\ i < Len(t) /\ At(i + 1) = End => i + 1 = Len(t)
          /\ i < Len(t) /\ At(i + 1) # End => i + 2 <= Len(t) /\ At(i + 1) = t[i + 2]
      <4>1. i < Len(t) => i + 1 \in Place
        BY <1>2 DEF Place
      <4>2. i + 1 \in Place => i + 1 <= Len(t) /\ (i + 1) + 1 = i + 2
        BY <1>2 DEF Place
      <4> QED
        BY <1>2, <4>1, <4>2, CharAt
    <3>2. Control # End /\ Backslash # End
      BY DEF Control, Backslash, End
    <3>3. \/ At(i) = End /\ i' = i
          \/ At(i) = Control /\ i' = i + 1
          \/ At(i) = Backslash /\ At(i + 1) = End /\ i' = i + 1
          \/ At(i) = Backslash /\ At(i + 1) \notin {Quote, Backslash, End} /\ i' = i + 2
      BY <1>4 DEF StringFails, Unread, FailWith
    <3> QED
      BY <1>2, <3>1, <3>2, <3>3, <3>4 DEF Wrong, Places
  <2>3. ErrorAt(t, stack, i', EmptyString)
    <3>1. SUFFICES ASSUME stack = <<>> PROVE BrokenAt(t, i')
      BY <2>2 DEF ErrorAt
    <3>2. PICK p : Blank(t, 0, p[1]) /\ Spelling(t, p[Len(stack) + 1], i, out)
      BY <1>1, <1>4 DEF Reads, ReadsString
    <3>3. Len(stack) + 1 = 1
      BY <3>1
    <3>4. Spelling(t, p[1], i, out)
      BY <3>2, <3>3
    <3>5. p[1] \in Marks(t, {Quote}) /\ Escapings(t, p[1] + 1, i) # {}
      BY <1>2, <3>4 DEF Spelling, Marks
    <3>6. i \in Places(t)
      BY <1>2 DEF Places
    <3> QED
      BY <2>2, <3>2, <3>5, <3>6 DEF BrokenAt
  <2> QED
    BY <2>1, <2>3 DEF Reads
<1> QED
  BY <1>1, <1>3, <1>4

(* After the value there are only blanks, or there is an error. *)
LEMMA EndReads ==
  ASSUME Inv, NEW t, t = str, Reads(t), ParseEnds PROVE Reads(t)'
<1>1. /\ mode = "return" /\ stack = <<>> /\ mode' = "done" /\ i' = PastAll(White, i)
      /\ failed' = (failed \/ i' # Len(str))
      /\ result' = IF i' # Len(str) THEN Null ELSE result
  BY DEF ParseEnds
<1>2. CursorInv /\ i \in Place /\ failed \in BOOLEAN
  BY DEF Inv, CursorInv
<1>3. CASE PastAll(White, i) # Len(str)
  BY <1>1, <1>3 DEF Reads, Error
<1>5. CASE failed /\ PastAll(White, i) = Len(str)
  <2>1. ErrorAt(t, stack, i, result) /\ result' = result /\ failed' = TRUE
    BY <1>1, <1>5 DEF Reads
  <2>2. Blank(t, i, Len(t))
    BY <1>2, <1>5, TokenIs
  <2>3. Error(t, result)
    BY <1>1, <2>1, <2>2 DEF ErrorAt, Error, Broken
  <2> QED
    BY <1>1, <2>1, <2>3 DEF Reads
<1>4. CASE ~failed /\ PastAll(White, i) = Len(str)
  <2>1. PICK p : /\ Blank(t, 0, p[1])
                 /\ Part(p[Len(stack) + 1], i, result) \in Readings(t)[MaxDepth - Len(stack)]
    BY <1>1, <1>4 DEF Reads, ReadsReturn
  <2> DEFINE x == Part(p[1], i, result)
  <2>2. x \in Readings(t)[MaxDepth]
    <3>1. Len(stack) + 1 = 1 /\ MaxDepth - Len(stack) = MaxDepth
      BY <1>1, JsonAssumption
    <3> QED
      BY <2>1, <3>1
  <2>3. x.from = p[1] /\ x.to = i /\ x.val = result
    BY PartIs
  <2> HIDE DEF x
  <2>4. Blank(t, i, Len(t))
    BY <1>2, <1>4, TokenIs
  <2>5. result \in Denoted(t, MaxDepth)
    BY <2>1, <2>2, <2>3, <2>4 DEF Denoted, Spaced
  <2>6. failed' = FALSE /\ result' = result
    BY <1>1, <1>4
  <2> QED
    BY <1>1, <2>5, <2>6 DEF Reads
<1> QED
  BY <1>2, <1>3, <1>4, <1>5

(* All that the parser has read stands in the text. *)
ReadInv == \A t : t = str => Reads(t)

(* Every step reads what is written. *)
LEMMA StepReads ==
  ASSUME Inv, ReadInv, Next PROVE ReadInv'
<1>1. UNCHANGED str /\ (failed = TRUE => failed' = TRUE) /\ failed \in BOOLEAN
  BY TextStays DEF Inv, CursorInv
<1>2. SUFFICES ASSUME NEW t, t = str PROVE Reads(t)'
  BY <1>1 DEF ReadInv
<1>3. Reads(t)
  BY <1>2 DEF ReadInv
<1>4. CASE ParseEnds
  BY <1>2, <1>3, <1>4, EndReads
<1>5. CASE ~ParseEnds /\ failed' = TRUE
  <2>1. CASE StringFails
    BY <1>2, <1>3, <2>1, StringFailsReads
  <2>2. CASE ParseTooDeep \/ ParseNothing \/ ReturnFailed
    BY <1>5, <2>2, ReadsFailure DEF ParseTooDeep, ParseNothing, ReturnFailed, Fail, FailWith
  <2>3. CASE ~failed /\ (\/ ParseNumber \/ ParseLiteral \/ ParseString \/ ParseList
                       \/ ParseObject \/ StringGoesOn \/ StringEnds \/ ListGoesOn
                       \/ ObjectGoesOn)
    BY <1>2, <1>3, <2>3, NumberReads, LiteralReads, StringReads, ListReads, ObjectReads,
       StringGoesOnReads, StringEndsReads, ListGoesOnReads, ObjectGoesOnReads
  <2>4. CASE failed /\ (\/ ParseNumber \/ ParseLiteral \/ ParseString \/ ParseList
                      \/ ParseObject \/ StringGoesOn \/ StringEnds \/ ListGoesOn
                      \/ ObjectGoesOn)
    BY <1>3, <2>4 DEF Reads, ParseNumber, ParseLiteral, ParseString, ParseList, ParseObject,
                      Starts, StringGoesOn, StringEnds, InString, ListGoesOn, ObjectGoesOn
  <2> QED
    BY <1>5, <2>1, <2>2, <2>3, <2>4 DEF Next
<1>6. CASE ~ParseEnds /\ failed' # TRUE
  <2>1. ~failed
    BY <1>1, <1>6
  <2>2. ~ParseTooDeep /\ ~ParseNothing /\ ~StringFails /\ ~ReturnFailed
    BY <1>6 DEF ParseTooDeep, ParseNothing, StringFails, Unread, ReturnFailed, Fail, FailWith
  <2> QED
    BY <1>2, <1>3, <1>6, <2>1, <2>2, NumberReads, LiteralReads, StringReads, ListReads,
       ObjectReads, StringGoesOnReads, StringEndsReads, ListGoesOnReads, ObjectGoesOnReads
       DEF Next
<1> QED
  BY <1>4, <1>5, <1>6

(* Nothing is read at first. *)
LEMMA InitReads ==
  ASSUME Inv, Init PROVE ReadInv
<1>1. i = 0 /\ failed = FALSE /\ stack = <<>> /\ mode = "value" /\ CursorInv /\ 0 \in Place
  BY DEF Init, Inv, CursorInv
<1>2. SUFFICES ASSUME NEW t, t = str PROVE Reads(t)
  BY DEF ReadInv
<1>3. PICK b : Starting(str, 0, b)
  BY <1>1, StartingThere
<1>4. ReadsValue(t, <<>>, 0)
  <2> DEFINE p == [j \in Nat |-> b]
  <2>1. p[1] = b /\ Len(<<>>) = 0 /\ p[0 + 1] = b
    OBVIOUS
  <2> HIDE DEF p
  <2>2. Blank(t, 0, p[1])
    BY <1>2, <1>3, <2>1 DEF Starting
  <2>3. Opens(t, MaxDepth, <<>>, p, 0)
    BY DEF Opens
  <2> QED
    BY <1>2, <1>3, <2>1, <2>2, <2>3 DEF ReadsValue
<1> QED
  BY <1>1, <1>4 DEF Reads

(* What is read is what is written. *)
LEMMA Reading == Spec => []ReadInv
<1>1. Inv /\ ReadInv /\ [Next]_vars => ReadInv'
  <2>1. ASSUME Inv, ReadInv, UNCHANGED vars PROVE ReadInv'
    BY <2>1 DEF ReadInv, vars, Reads
  <2> QED
    BY <2>1, StepReads
<1> QED
  BY <1>1, InitReads, Invariance, PTL DEF Spec

-----------------------------------------------------------------------------
(* Broken strings *)

(* t is a string from a on, with E escaped, that goes wrong between b and c. *)
Breaks(t, a, b, E, c) ==
  /\ a \in Marks(t, {Quote}) /\ b \in Places(t) /\ c \in Places(t)
  /\ Blank(t, 0, a) /\ E \in Escapings(t, a + 1, b)
  /\ Wrong(t, b, c) /\ Blank(t, c, Len(t))

(* The parser is before the string, in it and not between a backslash and   *)
(* what it escapes, or out of it with an empty string.                      *)
Breaking(a, b, E, c) ==
  /\ stack = <<>>
  /\ \/ mode = "value" /\ ~failed /\ i <= a
     \/ mode = "string" /\ ~failed /\ a + 1 <= i /\ i <= b /\ i - 1 \notin E
     \/ mode = "return" /\ failed /\ i = c /\ result = EmptyString
     \/ mode = "done" /\ failed /\ result = EmptyString

BreakInv == \A a, b, E, c : Breaks(str, a, b, E, c) => Breaking(a, b, E, c)

(* Where all this is. *)
LEMMA BreaksAt ==
  ASSUME Inv, NEW a, NEW b, NEW E, NEW c, Breaks(str, a, b, E, c)
  PROVE  /\ a \in Nat /\ b \in Nat /\ c \in Nat /\ a + 1 <= b
         /\ a \in Place /\ b \in Place /\ c \in Place /\ i \in Place /\ i \in Nat
         /\ b <= Len(str) /\ c <= Len(str) /\ i <= Len(str) /\ Len(str) \in Nat
         /\ a < Len(str) /\ str[a + 1] = Quote /\ a \notin E /\ CursorInv
<1>1. /\ str \in Seq(Character) /\ i \in Place /\ CursorInv /\ Len(str) \in Nat
  BY DEF Inv, CursorInv
<1>2. a \in 0 .. Len(str) - 1 /\ str[a + 1] = Quote
  BY DEF Breaks, Marks
<1>3. a + 1 <= b /\ \A k \in E : k \in a + 1 .. b - 1
  BY DEF Breaks, Escapings, IsEscaping
<1>4. b \in 0 .. Len(str) /\ c \in 0 .. Len(str)
  BY DEF Breaks, Places
<1>5. a \notin E
  <2>1. a \notin a + 1 .. b - 1
    BY <1>2
  <2> QED
    BY <1>3, <2>1
<1> HIDE DEF Breaks
<1> QED
  BY <1>1, <1>2, <1>3, <1>4, <1>5 DEF Place

(* The string is entered, *)
LEMMA ValueBreaks ==
  ASSUME Inv, Next, NEW a, NEW b, NEW E, NEW c, Breaks(str, a, b, E, c),
         stack = <<>>, mode = "value", ~failed, i <= a
  PROVE  Breaking(a, b, E, c)'
<1>1. /\ a \in Nat /\ a + 1 <= b /\ a \in Place /\ i \in Place /\ i \in Nat /\ a < Len(str)
      /\ str[a + 1] = Quote /\ a \notin E /\ CursorInv /\ Len(str) \in Nat
  BY BreaksAt
<1>2. PastAll(White, i) = a
  <2>1. \A m \in i + 1 .. a : str[m] \in White
    <3>1. \A m \in i + 1 .. a : m \in 0 + 1 .. a
      BY <1>1
    <3> QED
      BY <3>1 DEF Breaks, Blank
  <2>2. str[a + 1] \notin White
    BY <1>1 DEF Quote, White
  <2> QED
    BY <1>1, <2>1, <2>2, PastAllTo
<1>3. Here = Quote /\ Next1 = a + 1
  <2>1. At(a) = Quote
    BY <1>1, CharAt
  <2>2. a # Len(str)
    BY <1>1
  <2> QED
    BY <1>2, <2>1, <2>2 DEF Here, Next1, Token, AfterToken
<1>4. ~TooDeep
  BY JsonAssumption DEF TooDeep
<1>5. ParseString
  <2>1. /\ Quote \notin Digit \cup {"-"} /\ Quote # True /\ Quote # "[" /\ Quote # OpenBrace
    BY Chars DEF Quote, Digit, True, Plain
  <2> QED
    BY <1>3, <1>4, <2>1
       DEF Next, ParseTooDeep, ParseNothing, ParseNumber, ParseLiteral, ParseList,
           ParseObject, Starts, StringFails, StringGoesOn, StringEnds, InString,
           ReturnFailed, ListGoesOn, ObjectGoesOn, Returned, ParseEnds
<1>6. mode' = "string" /\ i' = a + 1 /\ stack' = <<>> /\ failed' = failed
  BY <1>3, <1>5 DEF ParseString, String
<1>7. (a + 1) - 1 = a
  BY <1>1
<1> QED
  BY <1>1, <1>6, <1>7 DEF Breaking

(* read to where it goes wrong, *)
LEMMA StringBreaks ==
  ASSUME Inv, Next, NEW a, NEW b, NEW E, NEW c, Breaks(str, a, b, E, c),
         stack = <<>>, mode = "string", ~failed, a + 1 <= i, i <= b, i - 1 \notin E
  PROVE  Breaking(a, b, E, c)'
<1>1. /\ a \in Nat /\ b \in Nat /\ c \in Nat /\ b \in Place /\ i \in Place /\ i \in Nat
      /\ b <= Len(str) /\ c <= Len(str) /\ CursorInv /\ Len(str) \in Nat
  BY BreaksAt
<1>2. StringFails \/ StringGoesOn \/ StringEnds
  BY DEF Next, ParseTooDeep, ParseNothing, ParseNumber, ParseLiteral, ParseString, ParseList,
         ParseObject, Starts, ReturnFailed, ListGoesOn, ObjectGoesOn, Returned, ParseEnds
<1>3. /\ End # Quote /\ End # Backslash /\ End # Control /\ Control # Quote
      /\ Control # Backslash /\ Quote # Backslash
  BY DEF End, Quote, Backslash, Control
<1>4. i < Len(str) => i + 1 \in Place /\ At(i) = str[i + 1] /\ At(i) # End
  BY <1>1, CharAt
<1>5. i + 1 < Len(str) => At(i + 1) = str[i + 2] /\ At(i + 1) # End
  <2>1. i + 1 < Len(str) => i + 1 \in Place
    BY <1>1 DEF Place
  <2>2. (i + 1) + 1 = i + 2
    BY <1>1
  <2> QED
    BY <1>1, <2>1, <2>2, CharAt
<1>6. CASE i < b
  <2>1. \/ /\ str[i + 1] = Backslash /\ str[i + 2] \in {Quote, Backslash}
           /\ i + 2 <= b /\ (i + 2) - 1 \notin E
        \/ str[i + 1] \notin {Quote, Backslash, Control} /\ (i + 1) - 1 \notin E
    <3>1. a + 1 \in Nat /\ E \in Escapings(str, a + 1, b)
      BY <1>1 DEF Breaks
    <3> QED
      BY <1>1, <1>6, <3>1, EscapeNext
  <2>2. i < Len(str)
    BY <1>1, <1>6
  <2>3. CASE str[i + 1] = Backslash
    <3>1. /\ str[i + 2] \in {Quote, Backslash} /\ i + 2 <= b /\ (i + 2) - 1 \notin E
          /\ i + 1 < Len(str)
      BY <1>1, <2>1, <2>3
    <3>2. i' = i + 2 /\ UNCHANGED <<stack, mode, failed>>
      BY <1>2, <1>3, <1>4, <1>5, <2>2, <2>3, <3>1 DEF StringFails, StringGoesOn, StringEnds
    <3>3. a + 1 <= i + 2
      BY <1>1
    <3> QED
      BY <3>1, <3>2, <3>3 DEF Breaking
  <2>4. CASE str[i + 1] # Backslash
    <3>1. str[i + 1] \notin {Quote, Backslash, Control} /\ (i + 1) - 1 \notin E
      BY <2>1, <2>4
    <3>2. i' = i + 1 /\ UNCHANGED <<stack, mode, failed>>
      BY <1>2, <1>3, <1>4, <2>2, <3>1 DEF StringFails, StringGoesOn, StringEnds
    <3>3. a + 1 <= i + 1 /\ i + 1 <= b
      BY <1>1, <1>6
    <3> QED
      BY <3>1, <3>2, <3>3 DEF Breaking
  <2> QED
    BY <2>3, <2>4
<1>7. CASE i = b
  <2>1. Wrong(str, i, c)
    BY <1>7 DEF Breaks
  <2>2. i = Len(str) => At(i) = End
    BY <1>1, CharAt
  <2>3. i + 1 = Len(str) => At(i + 1) = End
    <3>1. i + 1 = Len(str) => i + 1 \in Place
      BY <1>1 DEF Place
    <3> QED
      BY <1>1, <3>1, CharAt
  <2>4. \/ At(i) = End /\ c = i
        \/ At(i) = Control /\ c = i + 1
        \/ At(i) = Backslash /\ At(i + 1) = End /\ c = i + 1
        \/ At(i) = Backslash /\ At(i + 1) \notin {Quote, Backslash, End} /\ c = i + 2
    <3>1. CASE i = Len(str)
      BY <1>1, <2>1, <2>2, <3>1 DEF Wrong
    <3>2. CASE i < Len(str) /\ str[i + 1] = Control /\ c = i + 1
      BY <1>4, <3>2
    <3>3. CASE i < Len(str) /\ str[i + 1] = Backslash /\ c = i + 1 /\ c = Len(str)
      BY <1>4, <2>3, <3>3
    <3>4. CASE i < Len(str) /\ str[i + 1] = Backslash /\ c = i + 2
               /\ str[c] \notin {Quote, Backslash}
      <4>1. i + 1 < Len(str)
        BY <1>1, <3>4
      <4> QED
        BY <1>4, <1>5, <3>4, <4>1
    <3> QED
      BY <1>1, <1>7, <2>1, <3>1, <3>2, <3>3, <3>4 DEF Wrong
  <2>5. /\ failed' = TRUE /\ mode' = "return" /\ result' = EmptyString /\ stack' = stack
        /\ i' = c
    <3>1. End \notin Character
      BY Distinct DEF Character, Digit, Quote, Backslash, True, Control, End
    <3>2. StringFails
      BY <1>2, <1>3, <2>4, <3>1 DEF StringGoesOn, StringEnds
    <3> QED
      BY <1>3, <2>4, <3>2 DEF StringFails, Unread, FailWith
  <2> QED
    BY <2>5 DEF Breaking
<1> QED
  BY <1>1, <1>6, <1>7

(* and left, after which there is nothing else. *)
LEMMA StepBreaks ==
  ASSUME Inv, BreakInv, Next PROVE BreakInv'
<1>1. UNCHANGED str
  BY TextStays
<1>2. SUFFICES ASSUME NEW a, NEW b, NEW E, NEW c, Breaks(str, a, b, E, c)
               PROVE  Breaking(a, b, E, c)'
  BY <1>1 DEF BreakInv, Breaks, Breaking
<1>3. Breaking(a, b, E, c)
  BY <1>2 DEF BreakInv
<1>4. CASE mode = "value"
  BY <1>2, <1>3, <1>4, ValueBreaks DEF Breaking
<1>5. CASE mode = "string"
  BY <1>2, <1>3, <1>5, StringBreaks DEF Breaking
<1>6. CASE mode = "return" /\ failed /\ i = c /\ result = EmptyString /\ stack = <<>>
  <2>1. ParseEnds
    BY <1>6 DEF Next, ParseTooDeep, ParseNothing, ParseNumber, ParseLiteral, ParseString,
                ParseList, ParseObject, Starts, StringFails, StringGoesOn, StringEnds,
                InString, ReturnFailed, ListGoesOn, ObjectGoesOn, Returned
  <2>2. /\ CursorInv /\ c \in Place /\ Len(str) \in Nat /\ c <= Len(str) /\ c \in Nat
        /\ Len(str) \in Place
    BY <1>2, BreaksAt DEF Place
  <2>3. \A m \in c + 1 .. Len(str) : str[m] \in White
    BY <1>2 DEF Breaks, Blank
  <2>4. PastAll(White, c) = Len(str)
    BY <2>2, <2>3, PastAllTo
  <2> QED
    BY <1>6, <2>1, <2>4 DEF ParseEnds, Breaking
<1>7. CASE mode = "done"
  BY <1>7 DEF Next, ParseTooDeep, ParseNothing, ParseNumber, ParseLiteral, ParseString,
              ParseList, ParseObject, Starts, StringFails, StringGoesOn, StringEnds,
              InString, ReturnFailed, ListGoesOn, ObjectGoesOn, Returned, ParseEnds
<1> QED
  BY <1>3, <1>4, <1>5, <1>6, <1>7 DEF Breaking

(* A string that is broken and alone is read as an empty one. *)
LEMMA BrokenAlone == Spec => []BreakInv
<1>1. ASSUME Inv, Init PROVE BreakInv
  <2>1. SUFFICES ASSUME NEW a, NEW b, NEW E, NEW c, Breaks(str, a, b, E, c)
                 PROVE  Breaking(a, b, E, c)
    BY DEF BreakInv
  <2>2. a \in Nat
    BY <1>1, <2>1, BreaksAt
  <2> QED
    BY <1>1, <2>2 DEF Init, Breaking
<1>2. Inv /\ BreakInv /\ [Next]_vars => BreakInv'
  <2>1. ASSUME BreakInv, UNCHANGED vars PROVE BreakInv'
    BY <2>1 DEF BreakInv, Breaks, Breaking, vars
  <2> QED
    BY <2>1, StepBreaks
<1> QED
  BY <1>1, <1>2, Invariance, PTL DEF Spec

-----------------------------------------------------------------------------
(* A text that is JSON is read as what it denotes; of any other there is an *)
(* error, and with it an empty string if it is a broken one, and else a     *)
(* null.                                                                    *)
THEOREM TextsAreRead == Spec => []ReadsWhatIsWritten
<1>1. Inv /\ FollowInv /\ ReadInv /\ BreakInv => ReadsWhatIsWritten
  <2>1. SUFFICES ASSUME Inv, FollowInv, ReadInv, BreakInv, mode = "done"
                 PROVE  IF Denoted(str, MaxDepth) = {}
                        THEN failed /\ result = IF Broken(str) THEN EmptyString ELSE Null
                        ELSE ~failed /\ Denoted(str, MaxDepth) = {result}
    BY DEF ReadsWhatIsWritten
  <2>2. failed \in BOOLEAN /\ MaxDepth \in Nat /\ ~Cut(str) /\ Begins(str)
    BY <2>1, JsonAssumption DEF Inv, CursorInv, Cut, Begins
  <2>3. /\ failed => Error(str, result)
        /\ ~failed => result \in Denoted(str, MaxDepth)
    BY <2>1 DEF ReadInv, Reads
  <2>4. ASSUME NEW v \in Denoted(str, MaxDepth) PROVE ~failed /\ v = result
    <3>1. PICK x \in Readings(str)[MaxDepth] : v = x.val /\ Spaced(str, x, 0, Len(str))
      BY DEF Denoted
    <3>2. Wanted(str, MaxDepth, x)
      BY <2>2, <3>1 DEF Wanted
    <3>3. Follows(str, MaxDepth, x)
      BY <2>1, <2>2, <3>2 DEF FollowInv
    <3>4. ~failed
      BY <2>2, <3>3 DEF Follows
    <3> QED
      BY <2>1, <2>2, <3>1, <3>3, <3>4 DEF Follows, DoneAt
  <2>5. Broken(str) => result = EmptyString
    <3>1. SUFFICES ASSUME Broken(str) PROVE result = EmptyString
      OBVIOUS
    <3>2. PICK a, b, E, c : Breaks(str, a, b, E, c)
      BY <3>1 DEF Broken, BrokenAt, Breaks
    <3> QED
      BY <2>1, <3>2 DEF BreakInv, Breaking
  <2>6. CASE Denoted(str, MaxDepth) = {}
    BY <2>2, <2>3, <2>5, <2>6 DEF Error
  <2>7. CASE Denoted(str, MaxDepth) # {}
    BY <2>3, <2>4, <2>7
  <2> QED
    BY <2>6, <2>7
<1> QED
  BY <1>1, Following, Reading, BrokenAlone, Invariance, PTL
=============================================================================
