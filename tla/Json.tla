--------------------------------- MODULE Json ---------------------------------
(***************************************************************************)
(* JsonParser of json11 (src/json11--json11.cpp 333-670), which every      *)
(* answer of consul goes through: recursive descent over a text, here with *)
(* the calls of parse_json() on an explicit stack.  A step is a call, a    *)
(* return, or a character of a string.                                     *)
(*                                                                         *)
(* get_next_token() at the end of the text flags an error and does not     *)
(* move; the loop over a list takes a character back whether one was read  *)
(* or not; an error is noticed only where "failed" is tested.  The text    *)
(* may be cut: what arrived is then the beginning of what was sent.        *)
(*                                                                         *)
(* A character stands for its class: TRUE_, for the three literals, is one *)
(* character, and of the escapes there are those of a quote and of a       *)
(* backslash.                                                              *)
(***************************************************************************)
EXTENDS Integers, Sequences

CONSTANTS
  Documents,  \* the texts that are sent
  MaxDepth    \* max_depth

White == {" "}
Digit == {"0", "1"}
Quote == "q"
Backslash == "\\"
True == "t"
Control == "c"
Comma == ","
OpenBrace == "{"
CloseBrace == "}"
Character == White \cup Digit \cup
  {Quote, Backslash, True, Control, Comma, OpenBrace, CloseBrace} \cup
  {"-", ".", "e", "[", "]", ":"}

ASSUME JsonAssumption ==
  /\ Documents \subseteq Seq(Character)
  /\ MaxDepth \in Nat

VARIABLES
  sent,    \* the text that was sent
  str,     \* the text that arrived
  i,       \* the cursor
  failed,
  stack,   \* the lists and objects being read; its length is the depth
  mode,    \* what runs: parse_json ("value"), parse_string ("string" for a
           \* value, "key"), what follows a "return", or nothing ("done")
  out,     \* the characters of the string so far
  result   \* what the last parse_json() returned

vars == <<sent, str, i, failed, stack, mode, out, result>>

Null == [type |-> "null", of |-> <<>>]
EmptyString == [type |-> "string", of |-> <<>>]

Init ==
  /\ sent \in Documents
  /\ \E n \in 0 .. Len(sent) : str = SubSeq(sent, 1, n)
  /\ i = 0 /\ failed = FALSE /\ stack = <<>>
  /\ mode = "value" /\ out = <<>> /\ result = Null

-----------------------------------------------------------------------------
(* Reading characters *)

\* str[k]: one past the last character is a NUL.
End == "NUL"
At(k) == IF k < Len(str) THEN str[k + 1] ELSE End

\* Where the characters of S that begin at k end.
PastAll(S, k) ==
  CHOOSE j \in k .. Len(str) : /\ \A m \in k + 1 .. j : str[m] \in S
                               /\ j = Len(str) \/ str[j + 1] \notin S

\* get_next_token() from k on: the character, and the cursor after it.
Token(k) == At(PastAll(White, k))

\* Faulty: the cursor moves past the end.
AfterTokenAlways(k) == PastAll(White, k) + 1

AfterToken(k) ==
  LET p == PastAll(White, k) IN IF p = Len(str) THEN p ELSE p + 1

\* parse_number() from k on: where the number ends, or -1 if it is none.
Whole(k) ==
  LET s == IF At(k) = "-" THEN k + 1 ELSE k IN
  CASE At(s) = "0" /\ At(s + 1) \notin Digit -> s + 1
    [] At(s) \in Digit \ {"0"} -> PastAll(Digit, s)
    [] OTHER -> -1

Digits(k) == IF At(k) \in Digit THEN PastAll(Digit, k) ELSE -1

Fraction(k) == IF k # -1 /\ At(k) = "." THEN Digits(k + 1) ELSE k

Exponent(k) ==
  IF k # -1 /\ At(k) = "e"
  THEN Digits(IF At(k + 1) = "-" THEN k + 2 ELSE k + 1)
  ELSE k

\* Faulty: the digits after a dot or an exponent may be none.
NumberEndLoose(k) ==
  LET e == Whole(k) IN
  IF e # -1 /\ At(e) \in {".", "e"} THEN PastAll(Digit, e + 1) ELSE e

NumberEnd(k) == Exponent(Fraction(Whole(k)))

-----------------------------------------------------------------------------
(* Calls and returns *)

\* Return v to the caller, whose list or object is on top of s.
Return(v, k, s) ==
  /\ result' = v /\ i' = k /\ stack' = s /\ mode' = "return"
  /\ UNCHANGED <<sent, str, failed, out>>

FailWith(v, k, s) ==
  /\ failed' = TRUE
  /\ result' = v /\ i' = k /\ stack' = s /\ mode' = "return"
  /\ UNCHANGED <<sent, str, out>>

Fail(k, s) == FailWith(Null, k, s)

\* The next element of a list: its first character is read and put back.  At
\* the end of the text it is the one before that is put back.
Element(k, s) ==
  /\ i' = AfterToken(k) - 1
  /\ failed' = (failed \/ Token(k) = End)
  /\ stack' = s /\ mode' = "value"
  /\ UNCHANGED <<sent, str, out, result>>

\* A key of an object, or a string, that begins at k.
String(m, k, s) ==
  /\ i' = k /\ stack' = s /\ mode' = m /\ out' = <<>>
  /\ UNCHANGED <<sent, str, failed, result>>

Top == stack[Len(stack)]
Below == SubSeq(stack, 1, Len(stack) - 1)
OnTop(f) == [stack EXCEPT ![Len(stack)] = f]
List == [type |-> "array", of |-> <<>>, key |-> <<>>]
Object == [type |-> "object", of |-> [k \in {} |-> Null], key |-> <<>>]
Value(f) == [type |-> f.type, of |-> f.of]

\* The members m, and v under the name k.
Put(m, k, v) == [n \in DOMAIN m \cup {k} |-> IF n = k THEN v ELSE m[n]]

\* Faulty: the outermost value counts for nothing.
TooDeepByOne == Len(stack) > MaxDepth + 1

TooDeep == Len(stack) > MaxDepth

Here == Token(i)
Next1 == AfterToken(i)

ParseTooDeep == mode = "value" /\ TooDeep /\ Fail(i, stack)

ParseNothing ==
  /\ mode = "value" /\ ~TooDeep
  /\ failed \/ Here \notin Digit \cup {"-", True, Quote, OpenBrace, "["}
  /\ Fail(Next1, stack)

Starts(S) == mode = "value" /\ ~TooDeep /\ ~failed /\ Here \in S

\* What is no number leaves the cursor somewhere in it; Next1 stands for that.
ParseNumber ==
  /\ Starts(Digit \cup {"-"})
  /\ LET e == NumberEnd(Next1 - 1) IN
     IF e = -1 THEN Fail(Next1, stack)
     ELSE Return([type |-> "number", of |-> SubSeq(str, Next1, e)], e, stack)

ParseLiteral ==
  Starts({True}) /\ Return([type |-> "literal", of |-> <<True>>], Next1, stack)

ParseString == Starts({Quote}) /\ String("string", Next1, stack)

ParseList ==
  /\ Starts({"["})
  /\ IF Token(Next1) = "]" THEN Return(Value(List), AfterToken(Next1), stack)
     ELSE Element(Next1, Append(stack, List))

ParseObject ==
  /\ Starts({OpenBrace})
  /\ CASE Token(Next1) = CloseBrace ->
            Return(Value(Object), AfterToken(Next1), stack)
       [] Token(Next1) = Quote ->
            String("key", AfterToken(Next1), Append(stack, Object))
       [] OTHER -> Fail(AfterToken(Next1), stack)

-----------------------------------------------------------------------------
(* parse_string(), one character at a time *)

InString == mode \in {"string", "key"}

\* The string cannot be read, and nor can the object it is a key of.  What
\* parse_string() returns for a value is returned without looking at "failed".
Unread(k) ==
  IF mode = "key" THEN Fail(k, Below) ELSE FailWith(EmptyString, k, stack)

StringFails ==
  /\ InString
  /\ \/ At(i) = End /\ Unread(i)
     \/ At(i) = Control /\ Unread(i + 1)
     \/ At(i) = Backslash /\ At(i + 1) = End /\ Unread(i + 1)
     \/ At(i) = Backslash /\ At(i + 1) \notin {Quote, Backslash, End} /\ Unread(i + 2)

StringGoesOn ==
  /\ InString
  /\ \/ /\ At(i) \in Character \ {Quote, Control, Backslash}
        /\ out' = Append(out, At(i)) /\ i' = i + 1
     \/ /\ At(i) = Backslash /\ At(i + 1) \in {Quote, Backslash}
        /\ out' = Append(out, At(i + 1)) /\ i' = i + 2
  /\ UNCHANGED <<sent, str, failed, stack, mode, result>>

\* A key is followed by a colon and the value of the member.
StringEnds ==
  /\ InString /\ At(i) = Quote
  /\ CASE mode = "string" ->
            Return([type |-> "string", of |-> out], i + 1, stack)
       [] mode = "key" /\ Token(i + 1) = ":" ->
            /\ i' = AfterToken(i + 1) /\ mode' = "value"
            /\ stack' = OnTop([Top EXCEPT !.key = out])
            /\ UNCHANGED <<sent, str, failed, out, result>>
       [] OTHER -> Fail(AfterToken(i + 1), Below)

-----------------------------------------------------------------------------
(* What follows the return of a parse_json() *)

Returned == mode = "return" /\ stack # <<>>

\* Faulty: an element that could not be read is read again.
ReturnFailedAgain ==
  /\ Returned /\ failed
  /\ mode' = "value" /\ UNCHANGED <<sent, str, i, failed, stack, out, result>>

ReturnFailed == Returned /\ failed /\ Fail(i, Below)

\* Faulty: the end of the text ends a list.
ListGoesOnToEnd ==
  /\ Returned /\ ~failed /\ Top.type = "array"
  /\ LET f == [Top EXCEPT !.of = Append(@, result)] IN
     CASE Here \in {"]", End} -> Return(Value(f), Next1, Below)
       [] Here = Comma -> Element(Next1, OnTop(f))
       [] OTHER -> Fail(Next1, Below)

ListGoesOn ==
  /\ Returned /\ ~failed /\ Top.type = "array"
  /\ LET f == [Top EXCEPT !.of = Append(@, result)] IN
     CASE Here = "]" -> Return(Value(f), Next1, Below)
       [] Here = Comma -> Element(Next1, OnTop(f))
       [] OTHER -> Fail(Next1, Below)

\* The last of the members of a name counts.
ObjectGoesOn ==
  /\ Returned /\ ~failed /\ Top.type = "object"
  /\ LET f == [Top EXCEPT !.of = Put(@, Top.key, result)] IN
     CASE Here = CloseBrace -> Return(Value(f), Next1, Below)
       [] Here = Comma /\ Token(Next1) = Quote ->
            String("key", AfterToken(Next1), OnTop(f))
       [] Here = Comma /\ Token(Next1) # Quote -> Fail(AfterToken(Next1), Below)
       [] OTHER -> Fail(Next1, Below)

\* Json::parse() looks for trailing garbage, for which there is a null; what
\* else parse_json() returned is the result, also after an error.
ParseEnds ==
  /\ mode = "return" /\ stack = <<>>
  /\ mode' = "done" /\ i' = PastAll(White, i)
  /\ failed' = (failed \/ i' # Len(str))
  /\ result' = IF i' # Len(str) THEN Null ELSE result
  /\ UNCHANGED <<sent, str, stack, out>>

Next ==
  \/ ParseTooDeep \/ ParseNothing \/ ParseNumber \/ ParseLiteral \/ ParseString
  \/ ParseList \/ ParseObject
  \/ StringFails \/ StringGoesOn \/ StringEnds
  \/ ReturnFailed \/ ListGoesOn \/ ObjectGoesOn \/ ParseEnds

Spec == Init /\ [][Next]_vars /\ WF_vars(Next)

-----------------------------------------------------------------------------
(* Properties *)

\* The parser comes to an end, on every text.
ParsingEnds == <>(mode = "done")

Mode == {"value", "string", "key", "return", "done"}

\* The cursor, which is unsigned and goes back as well as forth, stays in the
\* text or right after it, whatever the text and wherever it ends (json11.cpp
\* 372-377 and 639), and the recursion goes no deeper than the limit.
CursorInText == i \in 0 .. Len(str) /\ mode \in Mode /\ failed \in BOOLEAN

StackBounded == Len(stack) <= MaxDepth + 1

=============================================================================
