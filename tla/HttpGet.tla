------------------------------ MODULE HttpGet ------------------------------
(***************************************************************************)
(* One cpr::Get (src/cpr--session.cpp): libcurl sends the request, the     *)
(* reply's status line and headers come back, then its body in pieces, and *)
(* a single timer runs over all of it. cpr never looks at the result of    *)
(* curl_easy_perform: the caller gets whatever status and text there is.   *)
(***************************************************************************)
EXTENDS Integers

CONSTANTS
  Empty,      \* the text "", also the body of a reply that has none
  Truncated,  \* a proper, non-empty prefix of a body
  Pieces,     \* how many pieces a body arrives in
  Timeout     \* cpr::Timeout in ticks

ASSUME HttpAssumption ==
  /\ Pieces \in Nat \ {0}
  /\ Timeout \in Nat \ {0}

VARIABLES
  phase,  \* "idle", "sent", "body", "done", or "threw" out of parseHeader
  code,   \* CURLINFO_RESPONSE_CODE, 0 while there is no status line
  body,   \* what the server is sending
  odd,    \* a header the parser cannot take was among the reply's
  got,    \* the pieces of it that writeFunction has appended
  clock   \* ticks since the request began

httpVars == <<phase, code, body, odd, got, clock>>

InFlight == phase \in {"sent", "body"}
Finished == phase \in {"done", "threw"}

\* Response::text
Text == CASE got = 0 \/ body = Empty -> Empty
          [] got \in 1 .. Pieces - 1 /\ body # Empty -> Truncated
          [] got = Pieces /\ body # Empty -> body

HttpInit == phase = "idle" /\ code = 0 /\ body = Empty /\ odd = FALSE
            /\ got = 0 /\ clock = 0

Send == /\ ~InFlight
        /\ phase' = "sent" /\ code' = 0 /\ body' = Empty /\ odd' = FALSE
        /\ got' = 0 /\ clock' = 0

\* The status line and the headers.
Respond(status, doc, strange) ==
  /\ phase = "sent"
  /\ phase' = "body" /\ code' = status /\ body' = doc /\ odd' = strange
  /\ UNCHANGED <<got, clock>>

Receive == /\ phase = "body" /\ got < Pieces
           /\ got' = got + 1
           /\ UNCHANGED <<phase, code, body, odd, clock>>

\* curl_easy_perform is over: makeRequest parses the headers it has.
End == /\ phase' = IF odd THEN "threw" ELSE "done"
       /\ UNCHANGED <<code, body, odd, got, clock>>

\* The reply is complete, or the connection was refused, reset or closed
\* early: it makes no difference to the caller.
Cease == InFlight /\ End

\* Faulty: one tick too many.
TickLate == /\ InFlight /\ clock <= Timeout
            /\ clock' = clock + 1
            /\ UNCHANGED <<phase, code, body, odd, got>>

Tick == /\ InFlight /\ clock < Timeout
        /\ clock' = clock + 1
        /\ UNCHANGED <<phase, code, body, odd, got>>

\* Faulty: the timer is set for the connection alone.
ExpireConnecting == phase = "sent" /\ clock = Timeout /\ End

\* CURLOPT_TIMEOUT_MS: the whole request, its reply included.
Expire == InFlight /\ clock = Timeout /\ End

=============================================================================
