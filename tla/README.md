# pg_consul in TLA+

pg_consul is a PostgreSQL extension that lets SQL ask a local
[consul](https://www.consul.io/) agent: ping it, list the raft leader and the
raft peers, read keys.  The repository also builds two command-line tools over
the same classes, `consul-kv` and `consul-status`.  This directory holds TLA+
modules that model that code, TLC configurations that check them on small
instances, and proofs for TLAPS about them for instances of any size.

Paths below are relative to the root of the repository.

## 1. The system

2916 files, of which nearly all are a vendored Boost, TCLAP and easylogging++.
The program's own code is `src/pg_consul.cpp`, `include/consul/*.hpp`,
`playground/*.cpp` and `sql/`; `src/cpr--*.cpp`, `src/json11--json11.cpp` and
`src/b64--*.cpp` are small vendored libraries whose behaviour decides what the
program does.

| component | where | state | operations | modules |
|---|---|---|---|---|
| Agent | `include/consul/agent.hpp` | host, port, timeout, five memoised URLs | setters (the first two forget the URLs), URL getters (which memoise) | `Agent` |
| Settings | `src/pg_consul.cpp` 134-196, 638-716 | `consul.agent_host`, `agent_port`, `agent_timeout` in PostgreSQL's GUC tables, copied into the global `pgConsulAgent` | `_PG_init`, check/assign/show hooks | `Guc`, `ConfigSession`, `Session` |
| SQL functions as requests | `src/pg_consul.cpp` 198-630 | none of their own | ping, ping(host, port), status_leader, status_peers, kv_get | `Session`, `StatusCalls` |
| HTTP client | `src/cpr--session.cpp`, `src/cpr--util.cpp` | one curl transfer | `Get`, with one timer over the whole transfer | `HttpGet` |
| Raft status | `include/consul/peer.hpp`, `peers.hpp` | a leader, a list of peers with a leader bit | parse, compare | `StatusView`, `StatusCalls` |
| Set-returning protocol | `src/pg_consul.cpp` 236-435, 477-630 | `FuncCallContext` (PostgreSQL's), `ConsulKVFctx`/`ConsulPeersFctx` (C++) | first call, next call, last call, error, rescan | `RowStream`, `SetReturning` |
| Base64 codec | `src/b64--*.cpp`, `include/b64/*.hpp` | a half-built byte or symbol, characters on the line | encode/decode a block | `Base64` |
| KVPair(s) | `include/consul/kv_pair.hpp`, `kv_pairs.hpp` | the fields of a key | `InitFromJson`, the strings of a row, `valueEncoded` | `KvPair`, `KvGet`, `Base64` |
| consul-kv | `playground/consul_kv.cpp` | position in its list of keys | GET, PUT, DELETE with cas, locks and recurse | `KvStore`, `ConsulKv` |
| consul-status | `playground/consul_status.cpp` | the sections still to print | asks for leader, peers and itself, and prints | `StatusCalls` |
| JSON parser | `src/json11--json11.cpp` | a text, a cursor, an error flag, the recursion | `parse` | `Json`, `JsonText` |
| SQL script | `sql/pg_consul.sql` | none | declares the functions and their columns | call kinds in `SetReturning`, `Column` in `KvPair` |

How they interact.  PostgreSQL drives everything: it loads the module in the
first call of one of its functions, calls the hooks whenever a setting changes
(by SET, by an error, by the end of a transaction, by the loading itself), and
calls the set-returning functions once per row.  The functions take a URL and a
timeout from the global agent, make a blocking HTTP request, parse the answer
into the C++ objects and return rows.  There are no threads: what is concurrent
is PostgreSQL's calling order, the agent and its raft cluster on the other side
of the connection, other clients of the store, and, for the tools, several runs
of them.

What is hard, and what has to be right:

* **Settings.**  The same value lives in three places: PostgreSQL's variable
  (with the stack of values a transaction would bring back), the agent, and the
  URLs the agent has memoised.  Every path on which one changes has to reach the
  others.  Values set before the module is loaded were checked by nobody.
  Correct means: requests go where the settings in force say, and always with a
  timeout.
* **Requests.**  cpr ignores the result of `curl_easy_perform`; a reply that
  broke off looks like a reply.  `status_peers` asks twice and joins the
  answers, while the cluster changes.  Correct means: what is returned was true
  at some moment of the call, and the call returns.
* **Set-returning protocol.**  PostgreSQL counts calls, the code counts rows,
  and the C++ object lives in memory PostgreSQL may drop at any time, without a
  destructor.  Correct means: a scan hands out one answer, whole, in order, once;
  the object is not used or destroyed twice.
* **Base64.**  Both coders are coroutines that may be cut at any symbol.
* **consul-kv.**  A request that timed out may still be carried out, while its
  retry, or a rival, is on its way.  Correct means: what the tool prints is true
  of the store; cas and locks do what they are for.
* **Keys as rows.**  A number of a key goes through a double, an `int`, a
  `uint64_t` and a decimal string into an `INT8`; a value goes through a C string.
  Correct means: a row tells of its key what its columns say, or there is no row.
* **JSON.**  A reply that broke off reaches the parser as if it were whole.  The
  cursor goes back as well as forth, past the end there is nothing, and the
  recursion runs on the backend's stack.  Correct means: what is JSON is read as
  what it denotes, what is not is an error, and nothing of it is returned, and the
  bounds hold on any text.

The 40 places where this bites are listed, with their lines, under
"hazards" in `PROJECT.json`.

## 2. The modules and the code

```
Agent <- Guc <- ConfigSession <- Session <- MCSession        Session <- SessionProofs
HttpGet <- StatusCalls <- MCStatusCalls                      StatusCalls <- StatusCallsProofs
           StatusCalls -- INSTANCE --> StatusView
RowStream <- SetReturning, KvPair <- KvGet <- MCSetReturning SetReturning <- SetReturningProofs
                                                             KvGet, SetReturningProofs <- KvGetProofs
Json <- JsonText <- MCJson                                   JsonText <- JsonProofs
Base64 <- MCBase64                                           Base64 <- Base64Proofs
KvStore <- ConsulKv <- MCConsulKv                            ConsulKv <- ConsulKvProofs
LeastNumber <- KvGetProofs, JsonProofs, StatusCallsProofs
```
(`A <- B`: B extends A.)  `ConfigSession`, `RowStream` and `StatusView` are the
abstract specifications; `Session`, `SetReturning` and `StatusCalls` implement
them.  For the first two the refinement mapping is the identity: the abstract
variables are variables of the detailed module too, under the same names.
`StatusCalls` instantiates `StatusView WITH seenLeader <- SeenLeader, seenPeers <-
SeenPeers`: what a call has seen of the cluster is the body of the answer under
way, also before any of it has arrived, and afterwards what the call holds on to.
Operators marked "Faulty" in a comment are variants of the operator below them
with a plausible bug in it; no specification uses them.  They are there to see
that the properties notice.

**Agent** is `consul::Agent` as a record, every method an operator from agents
to agents.  `std::uint16_t` is kept: `Narrow` is the conversion from `int`.

**Guc** is how PostgreSQL treats the three variables: the value in force, the
stack entry of the transaction (`SET`, `LOCAL`, `SET_LOCAL` with a masked
value), placeholders before loading, and what `DefineCustom*Variable` does with
them (`reapply_stacked_values`: the values are put to the check hook, oldest
first).  PostgreSQL is not in the repository, and these definitions are marked
external except where the code supplies the defaults, the ranges and the check.
Transactions have one level: no savepoints and no function SET clauses.

**ConfigSession** is the promise: a backend that has settings and nothing else,
and sends each request from what is in force at that moment.

**Session** adds what the code really has: the global agent, the assign hooks
(`AssignHook`), the memoised URLs, SHOW through the show hooks, and one action
per SQL function for the requests it makes.  `Load` is `_PG_init`.  `Set`,
`SetRefused`, `CommitBlock` and `RollbackBlock` run the hooks of what changed.
`OverRead` is what `ping(host, port)` may read for its host: the code reads a
`text` datum as a C string, past its end.

**HttpGet** is one transfer: sent, status line and headers, body in pieces, end.
`Cease` ends it at any point (complete, refused, reset), `Expire` when the timer
fires, and `End` throws if a header has no value (`cpr--util.cpp:31`).
**StatusCalls** runs ping, status_leader and status_peers over it, one action per
piece of code between two requests, against a cluster that elects (`Elect`) and
changes (`ChangePeers`) at any time, and `consul-status`, which is four actions:
the answer for a section fails the tool (`ToolFails`) or is printed
(`ToolPrints`), then the next one is asked for (`ToolGoesOn`) or the tool exits
(`ToolEnds`).  An agent may answer with the right document, another one, no JSON
or nothing.  **StatusView** is the promise: each call looks at the leader at one
moment and at the peers at one moment, and returns what it saw; in `status_peers`
the leader's moment is the earlier one, and the two need not agree.

**RowStream** says what a query may see of a set-returning function;
**SetReturning** models each call of `consul_kv_get` and `consul_status_peers` as
one action: the first call (`Refuse`, `ReturnNull`, `AskFails`, `AskTooMany`,
`AskAndReturn`), later ones (`NextCall`), and in each of them the row
(`ReturnNext`), the row the type input functions refuse (`RowError`), and the end
(`ReturnDone`), which destroys the object.  `object` follows the life of the C++
object behind the context; "lost" is an object whose memory PostgreSQL dropped.
The executor (`Begin`, `Leave`, `Cancel`, the order of calls) is external and
that of PostgreSQL 9.4/9.5, for which the extension was written: there a function
in FROM that is not declared SETOF, as `consul_kv_get` is not, may still return
several rows.  `status_peers`'s two requests are one answer here; StatusCalls has
them apart.

**KvPair** is what becomes of one object of an answer: `Pair` is
`KVPair::InitFromJson`, `Values` the strings put into a row, `Fits` whether the
input function of `INT8` takes them.  The widths are constants (`IntLimit`,
`LongLimit`), and so is what the conversion of a double to `int` gives for one
that is too large, which C++ leaves open: INT_MIN on x86-64, INT_MAX on arm64
(`Beyond`).  **KvGet** puts the two together: the rows of `kv_get` are objects,
`BadRow` those that do not fit, `Unread` the answers with an object
`InitFromJson` refuses.

**Json** is `JsonParser` with its recursion on an explicit stack: a step is a
call of `parse_json()`, a return into a list or an object, or a character of a
string.  A character stands for its class: `t` for the three literals, `c` for a
control character, two digits for ten, and of the escapes those of a quote and a
backslash.  The text is any beginning of what was sent.  An error comes with a null
(`Fail`), or with the empty string that `parse_string()` gives when it fails and
`parse_json()` passes on without testing `failed` (`FailWith` in `Unread`): in a list
or an object the caller's test turns it into a null, outside of them it is the result
(`ParseEnds`).  **JsonText** defines,
without a parser, what a text denotes, as sets of parts (`from`, `to`, `val`): the
numbers between two places, the strings as sets of backslashes that escape what
follows them, lists and objects as rows of slots, each between two of brackets and
commas.  `Readings` has the parts nested up to a depth, and `Broken` says that
the text begins a string that cannot be read, and is over where that shows.  A member counts towards the
depth also if a later one of its name replaces it, as it does for the parser.

**Base64** takes one character per step: `EncodeByte` and `DecodeChar` are a turn of
the coroutine, with a disjunct for each of its entry points (`EncodeA` to `EncodeC`,
`DecodeA` to `DecodeD`).  The end of a block is a step (`EncodeBlock`, `DecodeBlock`:
what the buffer holds is written, the next block is read), the end of the stream
another (`EncodeEnd`, which pads the last group, and `DecodeEnd`), and `ValueEncoded`
is what `valueEncoded()` does in between.  `out` is the buffer as far as it was
touched; of the decoder its last cell is `*plainchar`, the character being built,
which the state carries into the next block.  The cell after one that is complete holds
what was in the buffer, any of `Junk`.  Masks and shifts are `\div`, `%` and `*` on
bits that do not overlap.  `char` is taken to be signed, as on the platforms the
extension is built for.

**KvStore** is consul's store as the tool sees it (external): a version per key,
cas, locks held by sessions, recursive GET and DELETE, and the end of a session.  Among
the keys a GET returns there may be one without a value, which makes `InitFromJson`
refuse the whole answer (`Unexpected`).
**ConsulKv** has any number of runs of `consul-kv` on it.  A run asks (`Ask`),
gives up or gets a reply, perhaps cut short or broken (`Answered`), and goes to
the next key or exits; the agent carries out a request (`Handle`) whenever it
likes, or never, also after the run has given up.  In both tools an exception is
answered with `LOG(FATAL)`, at which easylogging aborts the process: the
`EX_SOFTWARE` on the line after it is never returned, and the exit is "ABORT".
So it is with the `DLOG(FATAL)` that a method that is none runs into.  Without
`-m` the method is an uninitialised variable, which is read as one of the values
the code tells apart and keeps it for the run.

## 3. What is checked

The longest run takes about two minutes.  Every property of a passing run has, in
`PROJECT.json`, at least one mutant: a change to a definition, as a bug in the code it
models would make it, under which TLC finds the property violated.

| run | shows | bounds |
|---|---|---|
| `session` | `TypeOK`, `UrlsCoherent`, `OneAgentPerStatement`, `AgentFollowsSettings`, `RequestsExpire`, `OnlyValidValues`, `RefinesConfig` | one host, one port and one timeout besides the defaults, a timeout of 0; pings of one host and a negative port |
| `status_calls` | `TypeOK`, `LeaderIsGenuine`, `RowsAreGenuine`, `ToolTellsTruth`, `WaitIsBounded`, `CallsReturn`, `RefinesView` | three peers, one IPv6; three lists; bodies in two pieces; timeout of one tick |
| `set_returning` | `TypeOK`, `ReadsInBounds`, `ObjectsFollowScans`, `WholeAnswer`, `RowsTellKeys`, `RefinesStream`, `MaterializeEnds` | two call sites, six kinds of call, five answers of up to two keys, two of up to two peers; an `int` of four bits, an `INT8` of five |
| `json` | `CursorInText`, `StackBounded`, `ReadsWhatIsWritten`, `CutIsNoticed`, `ParsingEnds` | all texts of up to three characters out of 17; nine longer ones with any character missing or changed; all cut anywhere; depth 2 |
| `base64` | `TypeOK`, `EncodesStandard`, `RoundTrip`, `LinesFit`, `BlocksFit` | all values of up to 7 bytes out of {0, 90, 255}; lines of 8; buffers of 4, 5, 7 |
| `kv_tool` | `TypeOK`, `RetryIsSafe`, `SuccessIsApplied`, `RefusalIsFinal`, `NoGaps`, `LockIsKept`, `RunsExit` | two runs out of 11 command lines, two keys (one under the other), two sessions, no more changes of the store than the runs can make |
| `session_show`, `session_ping`, `status_no_leader`, `kv_flags`, `kv_default`, `base64_newline` | the findings of section 5 | as above; `session_ping` sets the host only, `kv_flags` has one call site |

Why the bounds are enough.

* Sessions: a setting can be in the base value, a masked value and the current
  value at once, and a transaction touches a stack entry in at most two ways.
  Besides its default every setting has one other valid value (the masked value
  and the value in force can differ from each other and from the base with SET,
  SET LOCAL and RESET), the timeout an invalid one; a refused host is in
  `session_ping`.  In the proofs all settings have any values.
* StatusCalls: every request is a fresh transfer, a call makes at most two, and
  a body is none, a part, or all.  The cluster may change between any two steps,
  and a request may end at any tick, so one tick shows what more would: ended
  before the timer, or by it.  (`status_no_leader` runs with two ticks.)
* SetReturning: two sites give every interleaving of two scans, and an error in
  one of them ends the other; first, middle and last row need two rows and a
  refused one.  The proofs cover the rest.
* KvPair: a number below, at and above the limit of `int` differs from every
  other only by its value.  The widths of the run keep the order of the real ones
  (an `INT8` is wider than an `int`); the proof is for all of them.
* Json: three characters hold every pair of neighbouring tokens, and the samples
  nest to the limit and one past it, with a list and an object on each side.
* Base64: a group is three bytes, so seven have two whole groups and each of the
  remainders; a line of two groups is filled exactly by six; the three buffer
  sizes cut at each place of a group.  4096-byte buffers and lines of 72 are the same
  code with other constants.  `Base64Assumption` asks for buffers that hold a group of
  symbols.
* ConsulKv: two runs are the smallest race, and a run and its retry.  `MaxIndex`
  bounds the store's version in the guards of `Write` and `Erase`.  It is 5 in
  `kv_tool`, which the runs cannot reach but by using up every change they may
  make: two runs of two keys each make four changes at most, from index 1.

CHECK_DEADLOCK is off for `base64`, `base64_newline`, `kv_tool`, `kv_default` and
`json` only: the coder and the parser are done, and the runs of the tool exit.

### Fairness

* `StatusCalls`: weak fairness of time (`Tick`), of libcurl's timer (`Expire`) and of the
  backend (`FunctionStep`).  `cpr::Session::makeRequest` hands the timeout to
  libcurl as `CURLOPT_TIMEOUT_MS`.  Nothing is assumed of agent, network or
  cluster: `CallsReturn` holds although they may never do anything.
* `SetReturning`: weak fairness of the calls for a scan in FROM, which the
  executor makes in a loop until the function is done or fails.  Nothing is
  assumed of scans in target lists, which go at the client's pace, nor that an
  error occurs.
* `Json`: the parser goes on (it is a sequential loop).
* `ConsulKv`: a run's own steps.  Giving up on a request is always possible
  because libcurl's timer is always set (1000 ms by default); the agent may do nothing.
* `Session` has no fairness and no liveness property: every action is one
  statement, which is up to the client.  `Base64` has none either: each of its
  steps takes a character or a block, of which there is a given number.

## 4. What is proved

Seven modules of proofs, checked by TLAPS, and a lemma they share (`LeastNumber`:
a set of naturals that is not empty has a least element).  All are of the form `Inv` is
inductive, and `Inv` implies the property; refinement adds that each step of
`Next` under `Inv` is a step of the abstract specification or leaves its
variables unchanged.

| module | theorem | of |
|---|---|---|
| `SessionProofs` | `TypeCorrect`, `UrlsStayCoherent`, `SettingsStayValid`, `AgentStaysOnSettings`, `StatementsAskOneAgent`, `RequestsAlwaysExpire` | `TypeOK`, `UrlsCoherent`, `OnlyValidValues`, `AgentFollowsSettings`, `OneAgentPerStatement`, `RequestsExpire` |
| | `SessionImplementsConfig` | `RefinesConfig` |
| `SetReturningProofs` | `TypeCorrect`, `ReadsStayInBounds`, `ObjectsAlwaysFollowScans`, `FinishedScansAreWhole` | `TypeOK`, `ReadsInBounds`, `ObjectsFollowScans`, `WholeAnswer` |
| | `SetReturningImplementsStream` | `RefinesStream` |
| `KvGetProofs` | `RowsAlwaysTellKeys` | `RowsTellKeys` |
| `StatusCallsProofs` | `TypeCorrect`, `LeaderAlwaysGenuine`, `RowsAlwaysGenuine`, `ToolAlwaysTellsTruth`, `WaitAlwaysBounded` | `TypeOK`, `LeaderIsGenuine`, `RowsAreGenuine`, `ToolTellsTruth`, `WaitIsBounded` |
| | `StatusCallsImplementView` | `RefinesView` |
| `JsonProofs` | `CursorStaysInText`, `StackStaysBounded`, `TextsAreRead`, `CutsAreNoticed` | `CursorInText`, `StackBounded`, `ReadsWhatIsWritten`, `CutIsNoticed` |
| `Base64Proofs` | `TypeCorrect`, `EncodingIsStandard`, `ValuesComeBack`, `LinesAlwaysFit`, `BlocksAlwaysFit` | `TypeOK`, `EncodesStandard`, `RoundTrip`, `LinesFit`, `BlocksFit` |
| `ConsulKvProofs` | `TypeCorrect`, `RetriesAreSafe`, `ListsHaveNoGaps` | `TypeOK`, `RetryIsSafe`, `NoGaps` |
| | `LocksAreKept`, `SuccessIsAlwaysApplied`, `RefusalIsAlwaysFinal` | `LockIsKept`, `SuccessIsApplied`, `RefusalIsFinal` |

**Session.**  `Inv` is `GucInv` (types, and `OnlyValidValues`: what is in force
and what the stack would bring back is valid once the module is loaded), `AgentInv` (the
agent is well typed, coherent, and follows the settings) and `SentInv`.
`AgentFollowsSettings` is not inductive without `OnlyValidValues`: the hook narrows
the port and the timeout to 16 bits, so the copy is faithful only for values in
range, also for those an abort reinstates.  `UrlsCoherent` needs nothing else.
Refinement follows because a URL that is coherent is the one built now.

**SetReturning.**  `Inv` is `TypeOK` and, for each site, `SiteInv`: `callCntr =
iter`, `maxCalls` is the length of the vector, the first `iter` rows are what the
query has got, the vector is the answer, and the object is as alive as the
context.  None of the properties is inductive without the first two, which no
line of the code states.

**KvGet.**  On top of the `Inv` of SetReturning: what `kv_get` iterates over was
read without refusal, and every row it handed out is of an object whose numbers
fit.  A number beyond `int` becomes `INT_MIN`, which wraps to 2^64 - 2^31, which no
`INT8` holds: it fails the row.  That is `IndexKept`, and it needs
`Beyond = -IntLimit`, which the theorem assumes: on a build whose conversion
saturates (arm64), the row is shown with 2^31 - 1 in the place of the number, and
the theorem does not hold.  `CString` is a cardinality in the definition; the proof
finds the first NUL with `LeastNumber`.

**StatusCalls.**  `Inv` is `TypeOK` with `Seeing` (the answer under way, and what
was kept of earlier ones, are of a moment of the call), `Calling` and `Printing`
(how far a call is, what it has asked for and what it holds), `Returned` (the
properties of results) and `Waiting` (earlier requests took a timeout each at
most).  The point is that a request under way belongs to the call that runs, so
that an answer cannot be older than the call.

**Json.**  `Inv` is that the cursor is in the text or right behind it, and that the
stack is a sequence of at most `MaxDepth + 1` lists and objects, with one on it
while a key is read.  The one place where the cursor goes back without having just gone forth is
the loop over a list at the end of the text, and there a bracket or a comma lies
behind it.

What the parser returns takes three more invariants.  Two of them, one for each
direction, speak of the whole recursion at every step, where the properties speak of
its end.
`FollowInv` goes from the grammar to the parser.  Take any text that begins with what
arrived, and any part of it that, but for blanks around it, is the text: the parser is
somewhere in that part, its stack holds the lists and objects written around that
place with the elements and members before it (`ValueAt`, `StringAt`, `KeyAt`,
`ReturnAt`), and if there was an error, the text was cut or is nested deeper than the
limit.  A number is the exception, because the beginning of a number may be one:
`CutAt`.  For the text that was sent this is `CutIsNoticed`: a parser that has nothing
left on its stack has passed the end of the value, or the value was a number.
`ReadInv` goes from the parser to the grammar: what it has returned, and each list and
object on its stack as far as it is read, stands in the text (`ReadsValue`,
`ReadsString`, `ReadsKey`, `ReadsReturn`); after an error it is a null, or an empty
string, and the text up to the cursor is a broken one (`ErrorAt`, `Error`).  `BreakInv`
is the other direction of that: in a text that is a broken string and nothing else, the
parser is before it, in it, or has failed with the empty string (`BrokenAlone`).
`ReadsWhatIsWritten` is the three together, for the text that arrived: `ReadInv` says
that a result is denoted, `FollowInv` that what is denoted is read, and so that no text
denotes two values, which nothing in the grammar says; of a text that denotes nothing,
`Error` and `BreakInv` say which of the two is returned.  Neither of the two properties
is inductive: they are silent until the parser is done.  That `Readings` follows its recursion (`ReadingsOf`) and that its parts
lie in the text (`ReadingsSolid`) is proved from a least counterexample with
`LeastNumber`, not by an induction theorem.

**Base64.**  How many bytes were taken says where in its group the encoder is, what
it carries, how many symbols it has written and how many of them are on the present
line; how many symbols were taken says the same of the decoder.  `Inv` states that:
`StreamInv` (a block is read where the last one ended), `EncodeInv` (the text, with
what is in the buffer, is the beginning of the standard encoding, `Encodes`, in
`Lines`, and the carried bits are those of the last byte, `GroupInv`), `DecodeInv`
(the bytes written and the complete ones in the buffer are the beginning of the
value, and the last cell is the part of the next byte that is known, `Decoded` and
`Partial`), and `BufferInv`.  `BlocksFit` is not inductive: the encoder may write
two symbols and a newline for one byte, and a block may start right before them, so
that the bound on `out` depends on how much of the block was taken and on the step
the coder is at; `BufferInv` has both.  `RoundTrip` rests on `EncodesStandard`: the
decoder is proved to invert the standard encoding with newlines anywhere, not the
encoder.  That a value is encoded whatever its length takes no induction over it:
each step adds a character to what holds so far.

**ConsulKv.**  `Inv` is `TypeOK` with `WireInv` (a request on the wire is the one
its run makes for that position), `ReplyInv` (a run that waits has its request on
the wire or has been answered; none under way elsewhere), `OrderInv` (what has been
handled), `VersionInv` (versions in the store are at most the index and only grow; no
two changes of a key replaced the same version, but for version 0, a key that did not exist) and
`CasInv` (a conditional change replaced the version it named).  `RetryIsSafe` is
the last two together, for any number of runs.

What a run prints and exits with is proved on top of `Inv`, with `TruthInv`.  A PUT
is for one key (`PutInv`), so its run makes one request; `KnowsInv` says that the
run has changed nothing as long as that request is under way, and that a reply
`true` or `false` in hand means it has been carried out or refused.  Of all a reply can
turn into on the way, only a whole one reads `true` or `false` (`ResponseWhole`).
`LockInv` says more than `LockIsKept`: the lock is kept also by a run that never
heard it has it.  The exception to one key per PUT is a run without `-m`, whose
method is whatever was in memory: several keys pass the check of `main` then, a first
one could be written and a second refused, and `EX_CANTCREAT` would not mean that
nothing was changed.  Two of the theorems therefore assume that a command line
without `-m` has a single key.

Assumptions.  Those the modules name: `AgentAssumption`, `GucAssumption`,
`ConfigAssumption`, `SessionAssumption` (values that stand for "none" are none of
the values, the default host is valid), `StreamAssumption`,
`ReturningAssumption`, `ContextAssumption` (answers are sequences of rows),
`StoreAssumption`, `ToolAssumption` (command lines name a key),
`HttpAssumption`, `StatusAssumption`, `JsonAssumption`, `WidthAssumption` (an `INT8`
is no narrower than an `int`), `KvGetAssumption` (answers are of objects as consul
sends them), `Base64Assumption` (a line holds whole groups of symbols, a buffer at
least one).
None of them bounds anything: any number of names, ports that are any integers,
sites, rows, answers of any length, runs and keys.  TLC evaluates them in the runs.

Only model-checked: the liveness properties (`CallsReturn`, `MaterializeEnds`,
`ParsingEnds`, `RunsExit`), which TLAPS has no means for.  Every other property of
the passing runs is stated by a theorem.

## 5. Findings

Each is a run that TLC refutes, of what a comment, a test or the help says.

| run | what |
|---|---|
| `session_show` | `SHOW consul.agent_port` and `agent_timeout` print a string that has been freed (`src/pg_consul.cpp:701`, 713). |
| `session_ping` | `consul_agent_ping(host, 74036)` asks port 8500: the `int4` is narrowed to 16 bits unchecked (214); the test calls such ports invalid. |
| `session_ping` | `consul_agent_ping('127.0.0.1', ...)` may ask another host: `VARDATA` of a text has no final NUL (213). |
| `status_no_leader` | With no leader, `consul_status_leader()` returns `:0` (468). |
| `kv_flags` | Flags from 2^31 on are not those of the key once read (`include/consul/kv_pair.hpp:126`: a `uint64_t` read through `int_value()`), where the tool's help has them go to 2^64 - 1. |
| `kv_default` | `consul-kv` without `-m` may write or delete: `methodType` is uninitialised (`playground/consul_kv.cpp:63`), where the help promises to display the key. |
| `base64_newline` | `valueEncoded()` removes one trailing newline of two when the value fills its last line (`include/consul/kv_pair.hpp:235`). |

One disagreement has no run of its own, because the property of a passing one states
it.  "If parse fails, return Json()", says `include/json11.hpp:147`, but of a text that is
a string it cannot read to its end, such as a quotation mark alone, `Json::parse`
returns an empty string with the error (`src/json11--json11.cpp:597` and 669): that is
the `EmptyString` in `ReadsWhatIsWritten`.  Its callers look at the error only.

## 6. What is not modelled

* `setPort(std::string)` and the cluster of the agent: the extension calls
  neither.  The agent's JSON output.
* HTTP PUT and DELETE of cpr in detail, proxies, cookies, authentication: the
  tool's requests are those of `KvStore` with the replies `Answered` allows.
* The tables of names under which `consul-status` prints the agent's own document:
  formatting of a parsed value.
* Flags and cluster of `consul-kv`, which are passed on; `-E` and `-D`, which run the codec alone.
* Of json11: escapes by code point, the letters of the literals, `parse_multi` and
  `has_shape`, which nothing calls, and `dump`, which is formatting.
* Boost, TCLAP and easylogging++, which are some 545,000 of the repository's 557,000
  lines: of all that, `split` and `lexical_cast` enter as what they do, and of a
  FATAL log line that it aborts.  What the models cover is the rest.
* Savepoints, function SET clauses, parallel workers.
* A key without one of its numbers, whose member would stay uninitialised
  (`include/consul/kv_pair.hpp:244`): consul always sends them.  A ping with host
  and port uses the default timeout (`src/pg_consul.cpp:216`); nothing promises the
  set one, and `RefinesConfig` states it as it is.
* How a key is put into a URL: nothing escapes it (`include/consul/agent.hpp:44`), and
  the models have keys whose URL is theirs.

## 7. Plan

Done, in this order: Session (settings and where requests go), SetReturning,
StatusCalls with `consul-status`, Base64, ConsulKv, KvPair and KvGet, Json; the
proofs of all of them, but for liveness.

What is left: savepoints in Guc.

The number of runs is kept small on purpose: a new question is first put to an
existing instance.
