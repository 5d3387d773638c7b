# A TLA+ model of the EVSE-ISO15118 charging station

The repository is a *SECC* (supply equipment communication controller): the
station's side of an ISO 15118-2 DC charging session. An electric vehicle (EV)
finds the station by SDP over UDP, connects by TLS over TCP and then sends V2G
requests, EXI documents in V2GTP frames, which the station answers one by one.

This directory holds TLA+ modules that model that program, TLC configurations
that check them on small instances, and proofs that TLAPS checks for every
value of the constants. `PROJECT.json` ties them to the source: which lines each
definition models, what each run checks, the hazards the properties are for.

Contents: inventory of the system - modules and how they correspond to the
code - what the runs check - what is proved - findings - what is abstracted and
what is not modelled - plan.

## 1. The system

| part | source | state it keeps | operations |
|---|---|---|---|
| application and session | `app/main.c`, `core/secc_session.c` | `secc_session_t`: `client_fd`, `state`, `transport_mode` | init, start (SDP, accept, handshake), run, stop |
| V2G message loop | `v2g/v2gtp_handler.c`, `v2g/v2gtp_parser.c` | `recv_buffer[2048]`, `recv_buffer_len`; a local `offset` | `v2g_process_message`: read, append, then parse, decode, route, answer every complete message, shift the rest |
| EXI decoder | `exi/exi_decoder.c` | two statics: the schema of the last negotiation and whether it is valid | classify a request, choose a protocol by priority |
| router | `core/secc_state_machine.c` | `ctx->state` | one transition for each request type, `ERROR` for the rest |
| response builders | `v2g/v2gtp_response_handler.c` | none | one document for each request type, encoded, decoded back as a check, framed |
| TLS transport | `transport/tls_transport.c` | static mbedTLS objects | bind and accept, handshake, read, write, close |
| SDP discovery | `transport/tls_transport.c` (`secc_sdp_listen`), `v2g/v2gtp_sdp_handler.c` | a UDP socket for one exchange | receive one request, choose the security, answer, close |
| SLAC matching | `v2g/slac.c` | `SlacContext`: state, keys, sound count, attenuation, retries, timer; the peer's MAC address in a static of `slac_step` | the EV's and the station's state machines of ISO 15118-3 over raw Ethernet frames; not called by `main` |
| structured log | `core/logging/secc_log.c` | a ring of 1000 entries, a mutex, a JSON file, a flag that it is open, a static that says whether a comma is due | init, log, read back, close; not called by the rest |

How they interact. `main` calls `secc_session_init`, `_start`, `_run`, `_stop`
in turn. `_start` runs the SDP exchange, then accepts one TCP connection and
does the TLS handshake; any failure returns -1 and `main` exits without calling
`_stop`. `_run` calls `v2g_process_message` until it returns -1: a failed read,
an overfull buffer, a response that cannot be built, a failed write. The
session and the message loop share one object: `_run` casts its
`secc_session_t` to `secc_context_t`, so `state`, which the session sets in each
phase, is the one the router sets for each message. The program is single
threaded but for the log, which any thread may call and which guards itself with
a mutex; what makes the program hard is the stream it reads (messages cut and joined at
any byte), state that outlives the message it belongs to (the buffer, the
decoder's statics, `ctx->state`), the order in which failures can end it, and two
exchanges over lines that lose and delay: SDP, where the station answers once
and then stops listening, and SLAC.

What makes each part correct:

- *message loop*: the bytes of the stream are kept and consumed without gap or
  repetition however they arrive; every request is answered once, in order, and
  with its own answer; nothing complete is left waiting; the buffer never
  outgrows its array, and a request-response EV never makes it overflow.
- *decoder and builders*: the schema answered is the most urgent the request
  offered and belongs to that request; the answers say what their comments say.
- *router and session*: the state is what the last request asked for and what
  the phase calls for; a failure always ends the session, and the connection is
  closed exactly once.
- *transport*: over plain TCP, each read hands over whole messages to an EV that
  waits for its answers, however the network cuts them.
- *SDP discovery*: one EV at most is told to connect, with a security it has asked
  for; retries make up for lost requests.
- *log*: one thread at a time works on ring and file; the ring is a queue that
  drops its oldest entry and agrees with the file; the file is JSON once closed.
- *SLAC matching*: an EV that is matched shares its key with the station it
  chose, and with no other; a station gives its key to one EV only, and to one
  that asked; both sides give up in the end; the retries make good what is lost.

## 2. The modules

`RequestResponse` - the abstract specification. Requests come in a sequence;
the server deals with them one at a time in order: one that calls for no
response is passed over, any other gets exactly one response, which depends on
that request alone; the server may stop at any time.

`V2gMessages` - constant-level: request types, session states, the protocol
choice (`ChooseSchema`), the router's table (`RoutedState`, `StateFor`), the
document each builder makes (`SupportedAppProtocolRes` to `SessionStopRes`,
`Response`) and the check that decodes it back (`VerifyRes`, `CanBuild`).

`V2gtpStream` - the message loop over a byte stream, with the EV that feeds it.

| TLA+ | code |
|---|---|
| `frames`, `written` | what the EV has sent (environment) |
| `rd` | bytes `tls_read` has returned so far |
| `recv_buffer`, `recv_buffer_len` | `ctx->recv_buffer`, `ctx->recv_buffer_len` |
| `offset`, `pc` | the local `offset`; where `v2g_process_message` is: in `tls_read`, in the `while`, or returned -1 |
| `state` | `ctx->state` |
| `selected_schema`, `schema_valid` | the decoder's statics |
| `answers`, `served`, `cause` | history: responses written, messages moved past, why -1 was returned |
| `EvSend` | the EV writes one message |
| `Receive`, `ReceiveOverflow`, `ReadFails` | `tls_read` and the append, lines 33-59 |
| `SkipUnsupported` | lines 90-96 |
| `HandleMessage` | lines 98-132: decode, route, build, write, move on, and both error returns |
| `LeaveLoop` | the `break` and the loop's end, the shift of lines 135-144, the return of 0 and the next call |

A byte is represented by its position in the EV's stream, so `recv_buffer` is a
sequence of positions and "does the code see message i here" is a question
about positions. A header read at a place where no message starts may look like
any message (`ParsedHeaders`): the model does not assume the framing it is
meant to show. One action is one pass of the loop, because nothing else runs
between its steps except the EV, whose writes only become visible to a read.

`SeccSession` - `V2gtpStream` inside the life of the program: `phase` is where
`main` is, `StartSteps` are the steps of `secc_session_start` with their failure
returns, `EnterRun`, `RunMessageLoop`, `LeaveRun` are `secc_session_run`, and
`StopSession` is `secc_session_stop` with the return of `main`. The SDP exchange
appears by its outcome (`SdpFails`, `SdpAnswers`); `SdpDiscovery` opens it up.

`PlainTcp` - the message loop of `V2gtpStream` with the plain TCP branch of
`tls_read` in place of one atomic read.

| TLA+ | code |
|---|---|
| `total_bytes_read`, `total_message_len` | the locals of `tls_read` |
| `ended` | `recv` has returned 0 or -1 |
| `window` | how many messages this EV keeps outstanding (environment) |
| `RecvHeader`, `RecvRest` | one `recv` of the first and of the second loop (lines 359-385, 400-425) |
| `LengthsAtStart` | the length read at the beginning of this read: that of the message that begins there, or anything |
| `ReturnMessage`, `RecvEnds` | the returns, with the append of `v2g_process_message` |
| `Loop` | the passes of the message loop |

`SdpDiscovery` - EVs, a UDP line and the SECC from `secc_sdp_listen` to the
accepted connection. `secc` is where the SECC is, `received` the datagram it
reads, `granted` the security it has answered with; `SeccOpen`, `SeccReceive`,
`SeccRejects`, `SeccResponds` are `secc_sdp_listen`, `Acceptable` is every check
on the datagram in `secc_sdp_listen`, `sdp_parse_request` and
`sdp_select_transport`, `SeccPrepares` and `SeccAccepts` are
`tls_server_init_and_accept_ex`, and `SeccFails` is any failure on the way. The
EVs are environment: they ask up to `MaxTries` times, each time for a security of
their choice, connect when told, and may give up. `Foreign` are datagrams wrong
in one respect each, an echo of a response among them. `timely` chooses at the
start between a line that may do anything and one on which at most requests
other than the last are lost and nothing fails.

`LogQueue` - the abstract specification of the log: a bounded queue that drops its
oldest entry when full; a reader gets some of its entries from the front.

`SeccLog` - the log under any number of threads.

| TLA+ | code |
|---|---|
| `g_log_initialized`, `entries`, `head`, `tail`, `count`, `first` | the same names |
| `lock` | `g_log_buffer.lock`: not made, free, destroyed, or its holder |
| `file` | what the file holds: brackets, commas, entries |
| `mainPc`, `pc`, `entry`, `got` | where `main` and each thread are in a call, and the call's locals |
| `BeginLog`, `LockForLog`, `Store`, `Count`, `WriteFile`, `Unlock` | the steps of `secc_log`, with other threads in between |
| `BeginRead`, `LockForRead`, `Copy`, `Unlock` | the steps of `secc_log_get_recent` |
| `OpenLog`, `CloseLock`, `CloseFile`, `CloseDestroy`, `CloseClear` | `secc_log_init`, `secc_log_close` |

`QuietClose` says whether `main` closes the log only while no call is under way.
Nothing in the code makes it wait; without it, locking the destroyed mutex is
undefined, and the model takes the outcome that it fails and the caller goes on,
since no caller looks at the result.

`SlacMatching` - the abstract specification of SLAC: an EV settles on one
station and no two EVs on the same one, a station grants a key once to an EV
that has settled on it, an EV joins with the key its own station granted it.

`Slac` - any number of EVs and EVSEs, each a process in `slac_run`, and the
power line between them.

| TLA+ | code |
|---|---|
| `evState`, `evseState` | `ctx->state` of each EV and EVSE, without the prefix `SLAC_EV_`, `SLAC_EVSE_` |
| `retry_count`, `sound_count` | the fields of `ctx` |
| `aag` | `ctx->aag[g]` of an EVSE, for one group `g`, as a `uint8_t` |
| `heard` | history: the samples an EVSE has measured since START_ATTEN |
| `evse_mac`, `ev_mac` | the statics of `slac_step`: an EV's station, an EVSE's EV |
| `evNmk`, `evseNmk` | `ctx->nmk` and `ctx->nid`, as one value |
| `net` | the frames on the line and in the receivers' sockets |
| `EvSend...`, `EvseSend...` | one `case` for each sending state, with its frame builder |
| `EvParmCnf` to `EvMatchCnf`, `EvseParmReq` to `EvseMatchReq` | one `case` for each waiting state, when `recv_frame` returns the frame it waits for |
| `EvDiscard`, `EvseDiscard` | the same `case` when the frame is of another type |
| `EvParmTimeout`, `EvTimeout`, `EvseSoundTimeout`, `EvseTimeout` | the timeout branch of the waiting states |
| `Receive`, `Lose` | `recv_frame`; the line |

Time is left out of `SlacSpec`: a frame can be late without bound, so every
waiting state may time out at any moment, which includes whatever the constants
400, 600, 800, 1200, 1500 and 12000 ms allow. A lost frame is, there, one that is
never received; `Lose` is for `MCSlac`, where a timely line must say which frames
it may lose. `TimelyEv` and `TimelyEvse` state
what they are meant for: frames much faster than the shortest timeout, so that a
timer runs out only when nothing is under way.

`MCSlac` - chooses, for the liveness run, between a timely line and an arbitrary
one at the start of each behaviour. `MCV2gtpStream`, `MCSeccSession`, `MCPlainTcp` -
payload sets for the runs.

`V2gtpStream_proofs`, `V2gtpServer_proofs`, `SeccSession_proofs`,
`PlainTcp_proofs`, `SdpDiscovery_proofs`, `SeccLog_proofs`, `Slac_proofs` - the
proofs, section 4. `FoldTheorems` - induction and left folds, for those of them
that are about recursion over a list.

How the modules compose: `SeccSession` and `PlainTcp` extend `V2gtpStream`, which
extends `V2gMessages`; both loops implement `RequestResponse`, and `PlainTcp`
implements `V2gtpStream` itself. `SdpDiscovery` implements the start of
`SeccSession`. `SeccLog` implements `LogQueue`, `Slac` implements `SlacMatching`.

Definitions commented "Faulty variant" are plausible slips in the code they
stand next to (a missing check, a missing reset, an `if` for a `while`). They
belong to no specification: substituted for the definition they precede, each
must make a property fail, which is how we know that the property can.

## 3. What the runs check

Sizes count the header, which is 2 bytes in the runs (8 in the code); the
algorithm uses it only as a number to add and compare, and 2 is the least that
can be split. Every run reads pieces of every possible size, so every cut of
every message occurs.

| run | properties | what it shows |
|---|---|---|
| `framing` | `TypeOK`, `Reassembly`, `AnswersInOrder`, `NoMessageLeftWaiting`, `OverflowNeedsBacklog`, `StateFollowsRequests`, `ImplementsServer`, `EveryMessageServed` | 4 messages of 8 kinds (sizes 2 to 5: empty EXI payload, unsupported type, two negotiations, three requests that lead to different states, one of them to the error state) in a 7-byte buffer: cut, joined, overflowing, skipped and unencodable between routed ones; safety, and liveness under the fairness below |
| `lifecycle` | `SessionTypeOK`, `ConnectionClosedOnce`, `StateBelongsToPhase`, `AnswersFit`, `SchemaNegotiation`, `SessionImplementsServer`, `FailureEndsSession` | the program from `main` to exit with every failure, and 2 requests from all 13 types, all priority orders of 3 protocol entries with ties, 2 entries with priority 255, and a `CableCheckRes` that does not encode |
| `plain_tcp` | `PlainTypeOK`, `OneMessagePerRead`, `ImplementsStream`, `LockstepServed` | 4 messages of sizes 2 to 5 through the plain TCP reader with a 5-byte buffer, one or two outstanding, every cut, the peer closing at any byte |
| `sdp` | `SdpTypeOK`, `GrantAgreed`, `StrandedOnlyByMishap`, `TimelyEvsConnect`, `ImplementsSessionStart` | 2 EVs, 2 tries each, on either line |
| `log` | `LogTypeOK`, `MutualExclusion`, `ThreadOrderKept`, `RingIsEndOfFile`, `ClosedFileIsJson`, `ImplementsQueue` | 3 threads, a ring of 3, 5 entries, readers that ask for fewer or more than there are, the log closed and opened again. The ring is the end of the file; a reader has the beginning of that end, that is the oldest entries |
| `slac_matching` | `SlacTypeOK`, `KeyAgreement`, `MatchEarned`, `ImplementsMatching`, `MovesAreUsedUp` | 2 EVs, 2 EVSEs, 2 tries, 2 sounds, on a line that repeats, delays and never delivers as it likes: stale and foreign frames reach every state |
| `slac_liveness` | `AverageWhileSumFits`, `EvTerminates`, `EvseTerminates`, `LostRequestsSurvivedInTime` | 3 tries as in the code. `slac_run` returns on both sides, whatever is lost; on a timely line, with two stations that both hear the EV, it is matched although any request but the last is lost and it may mix the stations up. Of three sounds of 20 or 39 dB any number is heard, and what is reported is the rounded-down average of exactly those |

The bounds: `MaxFrames` (messages in a behaviour), `Window` (messages the EV may
have outstanding), `BUFFER_SIZE`. Four messages in a buffer that holds two or three
cover every relation of buffer and messages the loop distinguishes:
nothing, part of a header, part of a body, a whole message, whole messages and a
part, and an append that does not fit. In `lifecycle` two requests are the least
with an earlier and a later choice of schema, and 6 bytes are too few for both. In
`plain_tcp` the buffer is as long as the longest message, so a read may take a
whole message with the beginning of the next, or fill the buffer.
`MaxTries` (SDP requests of an EV): two are the least with a late or repeated
first request. `MaxCalls` (entries logged) and `MaxInits` (times the log is
opened): five entries go through a ring of three more than once around, and two
sessions show what outlives one. The proofs remove these bounds for the safety
properties.

*Fairness.* `FairStreamSpec` has weak fairness of `Progress`: the thread that
runs `v2g_process_message` is not stopped for ever while bytes or buffered
messages are at hand. It includes no fairness of the EV, which may fall silent,
and none of `ReadFails`, so a connection need not break for a message to be
served. `FairSpec` of the session adds the steps of `main` that wait for nobody
(`EnterRun`, `LeaveRun`, `StopSession`). Waiting for an SDP request, a
connection or a handshake has no fairness: the code waits without a timeout.

`FairPlainSpec` has weak fairness of `PlainProgress`: the thread goes on while bytes
have arrived that `recv` can return, a read is complete or a message is in the
buffer. It has no fairness of `RecvEnds` before the connection has ended.
`LockstepServed` is about the EV with one outstanding message; for one that sends
ahead it is false, as section 5 says.

`FairSdpSpec` has weak fairness of the SECC's steps and, on a timely line only, of
the EVs and of the arrival of requests. Being timely also means that an EV's last
request is not lost and not sent before the socket is open, that it waits for
the answer to it, and that an EV told to connect tries until the port is bound:
these are assumptions about the environment, and each is needed (the run finds
the EV stranded without it).

`FairSlacSpec` has weak fairness of each node's `slac_step`: `recv_frame` returns
after 500 ms at most (`SO_RCVTIMEO`), so the loop of `slac_run` never blocks and
its timer is looked at. It promises nothing of a frame, which may never arrive,
nor that a send succeeds. `LineSpec` in `MCSlac` has the same fairness on both
lines; the further assumptions of the timely one (an EV's frames in order, none
lost but requests that are not the last try) are about the line, and are needed: one lost `PARM_CNF` defeats the
retries, because the station answers one request only and then ignores the rest.

The bounds of SLAC: two nodes of each kind are the least with frames of a
foreign EV and of a foreign station, two sounds the least that separate "some"
from "all", two tries the least with a late answer to an earlier one. The proofs
remove them.

Runs do not check for deadlock: the program stops by design when it has
returned from `main`, the loop when it has returned -1, `slac_run` when it has
returned, a silent EV leaves the SECC blocked in a read, and the log stops at the
bounds of its run.

*Runs that must fail.* Five runs state what a comment in the source says and the
model, like the code, does not do; see section 5.

## 4. What is proved

The theorems about the message loop hold for every set of payloads, header
length, buffer size, number of messages and window allowed by `MessageConstants`
and `StreamConstants`: a header has at least one byte, a message at least a
header, the buffer room for a header, and a protocol entry has a SchemaID and a
Priority of 8 bits. Those about SLAC hold for every set of
nodes, keys and samples, any retry limit and up to 255 sounds
(`SlacConstants`), those about SDP for any set of EVs and number of tries
(`SdpConstants`), those about the log for any threads and any size of the ring
(`LogConstants`). TLC evaluates these assumptions in the runs. Two further
assumptions stand in the theorems that need them: `MessagesFit` (every message
fits the buffer) for `OneMessagePerReadCorrect`, and `QuietClose` for the log;
without it `MutualExclusion` is false, as the run `log_race` shows.

`FoldTheorems`. `ChooseSchema`, the entries of the log file and the sum of the
samples a station heard are left folds, and what they compute is known by induction
on the length of the list. The module holds lemmas only. The induction
theorems of the library take the property as an operator, which the provers cannot
instantiate. Here the property is a set of numbers (`SetInduction`, from
`LeastElement`), and the operator that is folded is a constant of the module, to be
replaced by an `INSTANCE`. `FoldLeft` of the community modules chooses a function
that solves a recursive equation; the module proves that there is one, and from it
`FoldOfEmpty` and `FoldOfAppend`: to fold a sequence with one element more is to
apply the operator once more.

`V2gtpStream_proofs`. `TypeOK` and `Reassembly` are not inductive: to show that
the next header parsed is the next message's, one must know that the messages
tile the stream without gaps. `StreamInv` therefore adds `FramesTile` (each
message begins where the one before it ends, the last ends at `written`, and an
earlier one ends before a later one begins) and `AtRead` (each call starts with
offset 0). The lemma everything rests on is `HeaderIsNext`: inside the loop, a
header in the buffer is that of message `served + 1` and of no other. One lemma
for each action shows that `StreamInv` is preserved; `TypeCorrect` and
`ReassemblyCorrect` follow.

`V2gtpServer_proofs` builds on it:

- `NothingLeftWaiting`: the loop never blocks in a read with a complete message
  in its buffer.
- `OverflowNeedsBacklogCorrect`: when the overflow return is taken, the EV had
  more unserved bytes under way than the buffer holds. `BacklogInv` says so at the
  moment of the failure; afterwards the EV may only add to them.
- `LockstepIsSafe`: with `Window = 1` and messages that fit, the overflow return
  is unreachable. `LockstepInv` adds that at most one message is unserved, so
  buffer and unread bytes together are at most that message.
- `AnswersInOrderCorrect` and `AnswersFitCorrect`, from `AnswersInv`. The core is
  `SchemaOfRequest`: although the schema choice is a static that survives the
  call, what the builder reads is always what this request chose.
- `SchemaNegotiationCorrect`: `AnswersInv` gives the answer the schema
  `ChooseSchema` picks from its own request; `FoldIsMostUrgent` says, by induction on
  the number of entries looked at, that the entry kept so far is the first of least
  priority (`MostUrgent`). The comparison with `NoPriority` never hides an entry,
  because a Priority has 8 bits.
- `StreamImplementsServer`: `StreamSpec => ImplementsServer`, the refinement of
  `RequestResponse` that forgets positions, buffer and decoder state. `EvSend`
  maps to `Ask`, `SkipUnsupported` to `Pass`, a written answer to `Answer`, every
  error return to `Stop`, and reads and shifts to stutters.

`Slac_proofs`:

- `KeyAgreementCorrect`, `MatchEarnedCorrect`, and `SlacTypeCorrect` but for the
  history variable `heard`, from the
  inductive invariant `SlacInv`: the types (`NodeTypes`), and what the existence of a frame, the state of an
  EV or the state of an EVSE implies about the other side. For example, a
  `PARM_CNF` on the line implies that its sender has taken up its receiver
  (`Taken`), so no second EV can choose that station; a `MATCH_REQ` implies that
  its sender has chosen its receiver, so the station's own EV is the one that
  asks, although the code does not look. All of these facts are *stable*: a
  station that has answered never changes its EV, an EV that has chosen never
  changes its choice, a matched station never changes its key (`Stable`). The
  lemmas `EvMoves` and `EvseMoves` use this once for all, and each action is
  left with its own node and the frames it adds.
- `AverageCorrect`, from `AverageInv`: `sound_count` is the number of samples heard
  since START_ATTEN and `aag` their sum modulo 256 (`SoundsAre`), whichever sounds got
  through and whoever sent them; one more keeps both in step (`OneMoreSound`, with
  `AddedModulo` for the sum). START_ATTEN resets the count and not the sum, which does
  no harm because a station has heard nothing before it (`Silent`). A station
  that has reported adds nothing up any more (`Reported`), which is why a frame on the
  line still agrees with the count of its sender. So the overflow that the run
  `slac_average` shows is the only thing wrong with the average.
- `MovesAreUsedUpCorrect`: every move of a node lowers `EvMovesLeft` or
  `EvseMovesLeft`, the timeout that goes back to `SEND_PARM_REQ` because it counts a
  try. This is the part of `EvTerminates` and `EvseTerminates` that needs no
  fairness; that a node does move is left to the run `slac_liveness`.
- `SlacImplementsMatching`: `SlacSpec => ImplementsMatching`. `EvParmCnf` maps to
  `Choose`, `EvseSendMatchCnf` to `Grant`, `EvMatchCnf` to `Join`, all else to
  stutters.

`SeccSession_proofs`, from the loop's invariant inside the session:

- `StateFollowsRequestsCorrect`: `LastRouted` says by a witness what the property
  says by a maximum, so that each action has one request to look at.
- `SessionTypeCorrect`, `ConnectionClosedOnceCorrect`, `StateBelongsToPhaseCorrect`,
  from `SessionInv`: which connection, exit code and close count each phase of
  `main` may have (`PhaseInv`), that the loop has not moved before the run
  (`Untouched`), and the state in each phase (`StateInPhase`).
- `SessionAnswersFit`, `SessionSchemaNegotiation`, `SessionServer`: every step of the session is a step of the
  message loop or leaves its variables alone, so that what holds of the loop holds
  of the program.

`PlainTcp_proofs`:

- `PlainTypeCorrect` and `PlainImplementsStream`, from `PlainInv`: what a read has
  gathered has arrived and fits, hence is one of the reads `V2gtpStream` allows,
  whatever its first bytes were taken for. So every theorem about the loop
  carries over; `PlainImplementsServer` is one.
- `OneMessagePerReadCorrect`, from `LockstepRead`: with one message outstanding
  each read begins where a message does, reads its true length, and stops there.

`SdpDiscovery_proofs`:

- `GrantAgreedCorrect`: every request on the way to the SECC was made by the EV it
  names (`AskedInv`), and there is at most one response, on the wire or taken in
  (`OneResponse`).
- `StrandedOnlyByMishapCorrect`, from `StrandInv`: until the response is out nothing
  is told to anyone; after it, it is under way, or taken in by an EV that has yet
  to connect, or a mishap is on record (`Followed`).
- `SdpTypeCorrect`, `SdpImplementsSessionStart`: `SeccSession`'s `SdpAnswers` is the
  response, `SdpFails` each way to reject, `Accepts` the connection.

`SeccLog_proofs`, from `LogInv`, which is `LogTypes`, `LockInv` (exactly the holder
of the mutex is in the section, `main` closes while all are idle) and `RingInv`
(the indices are in step, but for the moment between storing an entry and
counting it):

- `MutualExclusionCorrect`, `LogTypeCorrect`.
- `LogImplementsQueue`: the queue is read off the ring from `tail`; a few lemmas on
  counting modulo the size show that storing into a full ring drops its first
  entry and appends the new one. `Count` maps to the abstract append, `Copy` to
  the snapshot, all else to stutters.
- `ThreadOrderCorrect`: a thread's entries in the ring are older than the one it is
  about to store (`OrderInv`).
- `RingIsEndOfFileCorrect`, from `EndInv`: the ring from `tail` on is the end of the
  entries in the file, but for the one entry that the thread in the section has
  stored and not yet written. `FoldOfAppend` says what a token adds to the entries of
  the file. `GotInv` adds the readers: what one has copied is the front of the ring
  until it unlocks, because nobody stores in between.
- `ClosedFileIsJsonCorrect`, from `ShapeInv`: an open file is a bracket followed by
  entries and commas in turn that ends in an entry, or the bracket alone as long as
  `first` holds; only a later session's file begins with a comma.

Only model-checked: liveness (`EveryMessageServed`, `FailureEndsSession`,
`LockstepServed`, `TimelyEvsConnect`, `EvTerminates`, `EvseTerminates`,
`LostRequestsSurvivedInTime`), which rests on fairness, and so on ENABLED, which the
prover does not handle. Every safety property that a passing run checks has a
theorem, and so has every refinement.

## 5. Where comments and code disagree

| run | the source says | the code does |
|---|---|---|
| `detail_state` | the answer to ServiceDetailReq is "ResponseCode = OK" (`v2gtp_response_handler.c:787`); the line claims the response code only, and that a request answered OK must not leave the session in `ERROR` is our inference | answers OK, but the router has no case for the message and sets `ERROR` |
| `transport` | "Update transport mode based on what was negotiated in SDP" (`secc_session.c:60`) | always TLS |
| `log_race` | "Thread-safe ring buffer" (`secc_log.c:15`) | `secc_log_close` destroys the mutex (`:107`) while calls that have passed the check at `:115` are on their way to it, and nobody looks at the result of locking it |
| `slac_average` | "Average Attenuation per Group (dB)" (`slac.h:118`), "Average the accumulated group attenuations" (`slac.c:282`) | adds them up in a `uint8_t` first: ten sounds of 39 dB give 13 dB |
| `slac_init_wait` | "EVSE waits for first PARM.REQ", 20000 ms (`slac.h:36`) | the constant is not used: this wait has no timeout |

Seen while modelling, without a run of their own because no behaviour is needed
to see them:

- *Builders and session.* The charge limits commented "Example: 32A", "400V" and
  "11kW" (`v2gtp_response_handler.c:1262`-`1270`) are sent with Multiplier 1, that
  is times ten. ServiceDetailRes always names ServiceID 1, though it "must match
  what was requested" (`:830`). The router takes any request in any state, while
  `main.c:41-86` lists an order. The loop's only exit is an error, so that a
  session that ran to SessionStopRes ("Session Complete", `main.c:86`) also ends
  through `ERROR` (`StateBelongsToPhase` in the run `lifecycle` says so).
- *Plain TCP.* "Read V2GTP header first", "then keep reading until complete message is
  received" (`tls_transport.c:351`) holds for an EV that waits for its answers. With one that sends ahead, a read can return the
  beginning of a second message with the first, take the rest of it for a header
  at the next read, and then wait for bytes that nobody owes, although a whole
  message is at hand. "Return what we have if at least header received"
  (`:376`) returns what it has after a single byte (`total_bytes_read > 0`). All of this
  can only be met by a caller other than `main`: `secc_session.c:61` always asks for
  TLS, and any mode that is not zero counts as TLS (`tls_transport.c:109`), so that the
  plain branch is unreachable from it.
- *SDP.* "Ignoring SDP Response echo" (`tls_transport.c:842`) returns -1, which ends
  the discovery and with it the program. The certificate and key are loaded only
  after an EV has been told to connect.
- *Log.* `secc_log_get_recent`, "Get recent logs" (`secc_log.h:64`), returns the
  oldest entries when asked for fewer than there are (`secc_log.c:183`-`188`;
  `RingIsEndOfFile` says so). The static `first` is not reset, so that the file of a second session
  opens with a comma (`ClosedFileIsJson` makes an exception for it). The file is
  opened "for append" (`secc_log.c:77`) in mode `"w"`. Entries are stamped before
  the lock is taken, so those of different threads may stand out of order: no property
  forbids it, `ThreadOrderKept` speaks of one thread. Text is
  written into JSON unescaped (`:162`).

## 6. What is abstracted, and what is not modelled

- EXI coding (OpenV2G) and TLS (mbedTLS) are external. A request is a record
  that says what the decoder finds in it; a response is a record of the fields
  its builder sets, as far as a property tells them apart. `CodecRejects` names
  the responses that OpenV2G would fail to encode or decode back.
- A physical value is its value and its multiplier. Lengths are natural
  numbers: the wrap-around of a 32-bit length in `message_len` is not modelled.
- `tls_write` writes a response whole or fails: responses are shorter than one
  TLS record.
- The stubs `v2g_handle_*` only print, and are part of `Route` as no-ops.
- SLAC: each node runs `slac_run` once, in a process of its own (a second run
  would start with the retries of the first, and two contexts in one process
  would share the statics of `slac_step`). The `RUN_ID` is left out because every
  node copies it and none compares it. Of the 58 attenuation groups one is kept:
  the code treats all alike. The EV copies the attenuation it receives and uses
  nothing of it. An EV takes the first `ATTEN_CHAR_IND` of any station for its
  own's, which `slac_liveness` shows to do no harm on a timely line. A station can be
  matched while its EV has given up (`MATCH_CNF` lost): the model has it, and no
  property forbids it.
- SDP: addresses and ports are left out; a datagram is what the checks see of it.
  `udp_sdp_server_init` and its companions, which nothing calls, are left out.
- The log: an entry is its thread and number; level, text and time are left out but
  for the order in which `secc_log` takes the time. The exporters at the end of
  `secc_log.c` keep no state and are left out.
- Not modelled: `slac_integration.c` (an example that does not compile: it meets two
  different `SlacContext` types), the TLS key log (debug output), the usage
  examples, the empty `tcp_transport.*` and `secc/secc.c`.

## 7. Plan

1. Done: the message loop and the session (`RequestResponse`, `V2gMessages`,
   `V2gtpStream`, `SeccSession`), SLAC (`SlacMatching`, `Slac`), SDP discovery, the
   plain TCP reader, the log (`LogQueue`, `SeccLog`), with their proofs.
2. A second `slac_run` on the same context: what of key agreement survives frames
   of the run before, and two contexts that share the statics of `slac_step`.
3. 32-bit lengths in `message_len` and what they do to `offset`.
4. Proofs: the safety cores of the other liveness properties, as `MovesAreUsedUp` is
   of SLAC's: what each pass of the message loop, of the plain TCP reader and of the
   SDP exchange uses up.
5. The key-log callback and the log as callers of one another, should the
   repository come to use the log.
