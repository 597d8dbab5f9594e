# Verification of node-modbus (jsmodbus)

TLA+ models of the library's clients, byte streams, encodings and server,
checked with TLC and, for the clients, the encodings and byte streams, the RTU server's
parser, the server's tables and the conversation of a client with a server,
proved with TLAPS. Paths below are relative to the repository root.

## 1. The system

| Component | State | Operations | Where |
|---|---|---|---|
| client request line | `_requests`, `_currentRequest`, `_state`, one promise and timer per `UserRequest` | register, `_flush`, handle, timeout, reject by hand, connect, close | `src/client-request-handler.ts`, `src/user-request.ts` |
| Modbus/TCP client | `_requestId`, unit id | register, handle (id and protocol checks), connect, close | `src/tcp-client-request-handler.ts` |
| Modbus/RTU client | address | register, handle (CRC check), open | `src/rtu-client-request-handler.ts` |
| client API, response loop | none of its own | read and write calls, `manuallyClearRequests`, `_onData` | `src/modbus-client.ts` |
| client response framing | `_buffer`, `_messages` | `handleData`, `shift`, `fromBuffer` | `src/*-client-response-handler.ts`, `src/*-response.ts` |
| server request framing | `_buffer`, `_requests`, `resyncing` | `handle`, `shift`, `fromBuffer` | `src/modbus-server-request-handler.ts`, `src/*-request.ts` |
| server connections, tables | `coils`, `discrete`, `holding`, `input`; the request queue of each connection | `_onData`, one handler per function code, the events they emit | `src/modbus-server*.ts` |
| request and response bodies | none | `fromBuffer`, `createPayload` | `src/request/`, `src/response/`, `src/buffer-utils.ts` |
| errors, metrics | none of the protocol | | `src/errors/`, `src/user-request-metrics.ts` |
| sockets, command line, examples | outside | | `src/Duplex*.ts`, `bin/`, `examples/` |

**How they interact.** A client call builds a request body, the request
handler wraps it in a `UserRequest` and queues it. `_flush` starts one request
at a time: it arms the timeout and writes to the socket. The socket's `data`
event feeds the response handler, which cuts the bytes into responses; `_onData`
hands each one to the request handler, which settles the current request's
promise and flushes the next. The socket's `connect`, `open` and `close` events
change `_state`. On the server each connection has a `ModbusServerClient`: its
`data` event feeds a request handler that queues requests, then a loop hands
them to the response handler, which reads or writes the shared tables, or gives
the request to a listener, and answers through a callback.

**What is hard.** Node runs one callback at a time, so there is no data race;
the trouble is the order of callbacks. Answers, timeouts, closes, registrations,
calls by hand and deferred flushes interleave freely; RTU answers have no id;
exceptions leave loops in the middle; streams are cut anywhere, and some bodies
parse before they are whole or never; listeners run in the middle of handlers;
a request the client has given up may still be on its way to the server.
PROJECT.json lists each hazard at its line.

**What makes each part correct.**
- Request line: one request in service, the others in order of registration,
  each promise settled exactly once, nothing forgotten or stuck.
- TCP client: an answer settles its own request; an offline client holds nothing.
- RTU client: a wrong answer needs a cause the user can know of.
- Encodings: the reader of a message understands what its sender asked for.
- Streams: messages come out whole, in order, and independent of how the bytes
  are cut; nothing that has arrived is held back; the buffer is bounded.
- Tables: no update is undone, refused writes leave no trace, reads are exact,
  each request is answered once, each request is handled in its turn.
- End to end: a request is carried out at most once; the last acknowledged
  write stands and is read.

## 2. The modules

**`RequestLine`** is the abstract specification of a client: requests join a
line in order, one is served, promises settle for good, the line may collapse.

**`ClientRequestHandler`** is the shared part of both clients. State: `state`
(`_state`), `current` (`_currentRequest`), `requests` (`_requests`), `outcome`
(the promises), `timers` (armed `setTimeout`s), `immediates` (`setTimeout(_flush, 0)`),
`issued` (the function codes registered), and the outside: `link`, `delivered`
(requests the peer holds), `inbox` (responses on their way), `messages`
(`_messages`). Each callback is one action: `Register`,
`ManuallyRejectRequests`, `CustomErrorRequest`, `TimeoutFires`,
`ImmediateFires`, `LinkUp`, `DataEvent`. `_flush` and `_clearAllRequests` are
the operators `Flush` and `ClearAllRequests`, so every action contains the
flush or clear its handler makes. The loop of `_onData` takes one response per
step (`Handling`); `draining` keeps other callbacks out, as Node does. An
exception response with an unknown code throws in the loop (`UnknownException`).
The peer's actions `Answer` and `Misbehave` are external.

**`TcpClient`** adds ids modulo `IdMod` (0xFFFF in the code), the protocol check, `OnConnect`
and `OnClose`. **`RtuClient`** adds the CRC check, `OnOpen`, and `PortClose`,
which changes no variable of the handler because nothing listens to it.

**`ModbusPdu`** holds the encodings as operators over sequences of bytes,
numbered from 1: of each class in `src/request/` and `src/response/` its
`fromBuffer` (`...Request`, `...Response`; `Null` when it returns null or
throws into its caller's `catch`) and its `createPayload` (`...Payload`), the
two factories, and the TCP and RTU frames around the bodies. A frame knows how
many bytes its caller takes off the buffer (`consumed`). The limits of the code
are constants; the CRC is a constant operator, about which nothing is assumed.

**`ByteStream`** runs those operators over a stream. `reader` chooses one of
the TCP server, the TCP client and the RTU client; a data event brings any
number of bytes, even none of the next message or half of it; the loop takes
one message per step (`ParseOne`, `WaitForMore`); `Reconnect` loses the bytes
under way and, on a server only, the buffer. `ParsesEarly` and `NeverParses`
name the bodies that parse before they are whole, and those that never do.
`chopped` and `stale` are history: a data event ended inside a body that parses
early, a client's connection was lost in the middle of a response.

**`RtuRequestStream`** is the fourth reader, the RTU server's parser, which
slides over interference. Of a byte it keeps the frame and position it was sent
in and its *claim*: the length of the frame it would announce in the place of a
function code, 0 if it is none. (A byte that is not a known function code never
parses: `ExceptionRequestBody` throws for it and `RequestFactory.fromBuffer`
returns null.) A data event brings any number of bytes; the loops of `handle`
and `_onData` take one iteration per step. One claim is special: `handle()`
describes each parsed request to its debug log, the description asks for
`body.address`, and the device identification body throws when it is asked
(`DescribeThrows`). The message is formatted whether or not logging is on: it is an
argument built before the call.

**`ServerMemory`** is the server behind the parser: connections, their request
queues (newest first, as `unshift` and `shift` make them), the tables, one
action per handler, and the points where the handlers emit events, at which the
application may write to the tables (`AppWrite`), throw (`HookThrows`) or answer
(`ListenerAnswers`). `stage` names the point: "pre" for the `pre...` events;
"mid" for `writeMultipleCoils`, between the computing of the new coils and their
storing; "stored" for the `post...` events of the two multiple writes that come
after the fill and before the answer (`modbus-server-response-handler.ts:370`
and `:408`), so that `FillCoils` or `WriteMultipleRegisters` stores and
`Acknowledge` answers; "post" for the `post...` events after the answer. (The
`writeMultipleRegisters` event at `:403` finds the state its `pre...` event
finds, and is one with it.) A listener keeps the callback it is given (`given`)
and may call it at once, later, or often, of requests the handler answers too;
what it answers is in `heard`, what the handler answers in `replies`. Each
connection has the unit id of its server: servers given no tables share the
default ones, so their connections meet here. A read whose byte count is above
`MaxByteCount` throws. `updates` is the history of the stored writes and of the
changes of the application. `Meant` is what the last of them that covers a cell
says it holds; it is computed from the request, without the operators that fill
the tables.

**`Conversation`** composes `TcpClient` with a server of one register, the
peer being no longer arbitrary. A request the client writes goes to the end of
its connection's wire; a data event of the server takes any number of requests
off one wire and serves them newest first; the answer returns if the connection
still stands. A close leaves any prefix of what was written to arrive later.

The modules ending in `Proofs` hold the theorems; those beginning with `MC` give
the constants of the small instances. Operators named `X_Y` above a definition `X` are
mutants of it: plausible mistakes, used to show that a property notices them.

## 3. What the runs check

| Run | Instance | Shows |
|---|---|---|
| `tcp` | 3 requests, 2 codes, 2 responses under way, ids modulo 2, correct peer | the request line's invariants, refinement of `RequestLine`, no cross-talk, causes of OutOfSync |
| `tcp_faulty` | 2 requests, noise of every kind | settlement and departure under fairness |
| `rtu` | 3 requests, 2 codes, 1 response under way, damaged responses | the inductive invariant, refinement, causes of cross-talk and loss, departure under fairness |
| `framing` | each reader, 2 messages out of 14 requests or 15 responses, 34 bytes, 2 connections, every cut | whole messages in order, their meaning, nothing held back, connections kept apart, what wedges |
| `rtu_stream` | three short frames, one of them a device identification, 2 bursts of interference, chunks of 1 to 6 bytes, MaxAdu 7 | bounded buffer, order, losses explained |
| `memory` | 2 connections of two servers, 3 requests out of 13, at most 2 in a data event, one change or answer by the application | the properties of the tables and of the handling loop |
| `conversation` | 3 requests, 2 connections, ids that do not wrap, correct peer | at most one execution, the fate of acknowledged writes |
| `rtu_split`, `rtu_recovery`, `rtu_identify`, `memory_illegal`, `framing_as_sent` | | disagreements of code and documentation, below |

**Why the bounds are enough.** The clients' hazards need at most three
requests: one given up, one whose answer is wrong, one in the queue to suffer.
With `IdMod` = 2 the third request reuses the id of the first, which is the
wrap-around. Several responses in one data event are in `tcp`; `rtu` has one
under way at a time, and damage to it instead. In the streams, two messages
give every pair of a message and what follows it, and two connections a
message torn by a reconnect. The limits of `ModbusPdu` are scaled to 4 cells
read, 3 registers written with a cut after 10 bytes, 8 packed coils, so that a
message on either side of each limit fits on the wire: the code's own limits
stand in the same order. In `rtu_stream`, three frames with interference
before, between and inside the parser's view give every alignment of a short
frame; the bursts contain a plausible function code, garbage, and a code whose
announced length never comes; 7 is smaller than two frames, so the limit is
reached. In `memory` three requests let a throw leave one behind while a newer
one arrives; the registers have an odd number of bytes, so an address lies
half inside the table; `MaxByteCount` 3 makes a read of two registers too
long; one of the coils written is neither on nor off. `MaxAppActs` allows one
change or one answer of the application: each property needs one to be put to
the test, at every stage. In `conversation` two connections and three requests give a write that
was given up, one that overtakes it, and a read of the outcome.

**Deadlock** is not checked in the runs of streams and servers but `rtu_recovery`,
whose master goes on for ever: with all messages or requests of the bounded instance
handled, or all connections used, the system rightly stops. The clients alone
never stop: their links go up and down for ever.

**Fairness.** A loop that has begun in Node's single thread runs on (weak
fairness of the draining steps). A timer that is due is served in every turn
of the event loop, however many data events are served too (strong fairness of
`TimeoutFires`: other callbacks interrupt its enabledness only while a loop is
running). Nothing is assumed of users, sockets or peers. For `Recovers` the
master is assumed to go on sending and the line to go on delivering: the
property asks what the parser makes of it.

**The properties**, beyond types.
- `OneInFlight`: timers are armed for the request in service only, which is
  what makes "clear the current request" in a timeout callback right.
  `NoStall`, `NoOrphan`, `OfflineIdle`: nothing waits unserved or is forgotten.
- `NoCrossTalk` (TCP): a stranger's answer needs a whole round of ids.
  `CrossTalkHasCause` (RTU): a stranger's answer resolves a request only if
  their function codes agree and some earlier request was given up or had a
  damaged response. `LossHasCause`: with a correct peer OutOfSync strikes only
  after a request was given up, a damaged response or a closed connection.
- `ParsedWhole`, `ValuesAsAsked`, `NothingHeldBack`, `ConnectionsSeparate`: a
  stream is a queue of messages that does not depend on how it is cut, with
  the exceptions of `chopped`, `stale` and `NeverParses` and no others.
  `StuckForGood`: what wedges a TCP reader, and how far it spreads. Where a
  message can mean something else when it arrives, `Means` says how far the
  damage goes; that there is any is what `framing_as_sent` shows.
- `LostUpdateHasCause`: a cell holds what the last update of it says, wherever
  listeners write and throw. `AcknowledgedIsStored`: effect and answer agree;
  only a listener that throws between fill and answer leaves a write stored
  that its master never hears of. `AnsweredOnce`: the handler's own answers,
  whatever listeners answer besides. `ReadsSeeUpdates`, `LeftBehindHasCause`,
  `OutOfOrderHasCause`: see the comments in `ServerMemory`.
- `ServedOnce`, `WritesLast`, `ReadsSeeWrites`: nothing repeats a request; an
  acknowledged write is undone only by an older write that was given up and
  came back, in the same data event or from an earlier connection.

Several state the exact cause of an imperfection of the code (a coil written
in a `writeMultipleCoils` listener is lost; several requests in one data event
are handled newest first): they hold, and would fail if the damage spread.

### Findings

1. `rtu_split`: a frame whose first byte arrives alone is lost
   (`src/modbus-server-request-handler.ts:54`).
2. `rtu_recovery`: after half a frame, the parser can swallow the start of
   every following frame for ever (`src/modbus-server-request-handler.ts:86`):
   `01 03 00 01` followed by repetitions of `01 03 00 01 00 01 D5 CA` in
   whole frames is never heard.
3. `rtu_identify`: a device identification request, function 43/14, which
   `README.md:8` lists as supported, is never served over RTU, nor is anything
   behind it: describing it for the debug log throws (`src/rtu-request.ts:119`)
   before it is queued or taken off the buffer, which grows with every data
   event from then on.
4. `memory_illegal`: a write to the first register beyond the table, or to any
   coil beyond it, throws instead of being refused with exception 0x02
   (`src/modbus-server-response-handler.ts:316` and `:260`).
5. `framing_as_sent`: seven bodies do not arrive as they were sent, against
   "Returns null if the buffer does not contain enough data" (`src/tcp-request.ts:60`,
   `src/tcp-response.ts:73`) and the words on their own fields. TLC reports the
   first behaviour it finds; each body alone violates the property.
   Cut by a data event, a read of holding registers is answered with those that
   have come (`TwoRead`), a write of registers carries out as much
   (`TwoRegisters`), and the MEI type of a refused device identification is
   taken for its exception code (`LongRefusal`). A write of 121 to 123 registers
   loses its last ones over TCP (`TooManyRegisters`); coils beyond 1968 are
   written from uninitialised memory (`TooManyCoils`); a short refusal of a
   device identification never parses on a serial line (`ShortRefusal`); a coil
   that is neither on nor off is written off, and the exception for it is
   unreachable (`NeitherOnNorOff`, `src/modbus-server-response-handler.ts:263`).

Two more the models show but no run asks for: the RTU client says online after
its port has closed (`src/rtu-client-request-handler.ts:36` subscribes to `open`
only; `PortClose` leaves `state` alone), and `manuallyRejectRequests(n)` rejects
one request (`src/client-request-handler.ts:143`; a rejected request stays
current until its answer or its timeout, see `ManuallyRejectRequests`).

## 4. What is proved

**The clients**, for every number of requests and responses, every set of
function codes, every noise set and every id modulus (`BoundsAssumption`,
`NoiseAssumption`, `IdModAssumption`), both for `TcpClient` and for `RtuClient`:

- `IInv`, `TypeOK`, `OneInFlight`, `NoStall`, `NoOrphan`; for TCP also `OfflineIdle`,
  `OnlineIsConnected` and `NoCrossTalk`;
- the refinement `Spec => ImplementsRequestLine`.

None of the others is inductive alone. `OneInFlight` needs
to know that a queued request has no timer; `NoOrphan` that the queue holds
every pending request but the current one; a timeout may clear the current
request only because it is the one with the timer. `IInv` says it all at once:
with n requests registered, the queue is strictly increasing, above the current request,
consists of pending requests, and every pending request is the current one or in the queue; the
armed timers are those of the current request; a non-empty queue has
a current request; an offline client has none. `ClientRequestHandlerProofs`
proves that `Flush`, from any line that satisfies it, produces such a line
again, and that each shared action keeps it; `TcpClientProofs` and
`RtuClientProofs` add the transports' actions. From `IInv` the module also maps
each step to a step of `RequestLine` or to a stutter: a clear is
`Collapse`, a finished or timed-out request `Depart`, a rejection by hand
`SettleEarly`, an offline registration `Refuse`.

*What travels.* The other properties of the clients are about answers, so their
invariants are about what is on its way. `ClientRequestHandlerProofs` defines it
once for both: `TrafficInv` says that requests leave the queue from its front only,
so those behind the current request are pending, and the peer has heard of no
later request, hence no response under way or parsed answers one. Every step
moves the line on (`MovesOn`), and can add to the responses, take some away, or
pass them on, but nothing else (`Traffic`).

- `NoCrossTalk` (TCP, `TcpClientProofs`): of a request before the current one
  whose id agrees with the current one's, the number is a multiple of the
  modulus lower (`CrossTalkInv`).
- `LossHasCause` (both), `CrossTalkHasCause` (RTU): an undamaged answer comes
  once, in the function code of its request, and it is the one of the request
  in service unless that request or an earlier one was given up (`AnswerInv`).
  `CauseInv` joins this with the two properties; every step lets the service
  stay, gives it up or ends it with the first response (`Ending`), and the
  proof follows each. The peer answers a request at most once: for TCP the
  noise may hold nothing but answers to other units, for RTU also damaged
  answers. These are hypotheses of the theorems, for a peer that invents
  answers needs no cause; the instances of `tcp` and `rtu` satisfy them, and
  TLC checked `CauseInv` there.

**The RTU server's parser**, for every set of frames, bursts and chunk sizes and
every `MaxAdu` (`FrameAssumption`, `StreamAssumption`): `TypeOK`,
`BufferBounded`, `LossHasCause`, and, for a master that sends
each frame once (`~Endless`), `AcceptedInOrder`. The bound rests on `BufferInv`:
in the idle phase the buffer is short or a request in it throws. The order rests
on `OrderInv`: the buffer followed by the wire is one stream in the order of
sending, of which the parser only takes a front, and the queued or handled
frames lie before it. `LossHasCause` rests on `AlignInv` and `IdleInv`: without
interference, and if no data event ended behind the first byte of a frame, the
parser is always at the start of a frame, so buffer and wire together are whole
frames, and each frame sent is handled or among them; outside the parsing loop
no whole request is left in the buffer except one that throws. Neither asks
what the master does, so the theorem covers the endless one as well.

**The other three readers** (`ByteStreamProofs`), for every set of messages, every
limit, every CRC function and any number of messages and connections: `TypeOK`,
`ConnectionsSeparate`, the action property `StuckForGood`, `ValuesAsAsked`, and for
the TCP server and the TCP client `ParsedWhole` and `NothingHeldBack`. `MessageAssumption` says
what the messages are: the bodies of the library with numbers in their fields
and of a size whose encoding is bytes, the refusals in both layouts, and any
bytes behind a function code the library does not know; `LimitAssumption`
orders the limits as the code does.

`EncodingProofs` is about the encodings alone. One part is types: what a frame
takes off the buffer is the length of a body encoded again, so what `fromBuffer`
yields must be fit to be encoded, for each class. Another is what the
bytes say to a parser. A request or a response has a form (`RequestForm`,
`ResponseForm`): its length and the few bytes the parser looks at. Of a buffer
that begins with a whole message the parser takes that message and no more, or
nothing if `NeverParses` names it; of one that holds a proper front of a message
it takes nothing unless `ParsesEarly` names it (`Speaks`, `EncodedSpeaks`). The
third is what the bytes mean. `RequestContent` and `ResponseContent` say for each
class which byte holds which number, `RequestRead` and `ResponseRead` that this is
what `fromBuffer` reads of it, within the limits `Means` names: a byte count cut
off, 1976 coils at most, memory of the process behind them, a coil neither on nor
off read as off. Bits are packed with the weights 1 to 128 and
read back by division (`EightBits`: a sum of different weights gives back each
of them). A body that parses early yields a front of what was sent
(`ResponseReadEarly`). The RTU client measures a body by encoding it again, so
what it reads must lead back to the bytes it came from (`ResponseReadAgain`).
`EncodedSays` joins these for the three readers.
Recursion comes in with the objects of a device identification and with the
concatenation of parts: what holds of them is shown from the least number that
would break it (`LeastNumber`, `Induction`, `Recursion`), because the library's
induction theorems cannot be instantiated.

`OwnerInv` says whose bytes are where: those on the wire belong to the
connection that stands, those in the buffer too unless a client kept them over
a reconnect. `WholeInv` is the alignment. While nothing is `chopped` or `stale`,
the buffer followed by the wire is a chain of whole messages in the order of
sending (`Linked`); the edge between them does not lie where a body parses early
(`CleanEdge`); each message parsed is whole and older than all that follow
(`TakenWhole`); and each message sent is lost, in the stream or parsed
(`Accounted`). So the loop always begins where a message begins and takes just
that message, or stops; when it stops with a whole message in front, that
message never parses, and it is `InTheWay` of everything behind it. A stuck
reader stays so because a TCP frame depends on the bytes it claims to be long
and on no other (`TcpParseLocal`).

`ValuesAsAsked` needs less than that alignment and so holds where it is lost, of
the RTU client too, and whatever CRCs match. `SenseInv` is its invariant: buffer
and wire hold bytes of messages in the order of sending, where whole ends may be
missing (`Chained`); on the wire no message lacks its end (`Continued`); unless a
data event ended there, what has arrived does not end where a body parses early
(`SoundEdge`); and each frame taken from the first byte of a message on, and from
that message only, means what it says (`Understood`). A frame that begins where
a message begins finds that message in front of it, whole or torn; if whole,
`EncodedSays` gives its meaning, and if torn, either nothing is parsed or the body
parses early, which `SoundEdge` allows only after `chopped`, and `Means` then
names what may be missing. TLC checked the invariant's parts on the instance
of `framing`.

**The server's tables** (`ServerMemoryProofs`), for every number of requests and
connections, every table size and every set of words (`ServerAssumption`;
`ApplicationAssumption` keeps the application's cells inside the tables):
`TypeOK`, `LostUpdateHasCause`, `AcknowledgedIsStored`, `AnsweredOnce`,
`LeftBehindHasCause`, `OutOfOrderHasCause` and the action property `ReadsSeeUpdates`. They rest on one
invariant, `SMInv`. Its parts: each request waits in the queue of its
connection, newest first, and once (`QueueInv`); what waits belongs to the data
event that runs, unless an exception left it behind (`EventInv`); what was
shifted before an older request that still waits came in the same event
(`ShiftInv`); the request a handler works on is off its queue, newer than all
that wait, and unanswered until the tables are done with it (`StageInv`); a
request still waiting has no answer, one that was shifted has exactly one unless
it threw or is a listener's (`AnswerInv`); every cell has a last update among
those that cover it, if any (`LatestInv`); a write not yet stored has no update,
one about to be answered has, and effect and answer agree for every request
shifted (`StoreInv`); the new coils a handler holds while
the listeners run differ from the right ones by the application's changes only
(`StatusInv`). The proof sorts the steps into three kinds, the arrival of
requests, the shift of one, and the quiet ones in between, and shows once for
each kind what the queues do; what remains per handler is its effect on the
answers, the tables and the updates (`HandlerShapes`, `HandlerStores`).
`MeantAdds` says what one more update does to `Meant`: it is the last one of the
cells it covers and leaves the others to theirs. Nothing is assumed of the
application but that the cells it writes exist: it writes, answers and throws at
every event.

**The conversation** (`ConversationProofs`), for every number of requests and
connections: `ConversationTypeOK`, `ServedOnce`, `WritesLast` and
`ReadsSeeWrites`. A correct network (`Noise = {}`) and ids that do not wrap are
assumptions of the module (`ConversationAssumption`). Every step of the
conversation is a step of `TcpClient` as far as the client's variables go
(`StepOfClient`), so the client's invariants hold here without a new proof, and
with them that an answer settles its own request. `ConvInv` adds the server's
side: requests travel in order, each once, and an older one still to be served
comes in the same data event or by an older connection (`InOrder` of `ConversationTypeOK`, `WireInv`, `BatchInv`,
`ServedInv`); a request served after a younger one was given up, and came so
(`OvertakenInv`); answers are answers to served requests, and settle their own
(`FlowInv`); the register, and each value read, is what the write served last
before left (`RegisterInv`). TLC checked the server's side on the instance of
`conversation`.

**Only model-checked**: the liveness properties (`ENABLED` and fairness are out
of the prover's reach), the findings, and the RTU client's share of
`ParsedWhole` and `NothingHeldBack` (they rest on the CRC telling messages apart,
which the instance's does and no code can promise).

## 5. What is not modelled

- The checks of arguments in the constructors of bodies, and a `createPayload`
  that throws inside `_flush`; write errors of sockets, which the code ignores too.
- An exception in a callback ends the callback; the process is assumed to
  survive it (an `uncaughtException` listener, as servers have).
- In `RtuRequestStream` CRCs match exactly for undamaged frames: accidental
  matches are ignored. A write of 121 to 123 registers, whose byte count is cut
  off, always counts as corrupted there; the module announces true lengths.
- The half register at the end of an input table of odd length: a read across
  it answers with an odd number of bytes. `ServerMemory` has whole cells.
- `bufferShift` and other helpers of `src/buffer-utils.ts` that nothing calls.
- `Conversation` has a correct network and no RTU; its server serves what
  `ServerMemory` and `ByteStream` model in detail.
- Sockets, command line, examples, metrics and error classes: no state of
  the protocol.

## 6. Plan

Done, with proofs: the clients, the readers of bytes and the meaning of the
encodings, the server's tables, the composition of a TCP client and a server.

1. `Conversation` over RTU, where answers carry no id, and with responses lost.
2. A register file with atomic reads and writes, implemented by `ServerMemory`
   where no listener changes the tables.
