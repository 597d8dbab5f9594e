---------------------------- MODULE ServerMemory ----------------------------
(* The server side behind the byte stream: every connection's                *)
(* ModbusServerClient takes the requests its parser queued, newest first,    *)
(* and the shared ModbusServerResponseHandler serves them from the server's  *)
(* four tables.  A table given as null has no cells: its requests go to a    *)
(* listener of the application, which answers when it likes.  Servers that   *)
(* are given no tables share the default ones, which are made once: their    *)
(* connections are connections here, each with its server's unit id.         *)
(*                                                                           *)
(* Node runs one data event to its end.  Inside it the handler stops only    *)
(* where it emits an event: there (stages "pre", "mid", "stored" and "post") *)
(* listeners run, may change the tables and may throw.  Those of the pre...  *)
(* and post... events are given the request's callback and may call it, then *)
(* or later.                                                                 *)
EXTENDS Integers, Sequences, SequencesExt, FiniteSets

CONSTANTS
  Conns,             \* connections
  Requests,          \* the request bodies masters send
  Tables,            \* the tables that are not null
  Bytes,             \* length of each table's Buffer
  Words,             \* register values
  ServerId,          \* options.id of each connection's server; 0 is no id
  MaxByteCount,      \* what the byte count of a response can say (255)
  IdentifyListener,  \* a readDeviceIdentification listener is registered
  AppCells,          \* the cells <<table, address>> the application changes
  MaxRequests,       \* bound: requests in all
  MaxChunk,          \* bound: requests in one data event
  MaxAppActs         \* bound: changes and answers by the application

VARIABLES
  received,   \* history: [conn, event, body] of every request, by id
  queue,      \* _requests of each connection's request handler (ids)
  running,    \* the connection whose _onData runs, or Idle
  stage,      \* where it stands: "loop", "pre", "mid", "stored" or "post"
  current,    \* the request being handled
  newStatus,  \* newStatus of _handleWriteMultipleCoils
  table,      \* the server's tables
  given,      \* external: requests whose callback listeners have been given
  heard,      \* history: the requests listeners answered, in that order
  replies,    \* history: what the handler itself answered to each request
  order,      \* history: ids in the order they were shifted
  threw,      \* history: requests whose handling ended in an exception
  hookThrew,  \* history: those where a listener threw it
  updates,    \* history: the updates of the tables, in their order
  clobbered,  \* history: coils the application set while a write was in "mid"
  appWrites   \* bound counter

memory == <<table, updates, clobbered>>
app == <<given, heard, appWrites>>
vars == <<received, queue, running, stage, current, newStatus, replies, order, threw, hookThrew,
          memory, app>>

-----------------------------------------------------------------------------
Idle == "idle"
BitTables == {"coils", "discrete"}
TableNames == BitTables \cup {"holding", "input"}

Cells(t) == 0 .. (IF t \in BitTables THEN 8 * Bytes[t] ELSE Bytes[t] \div 2) - 1
Values(t) == IF t \in BitTables THEN BOOLEAN ELSE Words

\* Which table a request body asks for.
TableOf(body) ==
  CASE body.kind \in {"readCoils", "writeCoil", "writeCoils"} -> "coils"
    [] body.kind = "readDiscrete" -> "discrete"
    [] body.kind \in {"readHolding", "writeRegister", "writeRegisters"} -> "holding"
    [] body.kind = "readInput" -> "input"
    [] OTHER -> "none"
Reads == {"readCoils", "readDiscrete", "readHolding", "readInput"}
Writes == {"writeCoil", "writeCoils", "writeRegister", "writeRegisters"}

\* WriteSingleCoilRequestBody.fromBuffer: whatever is not 0xFF00 is off.
ParsedCoil(w) == w = "FF00"
Written(body) == IF body.kind = "writeCoil" THEN <<ParsedCoil(body.vals[1])>> ELSE body.vals

ASSUME ServerAssumption ==
  /\ Tables \subseteq TableNames /\ Bytes \in [Tables -> Nat]
  /\ IdentifyListener \in BOOLEAN /\ ServerId \in [Conns -> Nat]
  /\ MaxByteCount \in Nat
  /\ \A b \in Requests :
       /\ b.kind \in Reads \cup Writes \cup {"identify", "badMei", "badReadCode"}
       /\ b.at \in Nat /\ b.n \in Nat \ {0} /\ b.unit \in Nat
       /\ b.kind \in {"writeCoil", "writeRegister"} => b.n = 1
       /\ b.kind = "writeCoils" => b.vals \in [1..b.n -> BOOLEAN]
       /\ b.kind \in {"writeRegister", "writeRegisters"} => b.vals \in [1..b.n -> Words]
ASSUME ApplicationAssumption ==
  /\ Idle \notin Conns /\ Words # {}
  /\ \A cell \in AppCells : cell[1] \in Tables /\ cell[2] \in Cells(cell[1])
ASSUME BoundAssumption ==
  {MaxRequests, MaxChunk, MaxAppActs} \subseteq Nat

Ids == DOMAIN received
Body(r) == received[r].body
Addressed(body) == body.at .. body.at + body.n - 1
\* Mutant: a write beyond the end makes the table longer.
Updated_Grows(t, body) ==
  [a \in DOMAIN t \cup Addressed(body) |->
     IF a \in Addressed(body) THEN Written(body)[a - body.at + 1] ELSE t[a]]
\* The cells of table t after a write of body.
Updated(t, body) ==
  [a \in DOMAIN t |-> IF a \in Addressed(body) THEN Written(body)[a - body.at + 1] ELSE t[a]]

Exception(code) == [kind |-> "exception", code |-> code]
Success == [kind |-> "success"]
\* start .. start + count of a table; a Buffer's slice ends with the Buffer.
Existing(t, body) == Cardinality(Addressed(body) \cap DOMAIN t)
Slice(t, body) ==
  [kind |-> "values", vals |-> [i \in 1..Existing(t, body) |-> t[body.at + i - 1]]]
\* createPayload writes the length of the slice into one byte, or throws.
Fits(body) ==
  LET n == Existing(table[TableOf(body)], body)
  IN (IF TableOf(body) \in BitTables THEN (n + 7) \div 8 ELSE 2 * n) <= MaxByteCount

-----------------------------------------------------------------------------
BlankTable(t) == [a \in Cells(t) |-> IF t \in BitTables THEN FALSE ELSE CHOOSE w \in Words : TRUE]
Init ==
  /\ received = <<>> /\ queue = [c \in Conns |-> <<>>]
  /\ running = Idle /\ stage = "loop" /\ current = 0 /\ newStatus = <<>>
  /\ table = [t \in Tables |-> BlankTable(t)]
  /\ replies = <<>> /\ order = <<>> /\ threw = {} /\ hookThrew = {}
  /\ updates = <<>> /\ clobbered = {}
  /\ given = {} /\ heard = <<>> /\ appWrites = 0

(* A data event of connection c in which the parser finds these requests:    *)
(* it unshifts one after the other, then _onData begins its loop.            *)
DataEvent(c, bodies) ==
  /\ running = Idle /\ Len(received) + Len(bodies) <= MaxRequests
  /\ LET first == Len(received) + 1
         new == [i \in 1..Len(bodies) |-> first + i - 1]
     IN /\ received' = received \o
             [i \in 1..Len(bodies) |-> [conn |-> c, event |-> first, body |-> bodies[i]]]
        /\ queue' = [queue EXCEPT ![c] = Reverse(new) \o @]
        /\ replies' = replies \o [i \in 1..Len(bodies) |-> <<>>]
  /\ running' = c /\ stage' = "loop"
  /\ UNCHANGED <<current, newStatus, memory, app, order, threw, hookThrew>>

-----------------------------------------------------------------------------
(* The loop of _onData.                                                      *)
Answer(r, a) == replies' = [replies EXCEPT ![r] = Append(@, a)]

LoopEnds ==
  /\ running # Idle /\ stage = "loop" /\ queue[running] = <<>>
  /\ running' = Idle
  /\ UNCHANGED <<received, queue, stage, current, newStatus, memory, app, replies, order,
                 threw, hookThrew>>

\* shift() and the unit check.
Take(r) ==
  /\ running # Idle /\ stage = "loop" /\ queue[running] # <<>> /\ r = Head(queue[running])
  /\ queue' = [queue EXCEPT ![running] = Tail(@)]
  /\ order' = Append(order, r)
  /\ UNCHANGED <<received, running, newStatus, memory, threw, hookThrew, heard, appWrites>>
\* Mutant: requests for other units are served too.
ForUs_AnyUnit(r) == TRUE
ForUs(r) == ServerId[received[r].conn] \in {0, Body(r).unit}

OtherUnit(r) ==
  /\ Take(r) /\ ~ForUs(r)
  /\ UNCHANGED <<stage, current, given, replies>>

\* A device identification with a bad MEI type or read code: no event is
\* emitted.  (The exception for an unknown function code is never built: such a
\* request does not parse.)
Refused(body) == body.kind \in {"badMei", "badReadCode"}
RefuseIdentify(r) ==
  /\ Take(r) /\ ForUs(r) /\ Refused(Body(r))
  /\ Answer(r, Exception(IF Body(r).kind = "badMei" THEN 1 ELSE 3))
  /\ current' = r /\ UNCHANGED <<stage, given>>

\* A table, or device identification: the pre... event is emitted, with the
\* request and its callback.
Begins(body) == TableOf(body) \in Tables \/ body.kind = "identify"
Begin(r) ==
  /\ Take(r) /\ ForUs(r) /\ Begins(Body(r))
  /\ given' = given \cup {r}
  /\ stage' = "pre" /\ current' = r /\ UNCHANGED replies

\* No table: the request and its callback go to the listener.
HandToListener(r) ==
  /\ Take(r) /\ ForUs(r) /\ ~Begins(Body(r)) /\ ~Refused(Body(r))
  /\ given' = given \cup {r}
  /\ stage' = "post" /\ current' = r /\ UNCHANGED replies

-----------------------------------------------------------------------------
(* The handlers, from the pre... event on.                                   *)
Serving(kinds) ==
  /\ running # Idle /\ stage = "pre" /\ Body(current).kind \in kinds
  /\ UNCHANGED <<received, queue, current, order, hookThrew, app>>

\* An exception leaves handle() and _onData: what is queued stays queued.
Throw ==
  /\ threw' = threw \cup {current}
  /\ running' = Idle /\ stage' = "loop"
  /\ UNCHANGED <<newStatus, memory, replies>>
Reply(a) ==
  /\ Answer(current, a)
  /\ stage' = "post"
  /\ UNCHANGED <<running, newStatus, threw>>
\* A refused write returns without a post... event.
Refuse ==
  /\ Answer(current, Exception(2))
  /\ stage' = "loop"
  /\ UNCHANGED <<running, newStatus, threw, memory>>
\* Table t becomes cells; the write counts as an update.
ByRequest(r) == [req |-> r]
Fill(t, cells) ==
  /\ table' = [table EXCEPT ![t] = cells]
  /\ updates' = Append(updates, ByRequest(current))
  /\ UNCHANGED clobbered
Store(t) == Fill(t, Updated(table[t], Body(current)))

\* Mutant: the read starts one cell late.
Read_OffByOne ==
  /\ Serving(Reads \ {"readHolding"})
  /\ Reply(Slice(table[TableOf(Body(current))], [Body(current) EXCEPT !.at = @ + 1]))
  /\ UNCHANGED memory
Read ==
  /\ Serving(Reads \ {"readHolding"})
  /\ IF Fits(Body(current))
     THEN Reply(Slice(table[TableOf(Body(current))], Body(current))) /\ UNCHANGED memory
     ELSE Throw

\* ReadHoldingRegistersResponseBody.fromRequest asserts the range.
ReadHolding ==
  /\ Serving({"readHolding"})
  /\ IF Bytes["holding"] >= 2 * (Body(current).at + Body(current).n) /\ Fits(Body(current))
     THEN Reply(Slice(table["holding"], Body(current))) /\ UNCHANGED memory
     ELSE Throw

\* readUInt8 of the coil's byte throws beyond the table, before either
\* exception response is reached.
WriteSingleCoil ==
  /\ Serving({"writeCoil"})
  /\ IF Body(current).at \in Cells("coils")
     THEN Reply(Success) /\ Store("coils")
     ELSE Throw

\* Mutant: a write beyond the table succeeds and stores nothing.
WriteSingleRegister_Silent ==
  /\ Serving({"writeRegister"})
  /\ IF 2 * Body(current).at > Bytes["holding"] THEN Refuse
                                                ELSE Reply(Success) /\ Store("holding")
WriteSingleRegister ==
  /\ Serving({"writeRegister"})
  /\ LET offset == 2 * Body(current).at
     IN CASE offset > Bytes["holding"] -> Refuse
          [] offset + 2 <= Bytes["holding"] -> Reply(Success) /\ Store("holding")
          [] OTHER -> Throw    \* writeUInt16BE is out of range

\* Mutant: registers are written before the range is checked.
WriteMultipleRegisters_CheckedLate ==
  /\ Serving({"writeRegisters"})
  /\ IF 2 * Body(current).at + 2 * Body(current).n > Bytes["holding"]
     THEN /\ Answer(current, Exception(2)) /\ stage' = "loop"
          /\ table' = [table EXCEPT !["holding"] = Updated(@, Body(current))]
          /\ UNCHANGED <<updates, clobbered>>
     ELSE Store("holding") /\ stage' = "stored" /\ UNCHANGED replies
  /\ UNCHANGED <<running, newStatus, threw>>
\* The registers are filled and postWriteMultipleRegisters is emitted with the
\* table, all before the answer.  (The writeMultipleRegisters event in front of
\* the fill finds the tables as the pre... event does.)
WriteMultipleRegisters ==
  /\ Serving({"writeRegisters"})
  /\ IF 2 * Body(current).at + 2 * Body(current).n > Bytes["holding"]
     THEN Refuse
     ELSE /\ Store("holding") /\ stage' = "stored"
          /\ UNCHANGED <<running, newStatus, threw, replies>>

\* A listener for it answers, if there is one.
Identify ==
  /\ Serving({"identify"})
  /\ IF IdentifyListener
     THEN stage' = "post" /\ UNCHANGED <<running, newStatus, threw, replies>>
     ELSE Reply(Exception(1))
  /\ UNCHANGED memory

\* newStatus is computed, then the writeMultipleCoils event is emitted.
WriteMultipleCoils ==
  /\ Serving({"writeCoils"})
  /\ newStatus' = Updated(table["coils"], Body(current))
  /\ stage' = "mid"
  /\ UNCHANGED <<running, threw, memory, replies>>

\* All coils are filled from it (those beyond the table are passed over) and
\* postWriteMultipleCoils is emitted with the table.
FillCoils ==
  /\ running # Idle /\ stage = "mid"
  /\ Fill("coils", newStatus)
  /\ newStatus' = <<>> /\ stage' = "stored"
  /\ UNCHANGED <<received, queue, running, current, order, replies, threw, hookThrew, app>>

\* A multiple write is answered, then its post... event is emitted.
Acknowledge ==
  /\ running # Idle /\ stage = "stored"
  /\ Reply(Success)
  /\ UNCHANGED <<received, queue, current, order, hookThrew, memory, app>>

\* Mutant: one request per data event.
HandleReturns_LoopEnds ==
  /\ running # Idle /\ stage = "post"
  /\ stage' = "loop" /\ running' = Idle
  /\ UNCHANGED <<received, queue, current, newStatus, memory, app, replies, order,
                 threw, hookThrew>>
\* The post... listeners have run; _onData takes the next request.
HandleReturns ==
  /\ running # Idle /\ stage = "post"
  /\ stage' = "loop"
  /\ UNCHANGED <<received, queue, running, current, newStatus, memory, app, replies, order,
                 threw, hookThrew>>

-----------------------------------------------------------------------------
(* The application.                                                          *)
\* It changes a cell, between data events or in a listener.
ByApplication(t, a, v) == [req |-> 0, table |-> t, at |-> a, val |-> v]
AppWrite(t, a, v) ==
  /\ stage # "loop" \/ running = Idle
  /\ appWrites + Len(heard) < MaxAppActs /\ table[t][a] # v
  /\ appWrites' = appWrites + 1
  /\ table' = [table EXCEPT ![t][a] = v]
  /\ updates' = Append(updates, ByApplication(t, a, v))
  /\ clobbered' = IF stage = "mid" /\ t = "coils" THEN clobbered \cup {a} ELSE clobbered
  /\ UNCHANGED <<received, queue, running, stage, current, newStatus, replies, order,
                 threw, hookThrew, given, heard>>

\* A listener throws.
HookThrows ==
  /\ running # Idle /\ stage \in {"pre", "mid", "stored", "post"}
  /\ hookThrew' = hookThrew \cup {current} /\ threw' = threw \cup {current}
  /\ running' = Idle /\ stage' = "loop" /\ newStatus' = <<>>
  /\ UNCHANGED <<received, queue, current, memory, app, replies, order>>

\* A listener may call the callback it was given at any time, and again, also
\* that of a request the handler answers itself.
ListenerAnswers(r) ==
  /\ r \in given /\ appWrites + Len(heard) < MaxAppActs
  /\ stage # "loop" \/ running = Idle
  /\ heard' = Append(heard, r)
  /\ UNCHANGED <<received, queue, running, stage, current, newStatus, memory, given, replies,
                 order, threw, hookThrew, appWrites>>

-----------------------------------------------------------------------------
Handler ==
  \/ Read \/ ReadHolding \/ WriteSingleCoil \/ WriteSingleRegister
  \/ WriteMultipleRegisters \/ Identify \/ WriteMultipleCoils \/ FillCoils \/ Acknowledge
Next ==
  \/ \E c \in Conns : \E k \in 1..MaxChunk : \E bodies \in [1..k -> Requests] :
       DataEvent(c, bodies)
  \/ \E r \in Ids : OtherUnit(r) \/ RefuseIdentify(r) \/ HandToListener(r) \/ Begin(r)
                    \/ ListenerAnswers(r)
  \/ LoopEnds \/ Handler \/ HandleReturns \/ HookThrows
  \/ \E cell \in AppCells : \E v \in Values(cell[1]) : AppWrite(cell[1], cell[2], v)

Spec == Init /\ [][Next]_vars

-----------------------------------------------------------------------------
Entry == [conn: Conns, event: Nat, body: Requests]
Answers == [kind: {"exception"}, code: 1..3] \cup {Success}
             \cup [kind: {"values"}, vals: Seq(BOOLEAN) \cup Seq(Words)]
Stages == {"loop", "pre", "mid", "stored", "post"}
Update(u) ==
  \/ u.req \in Ids /\ Body(u.req).kind \in Writes
  \/ u.req = 0 /\ u.table \in Tables /\ u.at \in Cells(u.table) /\ u.val \in Values(u.table)
TypeOK ==
  /\ received \in Seq(Entry) /\ \A r \in Ids : received[r].event \in 1..r
  /\ queue \in [Conns -> Seq(Ids)] /\ order \in Seq(Ids)
  /\ running \in Conns \cup {Idle} /\ stage \in Stages
  /\ current \in Ids \cup {0} /\ given \subseteq Ids /\ heard \in Seq(Ids)
  /\ DOMAIN table = Tables /\ \A t \in Tables : table[t] \in [Cells(t) -> Values(t)]
  /\ newStatus = <<>> \/ newStatus \in [Cells("coils") -> BOOLEAN]
  /\ replies \in Seq(Seq(Answers)) /\ Len(replies) = Len(received)
  /\ hookThrew \subseteq threw /\ threw \subseteq Ids
  /\ \A i \in DOMAIN updates : Update(updates[i])

\* What the last update of cell a of table t says it holds: of a write, the
\* value the master sent for it.
Covers(u, t, a) ==
  IF u.req = 0 THEN u.table = t /\ u.at = a
               ELSE TableOf(Body(u.req)) = t /\ a \in Addressed(Body(u.req))
Says(u, a) ==
  IF u.req = 0 THEN u.val
  ELSE LET body == Body(u.req)
       IN IF body.kind = "writeCoil" THEN body.vals[1] = "FF00" ELSE body.vals[a - body.at + 1]
Meant(t, a) ==
  LET covering == {i \in DOMAIN updates : Covers(updates[i], t, a)}
  IN IF covering = {} THEN BlankTable(t)[a]
     ELSE Says(updates[Max(covering)], a)

\* Every cell holds what the last update that covers it says, whether a write
\* or a change by the application, and nothing else leaves a trace: no update
\* undoes another one's cells, refused writes and those broken off before they
\* were stored change nothing.  With one exception: a coil the application sets
\* in a listener of writeMultipleCoils is overwritten with what it held before.
LostUpdateHasCause ==
  \A t \in Tables : \A a \in Cells(t) :
    table[t][a] # Meant(t, a) => t = "coils" /\ a \in clobbered

\* A read of a table answers with the cells as they were meant to be, cut off
\* at the end of the table; only the coils lost above may differ.
ReadsSeeUpdates ==
  [][\A r \in Ids :
       LET body == Body(r)
           t == TableOf(body)
           existing == Addressed(body) \cap Cells(t)
       IN body.kind \in Reads /\ t \in Tables /\ Len(replies'[r]) > Len(replies[r]) =>
            /\ Len(Last(replies'[r]).vals) = Cardinality(existing)
            /\ \A a \in existing \ clobbered :
                 Last(replies'[r]).vals[a - body.at + 1] = Meant(t, a)]_vars

\* Effect and answer agree.  A master that hears of success has its write stored
\* once, and whole unless it is one of coils that reach beyond the table; one
\* that hears an exception has nothing stored.  A write that is stored and not
\* acknowledged is either about to be, or a listener threw between the two (or
\* rather later, if it was acknowledged first).
AcknowledgedIsStored ==
  \A r \in Range(order) :
    LET body == Body(r)
        t == TableOf(body)
        storing == {i \in DOMAIN updates : updates[i].req = r}
        answers == Range(replies[r])
        underWay == r = current /\ running # Idle /\ stage = "stored"
    IN body.kind \in Writes /\ t \in Tables =>
         /\ \A i, j \in storing : i = j
         /\ Success \in answers => storing # {}
         /\ storing # {} => Success \in answers \/ underWay \/ r \in hookThrew
         /\ Exception(2) \in answers => storing = {}
         /\ storing # {} /\ body.kind # "writeCoils" => Addressed(body) \subseteq Cells(t)

\* Which requests the handler answers itself, and those it breaks off: reads of
\* holding registers and writes of a coil beyond the table, a write of the
\* register just behind it, and a read too long for its byte count.
Answered(body) ==
  \/ TableOf(body) \in Tables \/ Refused(body)
  \/ body.kind = "identify" /\ ~IdentifyListener
TooLong(body) ==
  body.kind \in Reads /\ body.n > (IF TableOf(body) \in BitTables THEN 8 * MaxByteCount
                                                                  ELSE MaxByteCount \div 2)
BreaksOff(body) ==
  \/ body.kind \in {"readHolding", "writeCoil"} /\ ~(Addressed(body) \subseteq Cells(TableOf(body)))
  \/ body.kind = "writeRegister" /\ body.at \notin Cells("holding") /\ 2 * body.at <= Bytes["holding"]
  \/ TooLong(body)

\* A request that has been dealt with was answered by the handler exactly once,
\* unless an exception cut it short, it was for another unit or it was handed
\* to a listener: then not at all, or at most once if a listener threw.  The
\* handler throws only at the requests above.  Whatever else a master hears
\* comes from a listener that was given the callback.
AnsweredOnce ==
  \A r \in Range(order) :
    LET ours == ServerId[received[r].conn] \in {0, Body(r).unit}
        dealtWith == r # current \/ running = Idle \/ stage \in {"loop", "post"}
    IN /\ Len(replies[r]) <= IF ours /\ Answered(Body(r)) THEN 1 ELSE 0
       /\ ours /\ Answered(Body(r)) /\ dealtWith /\ r \notin threw => Len(replies[r]) = 1
       /\ r \in threw \ hookThrew => BreaksOff(Body(r)) /\ replies[r] = <<>>

\* When no data event runs, a request still queued came in the same data event
\* as one whose handling threw.
LeftBehindHasCause ==
  running = Idle =>
    \A c \in Conns : \A r \in Range(queue[c]) :
      \E x \in threw : received[x].event = received[r].event

\* Requests of a connection are handled out of order only within a data event
\* (the queue is last in, first out) or when an exception had left the older
\* one behind.
OutOfOrderHasCause ==
  \A p, q \in DOMAIN order :
    p < q /\ received[order[p]].conn = received[order[q]].conn /\ order[p] > order[q] =>
      \/ received[order[p]].event = received[order[q]].event
      \/ \E x \in threw : received[x].event = received[order[q]].event

\* "illegal data address": a write into a table is carried out or refused; the
\* handler itself never breaks off without an answer.
WritesAnswered ==
  \A r \in threw \ hookThrew : Body(r).kind \notin Writes
=============================================================================
