----------------------------- MODULE ByteStream -----------------------------
(* A stream of messages as its reader sees it.  The reader is a TCP server   *)
(* (ModbusServerRequestHandler with ModbusTCPRequest), a TCP client or an    *)
(* RTU client (the two ClientResponseHandlers).  Sockets and serial lines    *)
(* have no message boundaries: a data event may bring any number of bytes.   *)
(*                                                                           *)
(* The reader's loop takes one message per step; parsing keeps the next data *)
(* event out until it ends.  RtuRequestStream is the fourth reader.          *)
EXTENDS ModbusPdu

CONSTANTS
  Readers,      \* which of "tcpServer", "tcpClient", "rtuClient" to look at
  Messages,     \* for each of them, the bodies its peer sends
  Memory,       \* what uninitialised memory may hold
  MaxMessages,  \* bound: messages in all
  MaxWire,      \* bound: bytes on the wire
  MaxConns      \* bound: connections

VARIABLES
  reader,   \* who reads; never changes
  conn,     \* the number of the connection
  wire,     \* external: bytes sent and not delivered
  sent,     \* external: [conn, body, bytes] of every message sent
  buffer,   \* _buffer
  parsing,  \* the loop of handle or handleData is running
  parsed,   \* history of the messages queued: [taken, frame]
  chopped,  \* history: a data event ended where the parser needs more and does not wait
  stale,    \* history: a connection was lost with bytes in a client's buffer
  lost      \* history: messages lost with their connection

vars == <<reader, conn, wire, sent, buffer, parsing, parsed, chopped, stale, lost>>

-----------------------------------------------------------------------------
Unit == 1
Byte == [msg: 1..MaxMessages, at: Nat \ {0}, value: 0..255]
Tagged(m, bytes) == [i \in DOMAIN bytes |-> [msg |-> m, at |-> i, value |-> bytes[i]]]
Values(bytes) == [i \in DOMAIN bytes |-> bytes[i].value]
Owners(bytes) == {bytes[i].msg : i \in DOMAIN bytes}

Encoded(r, m, body, memory) ==
  CASE r = "tcpServer" -> TcpRequestPayload(m, Unit, body, memory)
    [] r = "tcpClient" -> TcpResponsePayload(m, Unit, body)
    [] r = "rtuClient" -> RtuResponsePayload(Unit, body)

ASSUME StreamAssumption ==
  /\ Readers \subseteq {"tcpServer", "tcpClient", "rtuClient"}
  /\ Memory \subseteq 0..255 /\ {MaxMessages, MaxWire} \subseteq Nat /\ MaxConns \in Nat \ {0}

\* The bodies a peer sends: those the library knows, with their fields, and
\* those of other software under codes it does not know.
Requests ==
  [fc : 1..4, at : Nat, n : Nat] \cup [fc : {5, 6}, at : Nat, value : Nat] \cup
  [fc : {15}, at : Nat, coils : Seq(BOOLEAN)] \cup
  [fc : {16}, at : Nat, registers : Seq(Nat)] \cup
  [fc : {43}, selector : {s \in Seq(0..255) : Len(s) = 3}] \cup
  [fc : 1..255 \ FunctionCodes, raw : Seq(0..255)]

Refusals == {fc + 128 : fc \in FunctionCodes}
Objects == {o \in Seq(0..255) : Len(o) >= 2 /\ o[2] = Len(o) - 2}
Responses ==
  [fc : 1..4, data : Seq(0..255)] \cup
  [fc : {5, 6}, at : Nat, value : Nat] \cup [fc : {15, 16}, at : Nat, n : Nat] \cup
  [fc : {43}, header : {s \in Seq(0..255) : Len(s) = 5}, objects : Seq(Objects)] \cup
  [fc : Refusals, code : 0..255] \cup [fc : {43 + 128}, meiType : 0..255, code : 0..255] \cup
  [fc : 1..255 \ (FunctionCodes \cup Refusals), raw : Seq(0..255)]

\* Encoded, they are bytes.
ASSUME MessageAssumption ==
  \A r \in Readers :
    /\ Messages[r] \subseteq IF r = "tcpServer" THEN Requests ELSE Responses
    /\ \A body \in Messages[r], m \in 1..MaxMessages, memory \in Memory :
         Encoded(r, m, body, memory) \in Seq(0..255)

Parse(bytes) ==
  CASE reader = "tcpServer" -> TcpRequest(bytes)
    [] reader = "tcpClient" -> TcpResponse(bytes)
    [] reader = "rtuClient" -> RtuResponse(bytes)
InFront == Parse(Values(buffer))

\* The bodies that parse before they are whole, k bytes of the frame at hand:
\* a write of registers, a read of holding registers, the long exception.
ParsesEarly(body, k) ==
  \/ reader = "tcpServer" /\ body.fc = FC.WRITE_MULTIPLE_HOLDING_REGISTERS /\ k >= 13 /\ k % 2 = 1
  \/ reader = "tcpClient" /\ body.fc = FC.READ_HOLDING_REGISTERS /\ k >= 9
  \/ reader = "tcpClient" /\ "meiType" \in DOMAIN body /\ k = 9

\* The bodies that never parse: unknown function codes, reads of too many
\* cells, input registers of an odd number of bytes, and on the serial line the
\* short refusal of a device identification.
NeverParses(body) ==
  \/ body.fc \notin FunctionCodes \cup IF reader = "tcpServer" THEN {} ELSE Refusals
  \/ reader = "tcpServer" /\ body.fc \in 1..4 /\ body.n > MaxQuantity
  \/ reader # "tcpServer" /\ body.fc = FC.READ_INPUT_REGISTERS /\ Len(body.data) % 2 = 1
  \/ reader = "rtuClient" /\ body.fc = 171 /\ "meiType" \notin DOMAIN body

-----------------------------------------------------------------------------
Init ==
  /\ reader \in Readers /\ conn = 1 /\ wire = <<>> /\ sent = <<>>
  /\ buffer = <<>> /\ parsing = FALSE /\ parsed = <<>>
  /\ chopped = FALSE /\ stale = FALSE /\ lost = {}

Send(body, memory) ==
  /\ Len(sent) < MaxMessages
  /\ LET m == Len(sent) + 1
         bytes == Encoded(reader, m, body, memory)
     IN /\ Len(wire) + Len(bytes) <= MaxWire
        /\ sent' = Append(sent, [conn |-> conn, body |-> body, bytes |-> bytes])
        /\ wire' = wire \o Tagged(m, bytes)
  /\ UNCHANGED <<reader, conn, buffer, parsing, parsed, chopped, stale, lost>>

\* handle or handleData is entered with a chunk of k bytes.
DataEvent(k) ==
  /\ ~parsing
  /\ buffer' = buffer \o SubSeq(wire, 1, k)
  /\ wire' = SubSeq(wire, k + 1, Len(wire))
  /\ parsing' = TRUE
  /\ chopped' = (chopped \/ ( /\ k < Len(wire) /\ wire[k].msg = wire[k + 1].msg
                             /\ ParsesEarly(sent[wire[k].msg].body, wire[k].at)))
  /\ UNCHANGED <<reader, conn, sent, parsed, stale, lost>>

\* Mutant: one message per data event.
ParseOne_Once ==
  /\ parsing /\ InFront # Null
  /\ parsed' = Append(parsed, [taken |-> Part(buffer, 1, InFront.consumed), frame |-> InFront])
  /\ buffer' = SubSeq(buffer, InFront.consumed + 1, Len(buffer))
  /\ parsing' = FALSE
  /\ UNCHANGED <<reader, conn, wire, sent, chopped, stale, lost>>

\* What is taken off may be less than the frame claims to be long.
ParseOne ==
  /\ parsing /\ InFront # Null
  /\ parsed' = Append(parsed, [taken |-> Part(buffer, 1, InFront.consumed), frame |-> InFront])
  /\ buffer' = SubSeq(buffer, InFront.consumed + 1, Len(buffer))
  /\ UNCHANGED <<reader, conn, wire, sent, parsing, chopped, stale, lost>>

\* Mutant: what does not parse is thrown away.
WaitForMore_Discards ==
  /\ parsing /\ InFront = Null
  /\ parsing' = FALSE /\ buffer' = <<>>
  /\ UNCHANGED <<reader, conn, wire, sent, parsed, chopped, stale, lost>>

WaitForMore ==
  /\ parsing /\ InFront = Null
  /\ parsing' = FALSE
  /\ UNCHANGED <<reader, conn, wire, sent, buffer, parsed, chopped, stale, lost>>

\* Mutant: the server keeps one buffer for all its connections.
Reconnect_SharedBuffer ==
  /\ ~parsing /\ conn < MaxConns
  /\ conn' = conn + 1 /\ wire' = <<>>
  /\ lost' = lost \cup Owners(wire)
  /\ stale' = (stale \/ (reader # "tcpServer" /\ buffer # <<>>))
  /\ UNCHANGED <<reader, sent, buffer, parsing, parsed, chopped>>

\* The socket closes and another one opens.  A server gives every connection a
\* request handler of its own; a client keeps its response handler.
Reconnect ==
  /\ ~parsing /\ conn < MaxConns
  /\ conn' = conn + 1 /\ wire' = <<>>
  /\ buffer' = IF reader = "tcpServer" THEN <<>> ELSE buffer
  /\ lost' = lost \cup Owners(wire) \cup Owners(buffer)
  /\ stale' = (stale \/ (reader # "tcpServer" /\ buffer # <<>>))
  /\ UNCHANGED <<reader, sent, parsing, parsed, chopped>>

Next ==
  \/ \E body \in Messages[reader], memory \in Memory : Send(body, memory)
  \/ \E k \in 1..Len(wire) : DataEvent(k)
  \/ ParseOne \/ WaitForMore \/ Reconnect

Spec == Init /\ [][Next]_vars

-----------------------------------------------------------------------------
TypeOK ==
  /\ reader \in Readers /\ conn \in 1..MaxConns
  /\ wire \in Seq(Byte) /\ buffer \in Seq(Byte)
  /\ \A m \in DOMAIN sent : sent[m].bytes \in Seq(0..255) /\ sent[m].conn \in 1..conn
  /\ {parsing, chopped, stale} \subseteq BOOLEAN
  /\ \A i \in DOMAIN parsed : parsed[i].taken \in Seq(Byte) /\ parsed[i].frame.consumed >= 5
  /\ lost \subseteq DOMAIN sent

\* An RTU client checks the CRC before it settles a request.
Accepted(entry) == reader = "rtuClient" => Intact(entry.frame)
IsWhole(entry) == \E m \in DOMAIN sent : entry.taken = Tagged(m, sent[m].bytes)

\* However the stream is cut, what is accepted is one whole message as it was
\* sent, and they come in the order of sending.  A TCP reader breaks this only
\* after a data event ended inside a body that parses early, a TCP client also
\* after a connection was lost in the middle of a response; an RTU client never.
ParsedWhole ==
  \/ reader # "rtuClient" /\ (chopped \/ stale)
  \/ LET good == {i \in DOMAIN parsed : Accepted(parsed[i])}
     IN /\ \A i \in good : IsWhole(parsed[i])
        /\ \A i, j \in good : i < j => parsed[i].taken[1].msg < parsed[j].taken[1].msg

\* What the sender asked for and what the reader understood, where they differ:
\* a write of too many registers is cut short; one of too many coils ends in
\* whatever the memory held; a coil that is neither on nor off is off; early
\* parses lose the end of a message or take its MEI type for the exception code.
\* None of this is what the code promises (ArrivesAsSent), and the second and
\* the last are values nobody sent: the definition says how far the damage goes.
Means(asked, got) ==
  \/ got = asked
  \/ /\ asked.fc = FC.WRITE_MULTIPLE_HOLDING_REGISTERS /\ "registers" \in DOMAIN asked
     /\ chopped \/ 6 + 2 * Len(asked.registers) > MaxWriteCount
     /\ got.at = asked.at /\ IsPrefix(got.registers, asked.registers)
  \/ /\ asked.fc = FC.WRITE_MULTIPLE_COILS /\ "coils" \in DOMAIN asked
     /\ Len(asked.coils) > MaxPackedCoils /\ Len(got.coils) = Len(asked.coils)
     /\ got.at = asked.at /\ \A i \in 1..MaxPackedCoils : got.coils[i] = asked.coils[i]
  \/ /\ asked.fc = FC.WRITE_SINGLE_COIL /\ asked.value \notin {0, On}
     /\ got = [asked EXCEPT !.value = 0]
  \/ chopped /\ asked.fc = FC.READ_HOLDING_REGISTERS /\ IsPrefix(got.data, asked.data)
  \/ chopped /\ "meiType" \in DOMAIN asked /\ got = [fc |-> asked.fc, code |-> asked.meiType]

\* Whatever begins where a message begins, and holds bytes of that message
\* only, means what the sender asked for, but for the differences in Means: no
\* other body is misread, and these ones in no other way, however the stream is
\* cut, torn or taken up again.
ValuesAsAsked ==
  \A i \in DOMAIN parsed :
    LET entry == parsed[i]
        m == entry.taken[1].msg
    IN (entry.taken[1].at = 1 /\ Owners(entry.taken) = {m} /\ Accepted(entry))
         => Means(sent[m].body, entry.frame.body)

\* Everything that stands in the way of m: messages that never parse, before
\* it and, for a server, on the same connection.
InTheWay(m) ==
  {d \in 1..m : /\ NeverParses(sent[d].body)
                /\ reader = "tcpServer" => sent[d].conn = sent[m].conn}

\* Nothing that has arrived is held back: between data events every message
\* whose last byte was delivered has been parsed, unless a message that never
\* parses came before it or the stream was torn as ParsedWhole says.
NothingHeldBack ==
  (~parsing /\ ~chopped /\ ~stale) =>
    \A m \in DOMAIN sent \ (lost \cup Owners(wire)) :
      InTheWay(m) # {} \/ \E i \in DOMAIN parsed : parsed[i].taken = Tagged(m, sent[m].bytes)

\* "Returns null if the buffer does not contain enough data": a message is taken
\* when it is whole, then means what its sender wrote, and is not left lying.
ArrivesAsSent ==
  /\ \A i \in DOMAIN parsed :
       Accepted(parsed[i]) =>
         IsWhole(parsed[i]) /\ parsed[i].frame.body = sent[parsed[i].taken[1].msg].body
  /\ ~parsing => \A m \in DOMAIN sent \ (lost \cup Owners(wire)) :
                   \E i \in DOMAIN parsed : parsed[i].taken = Tagged(m, sent[m].bytes)

\* No message is put together from the bytes of two connections, except by a
\* client whose connection was lost in the middle of a response.
ConnectionsSeparate ==
  \A i \in DOMAIN parsed :
    stale \/ \A m, n \in Owners(parsed[i].taken) : sent[m].conn = sent[n].conn

\* A TCP reader that has a whole message in front which does not parse.
Stuck ==
  /\ reader # "rtuClient" /\ Len(buffer) >= 7
  /\ Len(buffer) >= Uint16(Values(buffer), 5) + 6 /\ InFront = Null

\* It never gets past it: a server hears nothing more on that connection, a
\* client nothing more at all, however often it reconnects.
StuckForGood ==
  [][Stuck /\ (reader = "tcpClient" \/ conn' = conn) => Stuck' /\ parsed' = parsed]_vars
=============================================================================
