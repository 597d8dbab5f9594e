---------------------------- MODULE Conversation ----------------------------
(* A TCP client and a server with one holding register, end to end.  The     *)
(* client is TcpClient, its peer here no longer anybody: ModbusServerClient  *)
(* reads the requests from the connection in order, but serves those of one  *)
(* data event newest first.  When the connection closes, a part of what was  *)
(* written may still reach the server, any time later: the old connection    *)
(* and the new one are two sockets to it.                                    *)
(*                                                                           *)
(* Request r, if it is a write, writes the value r; the register begins as 0. *)
EXTENDS TcpClient, SequencesExt, FiniteSets

CONSTANTS
  read, write,  \* the two function codes
  MaxConns      \* bound: connections

VARIABLES
  wires,     \* external: the requests on their way, connection by connection
  batch,     \* the data event the server works on: [conn, event, reqs]
  register,  \* the server's holding register
  value,     \* what the server answered to each read
  served     \* history: [req, conn, event] of the requests, as they were served

server == <<batch, register, value, served>>
conversation == <<vars, wires, server>>

\* Ids that do not wrap, and no noise; TcpClient is about those.
ASSUME ConversationAssumption ==
  /\ FC = {read, write} /\ read # write
  /\ IdMod > MaxRequests /\ MaxConns \in Nat \ {0} /\ Noise = {}

-----------------------------------------------------------------------------
ConversationInit ==
  /\ TcpInit
  /\ wires = IF link = "up" THEN << <<>> >> ELSE <<>>
  /\ batch = [conn |-> 1, event |-> 1, reqs |-> <<>>]
  /\ register = 0 /\ value = [r \in Req |-> 0] /\ served = <<>>

\* Whatever the client does on its connection: a request it writes goes to the
\* end of the wire.
ClientStep ==
  /\ UserStep \/ TimerStep \/ DataStep \/ IdMismatch \/ TcpHandle
  /\ LET new == SetToSeq(delivered' \ delivered)
     IN wires' = IF new = <<>> THEN wires ELSE [wires EXCEPT ![Len(wires)] = @ \o new]
  /\ UNCHANGED server

Connect ==
  /\ OnConnect /\ Len(wires) < MaxConns
  /\ wires' = Append(wires, <<>>)
  /\ UNCHANGED server

\* Only the first k requests that were on their way will arrive.
Close(k) ==
  /\ OnClose /\ k <= Len(Last(wires))
  /\ wires' = [wires EXCEPT ![Len(wires)] = SubSeq(@, 1, k)]
  /\ UNCHANGED server

-----------------------------------------------------------------------------
\* Mutant: the bytes of the requests stay in the server's buffer.
ServerData_NotConsumed(c, k) ==
  /\ batch.reqs = <<>>
  /\ batch' = [conn |-> c, event |-> Len(served) + 1, reqs |-> Reverse(SubSeq(wires[c], 1, k))]
  /\ UNCHANGED <<vars, wires, register, value, served>>
\* A data event of connection c with k requests, which are unshifted.
ServerData(c, k) ==
  /\ batch.reqs = <<>>
  /\ batch' = [conn |-> c, event |-> Len(served) + 1, reqs |-> Reverse(SubSeq(wires[c], 1, k))]
  /\ wires' = [wires EXCEPT ![c] = SubSeq(@, k + 1, Len(@))]
  /\ UNCHANGED <<vars, register, value, served>>

\* The next request is served; its answer reaches the client if the request's
\* connection is still there.
ServerServes(r) ==
  /\ batch.reqs # <<>> /\ r = Head(batch.reqs)
  /\ batch' = [batch EXCEPT !.reqs = Tail(@)]
  /\ register' = IF issued[r] = write THEN r ELSE register
  /\ value' = IF issued[r] = read THEN [value EXCEPT ![r] = register] ELSE value
  /\ served' = Append(served, [req |-> r, conn |-> batch.conn, event |-> batch.event])
  /\ IF link = "up" /\ batch.conn = Len(wires) THEN Answer(r, "normal") ELSE UNCHANGED vars
  /\ UNCHANGED wires

ConversationNext ==
  \/ ClientStep \/ Connect
  \/ \E k \in 0..MaxRequests : Close(k)
  \/ \E c \in DOMAIN wires : \E k \in 1..Len(wires[c]) : ServerData(c, k)
  \/ \E r \in Req : ServerServes(r)

ConversationSpec == ConversationInit /\ [][ConversationNext]_conversation

-----------------------------------------------------------------------------
\* Requests travel in the order of their registration, on each connection and
\* from one connection to the next.
InOrder ==
  /\ \A c \in DOMAIN wires : \A i, j \in DOMAIN wires[c] : i < j => wires[c][i] < wires[c][j]
  /\ \A c, d \in DOMAIN wires : c < d =>
       \A x \in Range(wires[c]), y \in Range(wires[d]) : x < y

\* The variables have their types, and what is on its way to the server is in
\* order: the client's queue never lets a request overtake an older one, so a
\* reversal in the server has another cause.
ConversationTypeOK ==
  /\ TypeOK /\ InOrder
  /\ wires \in Seq(Seq(Req)) /\ Len(wires) <= MaxConns
  /\ batch.conn \in 1..MaxConns /\ batch.reqs \in Seq(Req)
  /\ register \in {0} \cup Req /\ value \in [Req -> {0} \cup Req]
  /\ \A i \in DOMAIN served : served[i].req \in 1..Registered

\* A request is served at most once: nothing in client or server repeats one.
\* The user hears of success only when it was served.
ServedOnce ==
  /\ \A i, j \in DOMAIN served : served[i].req = served[j].req => i = j
  /\ \A r \in Req : outcome[r] = "resolved" => \E i \in DOMAIN served : served[i].req = r

\* Write v is the older one and took effect after write w.  That takes a v the
\* client had given up, which came with w in one data event or lingered on an
\* earlier connection.
CameBack(v, w) ==
  /\ outcome[v] \notin {"pending", "resolved"}
  /\ \E i, j \in DOMAIN served :
       /\ i < j /\ served[i].req = w /\ served[j].req = v
       /\ served[i].event = served[j].event \/ served[j].conn < served[i].conn

Acknowledged(r) == issued[r] = write /\ outcome[r] = "resolved"

\* The register holds the last acknowledged write or a later one, unless an
\* earlier write that was given up came back: the server serves a data event
\* newest first, and the client starts the next request without knowing what
\* has become of one that timed out.
WritesLast ==
  \A w \in 1..Registered :
    Acknowledged(w) /\ register < w => register # 0 /\ CameBack(register, w)

\* So does every read see, and none sees a write registered after it.
ReadsSeeWrites ==
  \A r \in 1..Registered :
    issued[r] = read /\ outcome[r] = "resolved" =>
      LET v == value[answeredBy[r]]
      IN /\ v < r
         /\ \A w \in 1..r : Acknowledged(w) /\ v < w => v # 0 /\ CameBack(v, w)
=============================================================================
