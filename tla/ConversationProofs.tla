------------------------- MODULE ConversationProofs -------------------------
(* Theorems about the conversation of a TCP client and a server: what the    *)
(* register and the reads show, for any number of requests and connections.  *)
EXTENDS Conversation, TcpClientProofs, FiniteSetTheorems

\* All that TcpClientProofs knows about the client.
ClientInv == IInv /\ TrafficInv /\ CrossTalkInv /\ CauseInv

ServerTypes ==
  /\ wires \in Seq(Seq(Req)) /\ Len(wires) <= MaxConns
  /\ batch.conn \in 1..MaxConns /\ batch.reqs \in Seq(Req)
  /\ batch.event \in Nat
  /\ batch = [conn |-> batch.conn, event |-> batch.event, reqs |-> batch.reqs]
  /\ register \in {0} \cup Req /\ value \in [Req -> {0} \cup Req]
  /\ served \in Seq([req : Req, conn : 1..MaxConns, event : Nat])

Increasing(s) == \A i, j \in 1..Len(s) : i < j => s[i] < s[j]
Decreasing(s) == \A i, j \in 1..Len(s) : i < j => s[j] < s[i]

\* The requests are on the wires in the order of their registration, and all
\* have left the client's queue.
WireInv ==
  /\ \A c \in 1..Len(wires) : Increasing(wires[c]) /\ \A x \in Range(wires[c]) : x <= Served
  /\ \A c, d \in 1..Len(wires) : c < d =>
       \A x \in Range(wires[c]), y \in Range(wires[d]) : x < y

\* Only on an older connection may an older request still be on its way.
BatchInv ==
  /\ Decreasing(batch.reqs) /\ \A x \in Range(batch.reqs) : x <= Served
  /\ \A c \in 1..Len(wires) : \A x \in Range(batch.reqs), y \in Range(wires[c]) :
       x # y /\ (y < x => c < batch.conn)

\* What is still to be served differs from what was, and if it is older, it
\* is in the same data event or came by an older connection.
ServedInv ==
  \A i \in 1..Len(served) :
    /\ served[i].req <= Served
    /\ \A x \in Range(batch.reqs) :
         /\ x # served[i].req
         /\ x < served[i].req => served[i].event = batch.event \/ batch.conn < served[i].conn
    /\ \A c \in 1..Len(wires) : \A y \in Range(wires[c]) :
         y # served[i].req /\ (y < served[i].req => c < served[i].conn)
OrderInv == WireInv /\ BatchInv /\ ServedInv

\* A request served after a younger one had been given up.
OvertakenInv ==
  \A i, j \in 1..Len(served) : i < j =>
    /\ served[i].req # served[j].req
    /\ served[j].req < served[i].req =>
         /\ outcome[served[j].req] \notin {"none", "pending", "resolved"}
         /\ served[i].event = served[j].event \/ served[j].conn < served[i].conn

\* Answers are answers to served requests, and settle only their own.
WasServed(r) == \E i \in 1..Len(served) : served[i].req = r
FlowInv ==
  /\ \A i \in 1..Len(OnTheWay) : WasServed(OnTheWay[i].origin)
  /\ \A r \in Req : outcome[r] = "resolved" => WasServed(r) /\ answeredBy[r] = r

\* v is what the first n served requests left in the register.
NoWrite(m, n) == \A i \in m..n : issued[served[i].req] # write
Holds(v, n) ==
  \/ v = 0 /\ NoWrite(1, n)
  \/ \E k \in 1..n : served[k].req = v /\ issued[v] = write /\ NoWrite(k + 1, n)
HoldsNext(v, n) ==
  \/ v = 0 /\ \A i \in 1..n : issued'[served'[i].req] # write
  \/ \E k \in 1..n : /\ served'[k].req = v /\ issued'[v] = write
                     /\ \A i \in (k + 1)..n : issued'[served'[i].req] # write
RegisterInv ==
  /\ Holds(register, Len(served))
  /\ \A j \in 1..Len(served) :
       issued[served[j].req] = read => Holds(value[served[j].req], j - 1)

ConvInv ==
  ClientInv /\ ServerTypes /\ OrderInv /\ OvertakenInv /\ FlowInv /\ RegisterInv

-----------------------------------------------------------------------------
(* Sequences in ascending and in descending order.                           *)

\* The range of a sequence, by its indices.
LEMMA RangeByIndex ==
  ASSUME NEW S, NEW s \in Seq(S)
  PROVE  /\ \A i \in 1..Len(s) : s[i] \in Range(s) /\ s[i] \in S
         /\ \A x \in Range(s) : \E i \in 1..Len(s) : s[i] = x
         /\ Range(s) \subseteq S
BY RangeEquality, ElementOfSeq

\* A data event cuts the front off a wire.
LEMMA CutInOrder ==
  ASSUME NEW s \in Seq(Req), Increasing(s), NEW k \in 0..Len(s)
  PROVE  LET front == SubSeq(s, 1, k)
             rest == SubSeq(s, k + 1, Len(s))
         IN /\ front \in Seq(Req) /\ Increasing(front) /\ Range(front) \subseteq Range(s)
            /\ rest \in Seq(Req) /\ Increasing(rest) /\ Range(rest) \subseteq Range(s)
            /\ \A x \in Range(front), y \in Range(rest) : x < y
<1> DEFINE front == SubSeq(s, 1, k)
           rest == SubSeq(s, k + 1, Len(s))
           n == Len(s)
<1>1. n \in Nat /\ \A i \in 1..n : s[i] \in Req BY LenProperties, ElementOfSeq
<1>2. /\ front \in Seq(Req) /\ Len(front) = k
      /\ \A i \in 1..k : front[i] = s[i]
  <2>1. \A i \in 1..k : s[i] \in Req BY <1>1
  <2> QED BY <2>1, <1>1, SubSeqProperties
<1>3. /\ rest \in Seq(Req) /\ Len(rest) = n - k
      /\ \A i \in 1..(n - k) : rest[i] = s[i + k]
  <2>1. \A i \in (k + 1)..n : s[i] \in Req BY <1>1
  <2>2. /\ rest \in Seq(Req)
        /\ Len(rest) = IF k + 1 <= n THEN n - (k + 1) + 1 ELSE 0
        /\ \A i \in 1..(n - (k + 1) + 1) : rest[i] = s[(k + 1) + i - 1]
    BY <2>1, <1>1, SubSeqProperties
  <2> HIDE DEF n, rest
  <2>3. \A i \in 1..(n - k) : (k + 1) + i - 1 = i + k BY <1>1
  <2>4. (n - (k + 1)) + 1 = n - k /\ (k + 1 <= n \/ n - k = 0) BY <1>1 DEF n
  <2>5. Len(rest) = n - k BY <2>2, <2>4
  <2>6. \A i \in 1..(n - k) : rest[i] = s[i + k] BY <2>2, <2>3, <2>4
  <2> QED BY <2>2, <2>5, <2>6
<1> HIDE DEF front, rest, n
<1>4. Increasing(front) BY <1>1, <1>2 DEF Increasing, n
<1>5. Increasing(rest)
  <2> SUFFICES ASSUME NEW i \in 1..(n - k), NEW j \in 1..(n - k), i < j PROVE rest[i] < rest[j]
    BY <1>3 DEF Increasing
  <2>1. i + k \in 1..n /\ j + k \in 1..n /\ i + k < j + k BY <1>1 DEF n
  <2>2. s[i + k] < s[j + k] BY <2>1 DEF Increasing, n
  <2> QED BY <2>2, <1>3
<1>6. ASSUME NEW x \in Range(front) PROVE \E i \in 1..k : x = s[i]
  BY <1>2, RangeByIndex
<1>7. ASSUME NEW y \in Range(rest) PROVE \E j \in (k + 1)..n : y = s[j]
  <2>1. PICK i \in 1..(n - k) : y = rest[i] BY <1>3, RangeByIndex
  <2>2. i + k \in (k + 1)..n /\ y = s[i + k] BY <2>1, <1>1, <1>3 DEF n
  <2> QED BY <2>2
<1>8. Range(front) \subseteq Range(s) /\ Range(rest) \subseteq Range(s)
  <2>1. \A i \in 1..n : s[i] \in Range(s) BY RangeByIndex DEF n
  <2>2. \A i \in 1..k : i \in 1..n BY <1>1 DEF n
  <2>3. \A i \in (k + 1)..n : i \in 1..n BY <1>1 DEF n
  <2> QED BY <2>1, <2>2, <2>3, <1>6, <1>7
<1>9. ASSUME NEW x \in Range(front), NEW y \in Range(rest) PROVE x < y
  <2>1. PICK i \in 1..k : x = s[i] BY <1>6
  <2>2. PICK j \in (k + 1)..n : y = s[j] BY <1>7
  <2>3. i \in 1..n /\ j \in 1..n /\ i < j BY <1>1 DEF n
  <2> QED BY <2>1, <2>2, <2>3 DEF Increasing, n
<1> QED BY <1>2, <1>3, <1>4, <1>5, <1>8, <1>9 DEF front, rest, n

\* Unshifted one after the other, the requests are in descending order.
LEMMA ReverseInOrder ==
  ASSUME NEW s \in Seq(Req), Increasing(s)
  PROVE  Reverse(s) \in Seq(Req) /\ Decreasing(Reverse(s)) /\ Range(Reverse(s)) \subseteq Range(s)
<1> DEFINE r == Reverse(s)
           n == Len(s)
<1>1. n \in Nat /\ \A i \in 1..n : s[i] \in Req /\ s[i] \in Range(s)
  BY LenProperties, RangeByIndex
<1>2. r = [i \in 1..n |-> s[(n - i) + 1]] BY DEF Reverse
<1> HIDE DEF n
<1>3. \A i \in 1..n : (n - i) + 1 \in 1..n BY <1>1
<1>4. r \in [1..n -> Req] BY <1>1, <1>2, <1>3
<1>5. r \in Seq(Req) /\ Len(r) = n
  <2>1. r \in Seq(Req) BY <1>1, <1>4, SeqDef
  <2>2. DOMAIN r = 1..n BY <1>4
  <2> HIDE DEF r
  <2> QED BY <2>1, <2>2, <1>1, LenProperties
<1>6. \A i \in 1..n : r[i] = s[(n - i) + 1] BY <1>2
<1> HIDE DEF r
<1>7. Decreasing(r)
  <2> SUFFICES ASSUME NEW i \in 1..n, NEW j \in 1..n, i < j PROVE r[j] < r[i]
    BY <1>5 DEF Decreasing
  <2>1. (n - j) + 1 < (n - i) + 1 BY <1>1
  <2>2. s[(n - j) + 1] < s[(n - i) + 1] BY <2>1, <1>3 DEF Increasing, n
  <2> QED BY <2>2, <1>6
<1>8. Range(r) \subseteq Range(s)
  <2> SUFFICES ASSUME NEW x \in Range(r) PROVE x \in Range(s) OBVIOUS
  <2>1. PICK i \in 1..n : r[i] = x BY <1>5, RangeByIndex
  <2> QED BY <2>1, <1>1, <1>3, <1>6
<1> QED BY <1>5, <1>7, <1>8 DEF r

\* A request written after all others.
LEMMA GrowInOrder ==
  ASSUME NEW s \in Seq(Req), Increasing(s), NEW x \in Req, \A y \in Range(s) : y < x
  PROVE  /\ s \o <<x>> \in Seq(Req) /\ Increasing(s \o <<x>>)
         /\ Range(s \o <<x>>) \subseteq Range(s) \cup {x}
<1> DEFINE t == s \o <<x>>
           n == Len(s)
<1>1. n \in Nat /\ \A i \in 1..n : s[i] \in Range(s) BY LenProperties, RangeByIndex
<1>2. t = Append(s, x) BY AppendIsConcat
<1>3. /\ t \in Seq(Req) /\ Len(t) = n + 1
      /\ \A i \in 1..n : t[i] = s[i]
      /\ t[n + 1] = x
  BY <1>2, AppendProperties
<1> HIDE DEF t
<1>4. Increasing(t)
  <2> SUFFICES ASSUME NEW i \in 1..(n + 1), NEW j \in 1..(n + 1), i < j PROVE t[i] < t[j]
    BY <1>3 DEF Increasing
  <2>1. CASE j = n + 1
    <3>1. i \in 1..n BY <2>1, <1>1
    <3> QED BY <3>1, <2>1, <1>1, <1>3
  <2>2. CASE j # n + 1
    <3>1. i \in 1..n /\ j \in 1..n BY <2>2, <1>1
    <3> QED BY <3>1, <1>3 DEF Increasing
  <2> QED BY <2>1, <2>2
<1>5. Range(t) \subseteq Range(s) \cup {x}
  <2> SUFFICES ASSUME NEW y \in Range(t) PROVE y \in Range(s) \cup {x} OBVIOUS
  <2>1. PICK i \in 1..(n + 1) : t[i] = y BY <1>3, RangeByIndex
  <2>2. i \in 1..n \/ i = n + 1 BY <1>1
  <2> QED BY <2>1, <2>2, <1>1, <1>3
<1> QED BY <1>3, <1>4, <1>5 DEF t

\* The youngest request of a data event is served first.
LEMMA HeadInOrder ==
  ASSUME NEW s \in Seq(Req), Decreasing(s), s # <<>>
  PROVE  /\ Head(s) \in Range(s) /\ Head(s) \in Req
         /\ Tail(s) \in Seq(Req) /\ Decreasing(Tail(s)) /\ Range(Tail(s)) \subseteq Range(s)
         /\ \A x \in Range(Tail(s)) : x < Head(s)
<1> DEFINE t == Tail(s)
           n == Len(s)
<1>1. n \in Nat \ {0} /\ \A i \in 1..n : s[i] \in Range(s) /\ s[i] \in Req
  BY EmptySeq, RangeByIndex
<1>2. t \in Seq(Req) /\ Len(t) = n - 1 /\ \A i \in 1..(n - 1) : t[i] = s[i + 1]
  BY HeadTailProperties
<1>3. Head(s) = s[1] OBVIOUS
<1> HIDE DEF t, n
<1>4. \A i \in 1..(n - 1) : i + 1 \in 1..n /\ 1 < i + 1 BY <1>1
<1>5. Decreasing(t)
  <2> SUFFICES ASSUME NEW i \in 1..(n - 1), NEW j \in 1..(n - 1), i < j PROVE t[j] < t[i]
    BY <1>2 DEF Decreasing
  <2>1. i + 1 < j + 1 BY <1>1
  <2>2. s[j + 1] < s[i + 1] BY <2>1, <1>4 DEF Decreasing, n
  <2> QED BY <2>2, <1>2
<1>6. ASSUME NEW x \in Range(t) PROVE x \in Range(s) /\ x < s[1]
  <2>1. PICK i \in 1..(n - 1) : t[i] = x BY <1>2, RangeByIndex
  <2>2. 1 \in 1..n BY <1>1
  <2>3. x = s[i + 1] /\ s[i + 1] < s[1] BY <2>1, <2>2, <1>2, <1>4 DEF Decreasing, n
  <2> QED BY <2>3, <1>1, <1>4
<1>7. 1 \in 1..n BY <1>1
<1> QED BY <1>1, <1>2, <1>3, <1>5, <1>6, <1>7 DEF t

\* SetToSeq of no or one element.
LEMMA SetToSeqOfFew ==
  /\ SetToSeq({}) = <<>>
  /\ \A x : SetToSeq({x}) = <<x>>
<1>1. SetToSeq({}) = <<>>
  <2>1. Cardinality({}) = 0 BY FS_EmptySet
  <2>2. \A f \in [1..0 -> {}] : f = <<>> OBVIOUS
  <2>3. <<>> \in [1..0 -> {}] /\ IsInjective(<<>>) BY DEF IsInjective
  <2> QED BY <2>1, <2>2, <2>3 DEF SetToSeq
<1>2. ASSUME NEW x PROVE SetToSeq({x}) = <<x>>
  <2>1. Cardinality({x}) = 1 BY FS_Singleton
  <2>2. \A f \in [1..1 -> {x}] : f = <<x>> OBVIOUS
  <2>3. <<x>> \in [1..1 -> {x}] /\ IsInjective(<<x>>) BY DEF IsInjective
  <2> QED BY <2>1, <2>2, <2>3 DEF SetToSeq
<1> QED BY <1>1, <1>2

-----------------------------------------------------------------------------
(* The client's part of a step.                                              *)

\* In the conversation the client does nothing that TcpClient does not allow.
LEMMA StepOfClient ==
  ASSUME [ConversationNext]_conversation
  PROVE  [TcpNext]_vars
<1>1. CASE ClientStep BY <1>1 DEF ClientStep, TcpNext
<1>2. CASE Connect BY <1>2 DEF Connect, TcpNext
<1>3. ASSUME NEW k \in 0..MaxRequests, Close(k) PROVE TcpNext
  BY <1>3 DEF Close, TcpNext
<1>4. ASSUME NEW c \in DOMAIN wires, NEW k \in 1..Len(wires[c]), ServerData(c, k)
      PROVE  UNCHANGED vars
  BY <1>4 DEF ServerData
<1>5. ASSUME NEW r \in Req, ServerServes(r) PROVE [TcpNext]_vars
  <2>1. CASE Answer(r, "normal") BY <2>1 DEF TcpNext, PeerStep, Kinds
  <2> QED BY <2>1, <1>5 DEF ServerServes
<1>6. CASE UNCHANGED conversation BY <1>6 DEF conversation
<1> QED BY <1>1, <1>2, <1>3, <1>4, <1>5, <1>6 DEF ConversationNext

\* So all that is known of the client holds here, too.
LEMMA ClientPart ==
  ASSUME ClientInv, [TcpNext]_vars
  PROVE  /\ ClientInv' /\ MovesOn
         /\ \E d \in {0, 1} : Traffic(d) /\ Ending(d)
<1>1. \A f \in Noise : f.envelope = "otherUnit" BY ConversationAssumption
<1>2. \A f \in Noise : f.envelope # "good" BY ConversationAssumption
<1>3. TrafficInv' /\ MovesOn /\ IInv' BY TcpTrafficPreserved, TcpNextIInv DEF ClientInv
<1>4. CrossTalkInv' BY <1>3, NextAttribution, CrossTalkPreserved DEF ClientInv
<1>5. PICK d \in {0, 1} : Traffic(d) /\ Ending(d)
  BY <1>1, TcpEnding DEF ClientInv, TrafficInv, CauseInv
<1>6. CauseInv' BY <1>2, <1>3, <1>5, CausesPreserved DEF ClientInv
<1> QED BY <1>3, <1>4, <1>5, <1>6 DEF ClientInv

\* On its own the client only adds to what the peer has heard.
LEMMA ClientDelivers ==
  ASSUME ClientStep
  PROVE  delivered \subseteq delivered'
<1>1. ASSUME NEW q, NEW out, NEW tm, NEW imm, Flush(q, out, tm, imm)
      PROVE  delivered \subseteq delivered'
  BY <1>1 DEF Flush
<1>2. CASE UserStep
  BY <1>1, <1>2 DEF UserStep, Register, ManuallyRejectRequests, ManuallyRejectCurrentRequest,
     CustomErrorRequest, network
<1>3. CASE TimerStep BY <1>1, <1>3 DEF TimerStep, ImmediateFires, TimeoutFires
<1>4. CASE DataStep
  BY <1>4 DEF DataStep, DataEvent, DrainEnds, IgnoreResponse, network
<1>5. CASE IdMismatch BY <1>5 DEF IdMismatch, Desynchronise
<1>6. CASE TcpHandle
  BY <1>1, <1>6 DEF TcpHandle, Handle, FcMismatch, ExceptionResponse, UnknownException,
     NormalResponse, Finish, Desynchronise
<1> QED BY <1>2, <1>3, <1>4, <1>5, <1>6 DEF ClientStep

\* What a step of the client does to the wires: nothing is put in but, at the
\* end of the last wire, a request that leaves the queue now.
WiresMove ==
  /\ wires' \in Seq(Seq(Req)) /\ Len(wires') <= MaxConns
  /\ \A c \in 1..Len(wires') :
       /\ Increasing(wires'[c])
       /\ \A x \in Range(wires'[c]) :
            \/ c \in 1..Len(wires) /\ x \in Range(wires[c])
            \/ c = Len(wires') /\ Served < x /\ x <= Served'

\* The served counter is a number, and so are the requests.
LEMMA Numbers ==
  ASSUME ClientInv, ClientInv', MovesOn
  PROVE  /\ Served \in Nat /\ Served' \in Nat /\ Served <= Served'
         /\ Registered \in Nat /\ Registered' \in Nat /\ Served <= Registered
         /\ \A x \in Req : x \in Nat /\ x > 0
         /\ current' \in Nat
<1>1. \A x \in Req : x \in Nat /\ x > 0 BY BoundsAssumption DEF Req
<1>2. Served \in Nat /\ Registered \in Nat /\ Served <= Registered BY LineState DEF ClientInv
<1>3. Served' \in Nat /\ Registered' \in Nat BY NextLineState DEF ClientInv
<1>4. current' \in Nat
  <2>1. current' \in Req \cup {None} BY DEF ClientInv, IInv, TypeOK
  <2> QED BY <2>1, <1>1 DEF None
<1> QED BY <1>1, <1>2, <1>3, <1>4 DEF MovesOn

\* The wires stay as they are.
LEMMA WiresStay ==
  ASSUME ClientInv, ServerTypes, WireInv, UNCHANGED wires
  PROVE  WiresMove
BY DEF ServerTypes, WireInv, WiresMove

\* A wire is replaced by another one.
LEMMA WireReplaced ==
  ASSUME ServerTypes, WireInv, NEW t \in Seq(Req), Increasing(t),
         Len(wires) # 0 => \A x \in Range(t) :
           x \in Range(wires[Len(wires)]) \/ (Served < x /\ x <= Served'),
         wires' = [wires EXCEPT ![Len(wires)] = t]
  PROVE  WiresMove /\ Len(wires') = Len(wires)
<1>1. wires \in Seq(Seq(Req)) /\ Len(wires) \in Nat /\ Len(wires) <= MaxConns
  BY LenProperties DEF ServerTypes
<1>2. CASE Len(wires) = 0
  <2>1. wires = <<>> BY <1>1, <1>2, EmptySeq
  <2>2. wires' = wires BY <2>1
  <2>3. \A c \in 1..Len(wires) : FALSE BY <1>2
  <2>4. Len(wires') = Len(wires) BY <2>2
  <2>5. WiresMove
    <3>1. \A c \in 1..Len(wires') : FALSE BY <2>3, <2>4
    <3>2. wires' \in Seq(Seq(Req)) /\ Len(wires') <= MaxConns BY <1>1, <2>2, <2>4
    <3> QED BY <3>1, <3>2 DEF WiresMove
  <2> QED BY <2>4, <2>5
<1>3. CASE Len(wires) # 0
  <2> DEFINE n == Len(wires)
             w == [wires EXCEPT ![n] = t]
  <2>1. n \in 1..n BY <1>1, <1>3
  <2>2. /\ w \in Seq(Seq(Req)) /\ Len(w) = n
        /\ \A c \in 1..n : w[c] = IF c = n THEN t ELSE wires[c]
    <3> HIDE DEF w
    <3>1. /\ [wires EXCEPT ![n] = t] \in Seq(Seq(Req))
          /\ Len([wires EXCEPT ![n] = t]) = Len(wires)
          /\ \A j \in 1..Len(wires) : [wires EXCEPT ![n] = t][j] = IF j = n THEN t ELSE wires[j]
      BY <1>1, <2>1, ExceptSeq
    <3> QED BY <3>1 DEF w
  <2>3. wires' = w OBVIOUS
  <2> HIDE DEF w
  <2>4. ASSUME NEW c \in 1..n
        PROVE  /\ Increasing(w[c])
               /\ \A x \in Range(w[c]) :
                    x \in Range(wires[c]) \/ (c = n /\ Served < x /\ x <= Served')
    <3>1. CASE c = n BY <3>1, <2>2, <1>3
    <3>2. CASE c # n BY <3>2, <2>2 DEF WireInv
    <3> QED BY <3>1, <3>2
  <2> QED BY <1>1, <2>2, <2>3, <2>4 DEF WiresMove
<1> QED BY <1>2, <1>3
\* A step of the client on its own.
LEMMA ClientStepMoves ==
  ASSUME ClientInv, ServerTypes, WireInv, ClientStep, ClientInv', MovesOn
  PROVE  WiresMove /\ Len(wires') = Len(wires)
<1> DEFINE new == delivered' \ delivered
<1>1. new \subseteq {current'} \ {None, current} BY DEF MovesOn
<1>2. wires' = IF SetToSeq(new) = <<>> THEN wires
               ELSE [wires EXCEPT ![Len(wires)] = @ \o SetToSeq(new)]
  BY DEF ClientStep
<1> HIDE DEF new
<1>3. CASE new = {}
  <2>1. wires' = wires BY <1>2, <1>3, SetToSeqOfFew
  <2> QED BY <2>1, WiresStay
<1>4. CASE new # {}
  <2> DEFINE x == current'
             last == wires[Len(wires)]
  <2>1. new = {x} /\ x \notin {None, current} BY <1>1, <1>4
  <2>2. x \in Req /\ Served < x /\ Served' = x
    <3>1. x \in Req \cup {None} BY DEF ClientInv, IInv, TypeOK
    <3> QED BY <2>1, <3>1 DEF MovesOn, Served
  <2> HIDE DEF x
  <2>3. SetToSeq(new) = <<x>> /\ <<x>> # <<>> BY <2>1, SetToSeqOfFew
  <2>4. wires' = [wires EXCEPT ![Len(wires)] = last \o <<x>>] BY <2>3, <1>2
  <2>5. CASE Len(wires) = 0
    <3>1. wires = <<>> BY <2>5, EmptySeq DEF ServerTypes
    <3>2. wires' = wires BY <2>4, <3>1
    <3> QED BY <3>2, WiresStay
  <2>6. CASE Len(wires) # 0
    <3>1. Len(wires) \in 1..Len(wires) BY <2>6, LenProperties DEF ServerTypes
    <3>2. last \in Seq(Req) /\ Increasing(last) /\ \A y \in Range(last) : y <= Served
      BY <3>1, ElementOfSeq DEF ServerTypes, WireInv
    <3>3. \A y \in Range(last) : y < x
      BY <3>2, <2>2, Numbers, RangeByIndex
    <3>4. /\ last \o <<x>> \in Seq(Req) /\ Increasing(last \o <<x>>)
          /\ Range(last \o <<x>>) \subseteq Range(last) \cup {x}
      <4> HIDE DEF last
      <4> QED BY <3>2, <3>3, <2>2, GrowInOrder
    <3>5. Served < x /\ x <= Served' BY <2>2, Numbers
    <3> DEFINE t == last \o <<x>>
    <3>6. /\ t \in Seq(Req) /\ Increasing(t) /\ wires' = [wires EXCEPT ![Len(wires)] = t]
          /\ \A y \in Range(t) : y \in Range(wires[Len(wires)]) \/ (Served < y /\ y <= Served')
      BY <3>4, <3>5, <2>4
    <3> HIDE DEF t
    <3> QED BY <3>6, WireReplaced
  <2> QED BY <2>5, <2>6
<1> QED BY <1>3, <1>4

\* A connection is made.
LEMMA ConnectMoves ==
  ASSUME ClientInv, ServerTypes, WireInv, Connect
  PROVE  WiresMove
<1>1. /\ wires \in Seq(Seq(Req)) /\ Len(wires) < MaxConns /\ Len(wires) \in Nat
      /\ wires' = Append(wires, <<>>) /\ <<>> \in Seq(Req) /\ Len(<<>>) = 0 /\ MaxConns \in Nat
  BY LenProperties, EmptySeq, ConversationAssumption DEF Connect, ServerTypes
<1>2. /\ wires' \in Seq(Seq(Req)) /\ Len(wires') = Len(wires) + 1
      /\ \A c \in 1..Len(wires) : wires'[c] = wires[c]
      /\ wires'[Len(wires) + 1] = <<>>
  BY <1>1, AppendProperties
<1>3. (\A x \in Range(<<>>) : FALSE) /\ Increasing(<<>>)
  <2>1. \A i \in 1..Len(<<>>) : FALSE BY <1>1
  <2>2. \A x \in Range(<<>>) : \E i \in 1..Len(<<>>) : <<>>[i] = x BY <1>1, RangeByIndex
  <2> QED BY <2>1, <2>2 DEF Increasing
<1>4. \A c \in 1..Len(wires') : c \in 1..Len(wires) \/ c = Len(wires) + 1 BY <1>1, <1>2
<1>5. ASSUME NEW c \in 1..Len(wires')
      PROVE  /\ Increasing(wires'[c])
             /\ \A x \in Range(wires'[c]) : c \in 1..Len(wires) /\ x \in Range(wires[c])
  <2>1. CASE c \in 1..Len(wires) BY <2>1, <1>2 DEF WireInv
  <2>2. CASE c = Len(wires) + 1 BY <2>2, <1>2, <1>3
  <2> QED BY <2>1, <2>2, <1>4
<1>6. Len(wires') <= MaxConns BY <1>1, <1>2
<1> QED BY <1>2, <1>5, <1>6 DEF WiresMove

\* A connection closes, and only a part of what is on it will arrive.
LEMMA CloseMoves ==
  ASSUME ClientInv, ServerTypes, WireInv, NEW k \in 0..MaxRequests, Close(k)
  PROVE  WiresMove
<1> DEFINE last == wires[Len(wires)]
           t == SubSeq(last, 1, k)
<1>1. wires' = [wires EXCEPT ![Len(wires)] = t] /\ k <= Len(last) BY DEF Close, Last
<1>2. k \in Nat BY BoundsAssumption
<1>3. CASE Len(wires) = 0
  <2>1. wires = <<>> BY <1>3, EmptySeq DEF ServerTypes
  <2>2. wires' = wires BY <1>1, <2>1
  <2> QED BY <2>2, WiresStay
<1>4. CASE Len(wires) # 0
  <2>1. Len(wires) \in 1..Len(wires) BY <1>4, LenProperties DEF ServerTypes
  <2>2. last \in Seq(Req) /\ Increasing(last)
    BY <2>1, ElementOfSeq DEF ServerTypes, WireInv
  <2>3. k \in 0..Len(last) BY <2>2, <1>1, <1>2, LenProperties
  <2>4. t \in Seq(Req) /\ Increasing(t) /\ Range(t) \subseteq Range(last)
    <3> HIDE DEF last
    <3> QED BY <2>2, <2>3, CutInOrder
  <2>5. \A x \in Range(t) : x \in Range(wires[Len(wires)]) BY <2>4
  <2> HIDE DEF t
  <2> QED BY <2>4, <2>5, <1>1, WireReplaced
<1> QED BY <1>3, <1>4
-----------------------------------------------------------------------------
(* The order in which requests are on their way, wait and were served.       *)

\* The entries of the history.
LEMMA ServedType ==
  ASSUME ServerTypes, NEW i \in 1..Len(served)
  PROVE  /\ served[i] \in [req : Req, conn : 1..MaxConns, event : Nat]
         /\ served[i].req \in Req
<1>1. served[i] \in [req : Req, conn : 1..MaxConns, event : Nat]
  BY ElementOfSeq DEF ServerTypes
<1> QED BY <1>1

\* A step that leaves the server alone keeps it.
LEMMA MoveKeepsOrder ==
  ASSUME ClientInv, ServerTypes, OrderInv, ClientInv', MovesOn, WiresMove, UNCHANGED server
  PROVE  OrderInv'
<1>1. /\ Served \in Nat /\ Served' \in Nat /\ Served <= Served'
      /\ \A x \in Req : x \in Nat
  BY Numbers
<1>2. batch' = batch /\ served' = served BY DEF server
<1>3. ASSUME NEW c \in 1..Len(wires'), NEW x \in Range(wires'[c])
      PROVE  /\ x \in Req /\ x \in Nat /\ x <= Served'
             /\ \/ c \in 1..Len(wires) /\ x \in Range(wires[c]) /\ x <= Served
                \/ c = Len(wires') /\ Served < x
  <2> DEFINE w == wires'
  <2>1. w \in Seq(Seq(Req)) BY DEF WiresMove
  <2>2. w[c] \in Seq(Req) /\ x \in Range(w[c])
    <3> HIDE DEF w
    <3>1. c \in 1..Len(w) BY DEF w
    <3> QED BY <2>1, <3>1, ElementOfSeq DEF w
  <2>3. x \in Req
    <3> HIDE DEF w
    <3> QED BY <2>2, RangeByIndex
  <2>4. x \in Nat BY <2>3, <1>1
  <2>5. \/ c \in 1..Len(wires) /\ x \in Range(wires[c])
        \/ c = Len(wires') /\ Served < x /\ x <= Served'
    BY DEF WiresMove
  <2>6. c \in 1..Len(wires) /\ x \in Range(wires[c]) => x <= Served BY DEF OrderInv, WireInv
  <2>7. x <= Served => x <= Served' BY <2>4, <1>1
  <2> QED BY <2>3, <2>4, <2>5, <2>6, <2>7
<1>4. WireInv'
  <2>1. ASSUME NEW c \in 1..Len(wires')
        PROVE  Increasing(wires'[c]) /\ \A x \in Range(wires'[c]) : x <= Served'
    BY <1>3 DEF WiresMove
  <2>2. ASSUME NEW c \in 1..Len(wires'), NEW d \in 1..Len(wires'), c < d,
               NEW x \in Range(wires'[c]), NEW y \in Range(wires'[d])
        PROVE  x < y
    <3>1. x \in Nat /\ y \in Nat BY <1>3
    <3>2. Len(wires') \in Nat BY LenProperties DEF WiresMove
    <3>3. c \in 1..Len(wires) /\ x \in Range(wires[c]) /\ x <= Served
      <4>1. c # Len(wires') BY <3>2, <2>2
      <4> QED BY <4>1, <1>3
    <3>4. CASE d \in 1..Len(wires) /\ y \in Range(wires[d])
      BY <3>3, <3>4, <2>2 DEF OrderInv, WireInv
    <3>5. CASE Served < y BY <3>1, <3>3, <3>5, <1>1
    <3> QED BY <3>4, <3>5, <1>3
  <2> QED BY <2>1, <2>2 DEF WireInv, Increasing
<1>5. BatchInv'
  <2>1. \A x \in Range(batch.reqs) : x \in Nat /\ x <= Served
    BY <1>1, RangeByIndex DEF ServerTypes, OrderInv, BatchInv
  <2>2. \A x \in Range(batch.reqs) : x <= Served' BY <2>1, <1>1
  <2>3. ASSUME NEW c \in 1..Len(wires'), NEW x \in Range(batch.reqs), NEW y \in Range(wires'[c])
        PROVE  x # y /\ (y < x => c < batch.conn)
    <3>1. CASE c \in 1..Len(wires) /\ y \in Range(wires[c])
      BY <3>1 DEF OrderInv, BatchInv
    <3>2. CASE Served < y BY <3>2, <2>1, <1>1, <1>3
    <3> QED BY <3>1, <3>2, <1>3
  <2>4. Decreasing(batch.reqs) BY DEF OrderInv, BatchInv
  <2> QED BY <1>2, <2>2, <2>3, <2>4 DEF BatchInv, Decreasing
<1>6. ServedInv'
  <2> SUFFICES ASSUME NEW i \in 1..Len(served)
               PROVE  /\ served[i].req <= Served'
                      /\ \A x \in Range(batch.reqs) :
                           /\ x # served[i].req
                           /\ x < served[i].req =>
                                served[i].event = batch.event \/ batch.conn < served[i].conn
                      /\ \A c \in 1..Len(wires') : \A y \in Range(wires'[c]) :
                           y # served[i].req /\ (y < served[i].req => c < served[i].conn)
    BY <1>2 DEF ServedInv
  <2>1. served[i].req \in Nat /\ served[i].req <= Served
    <3>1. served[i].req \in Req BY ServedType
    <3> QED BY <3>1, <1>1 DEF OrderInv, ServedInv
  <2>2. ASSUME NEW c \in 1..Len(wires'), NEW y \in Range(wires'[c])
        PROVE  y # served[i].req /\ (y < served[i].req => c < served[i].conn)
    <3>1. CASE c \in 1..Len(wires) /\ y \in Range(wires[c])
      BY <3>1 DEF OrderInv, ServedInv
    <3>2. CASE Served < y BY <3>2, <2>1, <1>1, <1>3
    <3> QED BY <3>1, <3>2, <1>3
  <2> QED BY <2>1, <2>2, <1>1 DEF OrderInv, ServedInv
<1> QED BY <1>4, <1>5, <1>6 DEF OrderInv

\* A data event takes the front of a wire, the youngest request first.
LEMMA DataKeepsOrder ==
  ASSUME ClientInv, ServerTypes, OrderInv,
         NEW c \in DOMAIN wires, NEW k \in 1..Len(wires[c]), ServerData(c, k)
  PROVE  /\ OrderInv'
         /\ wires' \in Seq(Seq(Req)) /\ Len(wires') = Len(wires) /\ batch'.reqs \in Seq(Req)
<1> DEFINE s == wires[c]
           front == SubSeq(s, 1, k)
           rest == SubSeq(s, k + 1, Len(s))
           reqs == Reverse(front)
           w == [wires EXCEPT ![c] = rest]
           n == Len(wires)
<1>1. wires \in Seq(Seq(Req)) /\ n \in Nat /\ c \in 1..n BY LenProperties DEF ServerTypes
<1>2. s \in Seq(Req) /\ Increasing(s) /\ Len(s) \in Nat /\ k \in 0..Len(s)
  <2>1. s \in Seq(Req) /\ Increasing(s) BY <1>1, ElementOfSeq DEF OrderInv, WireInv
  <2>2. Len(s) \in Nat BY <2>1, LenProperties
  <2> QED BY <2>1, <2>2
<1>3. batch' = [conn |-> c, event |-> Len(served) + 1, reqs |-> reqs] /\ wires' = w
  BY DEF ServerData
<1>4. served' = served /\ Served' = Served BY DEF ServerData, vars, handler, Served, Registered
<1> HIDE DEF s
<1>5. /\ front \in Seq(Req) /\ Increasing(front) /\ Range(front) \subseteq Range(s)
      /\ rest \in Seq(Req) /\ Increasing(rest) /\ Range(rest) \subseteq Range(s)
      /\ \A x \in Range(front), y \in Range(rest) : x < y
  BY <1>2, CutInOrder
<1> HIDE DEF front, rest
<1>6. reqs \in Seq(Req) /\ Decreasing(reqs) /\ Range(reqs) \subseteq Range(front)
  BY <1>5, ReverseInOrder
<1> HIDE DEF reqs
<1>7. /\ w \in Seq(Seq(Req)) /\ Len(w) = n
      /\ \A d \in 1..n : w[d] = IF d = c THEN rest ELSE wires[d]
  BY <1>1, <1>5, ExceptSeq
<1> HIDE DEF w
<1>8. \A d \in 1..n : Increasing(w[d]) /\ Range(w[d]) \subseteq Range(wires[d])
  <2> SUFFICES ASSUME NEW d \in 1..n
               PROVE  Increasing(w[d]) /\ Range(w[d]) \subseteq Range(wires[d])
    OBVIOUS
  <2>1. CASE d = c BY <2>1, <1>5, <1>7 DEF s
  <2>2. CASE d # c BY <2>2, <1>7 DEF OrderInv, WireInv
  <2> QED BY <2>1, <2>2
<1>9. WireInv'
  <2>1. \A d \in 1..n : Increasing(w[d]) /\ \A x \in Range(w[d]) : x <= Served
    BY <1>8 DEF OrderInv, WireInv
  <2>2. ASSUME NEW d \in 1..n, NEW e \in 1..n, d < e, NEW x \in Range(w[d]), NEW y \in Range(w[e])
        PROVE  x < y
    <3>1. x \in Range(wires[d]) /\ y \in Range(wires[e]) BY <1>8
    <3> QED BY <2>2, <3>1 DEF OrderInv, WireInv
  <2> QED BY <2>1, <2>2, <1>3, <1>4, <1>7 DEF WireInv, Increasing
<1>10. BatchInv'
  <2>1. ASSUME NEW d \in 1..n, NEW x \in Range(reqs), NEW y \in Range(w[d])
        PROVE  x # y /\ (y < x => d < c)
    <3>1. x \in Range(s) /\ x \in Req /\ y \in Range(wires[d]) /\ y \in Req
      <4>1. wires[d] \in Seq(Req) BY <1>1, ElementOfSeq
      <4> QED BY <4>1, <1>2, <1>5, <1>6, <1>8, RangeByIndex
    <3>2. x \in Nat /\ y \in Nat BY <3>1, BoundsAssumption DEF Req
    <3>3. CASE d = c
      <4>1. x < y BY <3>3, <1>5, <1>6, <1>7
      <4> QED BY <4>1, <3>2
    <3>4. CASE d < c
      <4>1. y < x BY <3>1, <3>4, <1>1 DEF OrderInv, WireInv, s
      <4> QED BY <4>1, <3>2, <3>4
    <3>5. CASE c < d
      <4>1. x < y BY <3>1, <3>5, <1>1 DEF OrderInv, WireInv, s
      <4> QED BY <4>1, <3>2
    <3> QED BY <3>3, <3>4, <3>5, <1>1
  <2>2. \A x \in Range(reqs) : x <= Served BY <1>1, <1>5, <1>6 DEF OrderInv, WireInv, s
  <2>3. batch'.reqs = reqs /\ batch'.conn = c BY <1>3
  <2> QED BY <1>3, <1>4, <1>6, <1>7, <2>1, <2>2, <2>3 DEF BatchInv, Decreasing
<1>11. ServedInv'
  <2> SUFFICES ASSUME NEW i \in 1..Len(served)
               PROVE  /\ served[i].req <= Served
                      /\ \A x \in Range(reqs) :
                           x # served[i].req /\ (x < served[i].req => c < served[i].conn)
                      /\ \A d \in 1..n : \A y \in Range(w[d]) :
                           y # served[i].req /\ (y < served[i].req => d < served[i].conn)
    BY <1>3, <1>4, <1>7 DEF ServedInv
  <2>1. \A x \in Range(reqs) : x \in Range(wires[c]) BY <1>5, <1>6 DEF s
  <2> QED BY <2>1, <1>1, <1>8 DEF OrderInv, ServedInv
<1> QED BY <1>3, <1>6, <1>7, <1>9, <1>10, <1>11 DEF OrderInv
\* Serving a request leaves the client's line alone, and adds to the history.
LEMMA ServeQuiet ==
  ASSUME ClientInv, ServerTypes, NEW r \in Req, ServerServes(r)
  PROVE  /\ UNCHANGED <<current, issued, outcome, answeredBy, wires>>
         /\ Served' = Served /\ Registered' = Registered
         /\ batch' = [conn |-> batch.conn, event |-> batch.event, reqs |-> Tail(batch.reqs)]
         /\ served' \in Seq([req : Req, conn : 1..MaxConns, event : Nat])
         /\ Len(served') = Len(served) + 1 /\ Len(served) \in Nat
         /\ \A i \in 1..Len(served) : served'[i] = served[i]
         /\ served'[Len(served) + 1] = [req |-> r, conn |-> batch.conn, event |-> batch.event]
<1>1. UNCHANGED <<current, issued, outcome, answeredBy, wires>>
  BY DEF ServerServes, Answer, Send, vars, handler
<1>2. Served' = Served /\ Registered' = Registered BY <1>1 DEF Served, Registered
<1>3. batch' = [conn |-> batch.conn, event |-> batch.event, reqs |-> Tail(batch.reqs)]
  BY DEF ServerServes, ServerTypes
<1>4. [req |-> r, conn |-> batch.conn, event |-> batch.event]
        \in [req : Req, conn : 1..MaxConns, event : Nat]
  BY DEF ServerTypes
<1>5. served' = Append(served, [req |-> r, conn |-> batch.conn, event |-> batch.event])
  BY DEF ServerServes
<1>6. served \in Seq([req : Req, conn : 1..MaxConns, event : Nat]) BY DEF ServerTypes
<1> QED BY <1>1, <1>2, <1>3, <1>4, <1>5, <1>6, AppendProperties, LenProperties

\* The youngest request of the data event joins the history.
LEMMA ServeKeepsOrder ==
  ASSUME ClientInv, ServerTypes, OrderInv, NEW r \in Req, ServerServes(r)
  PROVE  OrderInv'
<1> DEFINE reqs == batch.reqs
           rest == Tail(reqs)
           n == Len(served)
<1>1. /\ wires' = wires /\ Served' = Served /\ n \in Nat
      /\ batch' = [conn |-> batch.conn, event |-> batch.event, reqs |-> rest]
      /\ Len(served') = n + 1
      /\ \A i \in 1..n : served'[i] = served[i]
      /\ served'[n + 1] = [req |-> r, conn |-> batch.conn, event |-> batch.event]
  BY ServeQuiet
<1>2. reqs \in Seq(Req) /\ Decreasing(reqs) /\ reqs # <<>> /\ r = Head(reqs)
  BY DEF ServerTypes, OrderInv, BatchInv, ServerServes
<1> HIDE DEF reqs
<1>3. /\ r \in Range(reqs)
      /\ rest \in Seq(Req) /\ Decreasing(rest) /\ Range(rest) \subseteq Range(reqs)
      /\ \A x \in Range(rest) : x < r
  BY <1>2, HeadInOrder
<1> HIDE DEF rest
<1>4. WireInv' BY <1>1 DEF OrderInv, WireInv, Increasing
<1>5. BatchInv'
  <2>1. batch'.reqs = rest /\ batch'.conn = batch.conn BY <1>1
  <2>2. \A x \in Range(rest) : x <= Served BY <1>3 DEF OrderInv, BatchInv, reqs
  <2>3. \A c \in 1..Len(wires) : \A x \in Range(rest), y \in Range(wires[c]) :
          x # y /\ (y < x => c < batch.conn)
    BY <1>3 DEF OrderInv, BatchInv, reqs
  <2> QED BY <1>1, <1>3, <2>1, <2>2, <2>3 DEF BatchInv, Decreasing
<1>6. ServedInv'
  <2>1. batch'.reqs = rest /\ batch'.conn = batch.conn /\ batch'.event = batch.event BY <1>1
  <2> SUFFICES ASSUME NEW i \in 1..(n + 1), NEW s, s = served'[i]
               PROVE  /\ s.req <= Served
                      /\ \A x \in Range(rest) :
                           /\ x # s.req
                           /\ x < s.req => s.event = batch.event \/ batch.conn < s.conn
                      /\ \A c \in 1..Len(wires) : \A y \in Range(wires[c]) :
                           y # s.req /\ (y < s.req => c < s.conn)
    BY <1>1, <2>1 DEF ServedInv
  <2>2. CASE i \in 1..n
    <3>1. s = served[i] BY <1>1, <2>2
    <3>2. \A x \in Range(rest) : x \in Range(batch.reqs) BY <1>3 DEF reqs
    <3> QED BY <3>1, <3>2, <2>2 DEF OrderInv, ServedInv
  <2>3. CASE i = n + 1
    <3>1. s.req = r /\ s.conn = batch.conn /\ s.event = batch.event BY <1>1, <2>3
    <3>2. r <= Served BY <1>3 DEF OrderInv, BatchInv, reqs
    <3>3. \A x \in Range(rest) : x # r
      <4>1. ASSUME NEW x \in Range(rest) PROVE x # r
        <5>1. x \in Nat /\ r \in Nat /\ x < r
          BY <1>3, RangeByIndex, BoundsAssumption DEF Req
        <5> QED BY <5>1
      <4> QED BY <4>1
    <3>4. \A c \in 1..Len(wires) : \A y \in Range(wires[c]) :
            y # r /\ (y < r => c < batch.conn)
      BY <1>3 DEF OrderInv, BatchInv, reqs
    <3> QED BY <3>1, <3>2, <3>3, <3>4
  <2>4. i \in 1..n \/ i = n + 1 BY <1>1
  <2> QED BY <2>2, <2>3, <2>4
<1> QED BY <1>4, <1>5, <1>6 DEF OrderInv

-----------------------------------------------------------------------------
(* The history, the answers and the register.                                *)

\* A request that has left the queue before another one has been settled.
LEMMA EarlierSettled ==
  ASSUME IInv, NEW r \in Req, NEW q \in Nat, r < q, q <= Served
  PROVE  r <= Registered /\ outcome[r] \notin {"none", "pending"}
<1>1. r \in Nat BY BoundsAssumption DEF Req
<1>2. Served \in Nat /\ Served <= Registered /\ Registered \in Nat BY LineState
<1>3. r < Served /\ r <= Registered BY <1>1, <1>2
<1>4. outcome[r] # "none" BY <1>1, <1>2, <1>3, InState DEF Waiting
<1>5. outcome[r] # "pending"
  <2>1. CASE current = None
    <3>1. requests = <<>> BY <2>1, InState
    <3>2. \A i \in 1..Len(requests) : FALSE BY <3>1, EmptySeq
    <3>3. r # current BY <2>1, BoundsAssumption DEF Req, None
    <3> QED BY <3>2, <3>3, InState DEF Waiting
  <2>2. CASE current # None
    <3>1. r < current BY <2>2, <1>3 DEF Served
    <3>2. current \in Nat BY InState
    <3> QED BY <3>1, <3>2, <1>1, LineState
  <2> QED BY <2>1, <2>2
<1> QED BY <1>3, <1>4, <1>5

\* What was overtaken once stays so.
LEMMA OvertakenStays ==
  ASSUME ServerTypes, OvertakenInv, MovesOn, UNCHANGED served
  PROVE  OvertakenInv'
<1> SUFFICES ASSUME NEW i \in 1..Len(served), NEW j \in 1..Len(served), i < j
             PROVE  /\ served[i].req # served[j].req
                    /\ served[j].req < served[i].req =>
                         /\ outcome'[served[j].req] \notin {"none", "pending", "resolved"}
                         /\ served[i].event = served[j].event \/ served[j].conn < served[i].conn
  BY DEF OvertakenInv
<1>1. served[j].req \in Req BY ServedType
<1> QED BY <1>1 DEF OvertakenInv, MovesOn

\* A request served late had been given up.
LEMMA OvertakenOnServing ==
  ASSUME ClientInv, ServerTypes, OrderInv, OvertakenInv, FlowInv,
         NEW r \in Req, ServerServes(r)
  PROVE  OvertakenInv'
<1> DEFINE n == Len(served)
           s == served'
<1>1. /\ outcome' = outcome /\ n \in Nat /\ Len(s) = n + 1
      /\ \A i \in 1..n : s[i] = served[i]
      /\ s[n + 1] = [req |-> r, conn |-> batch.conn, event |-> batch.event]
  BY ServeQuiet
<1>2. r \in Range(batch.reqs)
  BY HeadInOrder DEF ServerServes, ServerTypes, OrderInv, BatchInv
<1> HIDE DEF n, s
<1> SUFFICES ASSUME NEW i \in 1..(n + 1), NEW j \in 1..(n + 1), i < j
             PROVE  /\ s[i].req # s[j].req
                    /\ s[j].req < s[i].req =>
                         /\ outcome[s[j].req] \notin {"none", "pending", "resolved"}
                         /\ s[i].event = s[j].event \/ s[j].conn < s[i].conn
  BY <1>1 DEF OvertakenInv, s
<1>3. i \in 1..n BY <1>1
<1>4. CASE j \in 1..n BY <1>1, <1>3, <1>4 DEF OvertakenInv, n
<1>5. CASE j = n + 1
  <2>1. /\ s[i] = served[i] /\ s[j].req = r /\ s[j].conn = batch.conn /\ s[j].event = batch.event
    BY <1>1, <1>3, <1>5
  <2>2. /\ r # served[i].req /\ served[i].req <= Served
        /\ r < served[i].req => served[i].event = batch.event \/ batch.conn < served[i].conn
    BY <1>2, <1>3 DEF OrderInv, ServedInv, n
  <2>3. ASSUME r < served[i].req PROVE outcome[r] \notin {"none", "pending", "resolved"}
    <3>1. served[i].req \in Req BY <1>3, ServedType DEF n
    <3>2. served[i].req \in Nat BY <3>1, BoundsAssumption DEF Req
    <3>3. outcome[r] \notin {"none", "pending"} BY <2>2, <2>3, <3>2, EarlierSettled DEF ClientInv
    <3>4. ~WasServed(r) BY <1>2 DEF OrderInv, ServedInv, WasServed
    <3>5. outcome[r] # "resolved" BY <3>4 DEF FlowInv
    <3> QED BY <3>3, <3>5
  <2> QED BY <2>1, <2>2, <2>3
<1>6. j \in 1..n \/ j = n + 1 BY <1>1
<1> QED BY <1>4, <1>5, <1>6
\* Only the server puts an answer on its way.
LEMMA NothingAnswered ==
  ASSUME ClientInv, NEW d \in {0, 1}, Traffic(d),
         \/ ClientStep \/ Connect \/ UNCHANGED vars
         \/ \E k \in 0..MaxRequests : Close(k)
  PROVE  \A i \in 1..Len(OnTheWay') : \E j \in 1..Len(OnTheWay) : OnTheWay'[i] = OnTheWay[j]
<1>1. CASE ClientStep \/ Connect \/ UNCHANGED vars
  <2>1. delivered \subseteq delivered'
    BY <1>1, ClientDelivers DEF Connect, OnConnect, LinkUp, vars, network
  <2>2. \A res : ~Sent(res) BY <2>1, ConversationAssumption DEF Sent
  <2> QED BY <2>2 DEF Traffic
<1>2. CASE \E k \in 0..MaxRequests : Close(k)
  <2>1. messages' = messages /\ inbox' = <<>> BY <1>2 DEF Close, OnClose, LinkLost
  <2>2. OnTheWay' = messages BY <2>1, WayState, ConcatEmptySeq DEF OnTheWay, ClientInv
  <2>3. \A i \in 1..Len(messages) : i \in 1..Len(OnTheWay) /\ OnTheWay[i] = messages[i]
    BY WayState DEF ClientInv
  <2> QED BY <2>2, <2>3
<1> QED BY <1>1, <1>2

\* An answer settles only the request it answers.
LEMMA OwnAnswer ==
  ASSUME ClientInv, ClientInv', FlowInv, NEW d \in {0, 1}, Ending(d),
         NEW r \in Req, outcome'[r] = "resolved"
  PROVE  WasServed(r) /\ answeredBy'[r] = r
<1>1. CASE outcome[r] = "resolved" /\ answeredBy'[r] = answeredBy[r] BY <1>1 DEF FlowInv
<1>2. CASE /\ 1 \in 1..Len(OnTheWay) /\ Takes(OnTheWay[1])
           /\ r = current /\ answeredBy'[r] = OnTheWay[1].origin
  <2> DEFINE q == OnTheWay[1].origin
  <2>1. q \in 1..Registered /\ Registered \in Nat
    BY <1>2, LineState DEF Takes, ClientInv, CauseInv, AnswerInv, Answering
  <2>2. WasServed(q) BY <1>2 DEF FlowInv
  <2>3. q = r
    <3>1. answeredBy'[r] \notin {None, r} => answeredBy'[r] + IdMod <= r
      BY DEF ClientInv, CrossTalkInv
    <3>2. r \in Nat /\ r <= MaxRequests /\ IdMod > MaxRequests /\ IdMod \in Nat /\ MaxRequests \in Nat
      BY BoundsAssumption, ConversationAssumption, IdModAssumption DEF Req
    <3>3. answeredBy'[r] = q BY <1>2
    <3> HIDE DEF q
    <3> QED BY <2>1, <3>1, <3>2, <3>3 DEF None
  <2> QED BY <2>2, <2>3, <1>2
<1>3. CASE Stays \/ GivesUp BY <1>1, <1>3 DEF Stays, GivesUp
<1>4. CASE 1 \in 1..Len(OnTheWay) /\ Takes(OnTheWay[1]) BY <1>1, <1>2, <1>4 DEF Takes
<1> QED BY <1>3, <1>4 DEF Ending

\* What the client does keeps answers attributed.
LEMMA FlowStays ==
  ASSUME ClientInv, ClientInv', FlowInv, NEW d \in {0, 1}, Ending(d), UNCHANGED served,
         \A i \in 1..Len(OnTheWay') : \E j \in 1..Len(OnTheWay) : OnTheWay'[i] = OnTheWay[j]
  PROVE  FlowInv'
<1>1. \A r : WasServed(r)' <=> WasServed(r) BY DEF WasServed
<1>2. ASSUME NEW i \in 1..Len(OnTheWay') PROVE WasServed(OnTheWay'[i].origin)
  <2>1. PICK j \in 1..Len(OnTheWay) : OnTheWay'[i] = OnTheWay[j] OBVIOUS
  <2> QED BY <2>1 DEF FlowInv
<1>3. ASSUME NEW r \in Req, outcome'[r] = "resolved" PROVE WasServed(r) /\ answeredBy'[r] = r
  BY <1>3, OwnAnswer
<1> QED BY <1>1, <1>2, <1>3 DEF FlowInv, WasServed

\* The answer of a request being served is one to a served request.
LEMMA FlowOnServing ==
  ASSUME ClientInv, ServerTypes, FlowInv, NEW r \in Req, ServerServes(r),
         NEW d \in {0, 1}, Traffic(d)
  PROVE  FlowInv'
<1> DEFINE n == Len(served)
<1>1. /\ outcome' = outcome /\ answeredBy' = answeredBy /\ n \in Nat /\ Len(served') = n + 1
      /\ \A i \in 1..n : served'[i] = served[i]
      /\ served'[n + 1] = [req |-> r, conn |-> batch.conn, event |-> batch.event]
  BY ServeQuiet
<1>2. ASSUME NEW q, q = r \/ WasServed(q) PROVE \E i \in 1..Len(served') : served'[i].req = q
  <2>1. CASE q = r
    <3>1. n + 1 \in 1..Len(served') /\ served'[n + 1].req = r BY <1>1
    <3> QED BY <2>1, <3>1
  <2>2. CASE WasServed(q)
    <3>1. PICK i \in 1..n : served[i].req = q BY <2>2 DEF WasServed
    <3>2. i \in 1..Len(served') /\ served'[i].req = q BY <1>1, <3>1
    <3> QED BY <3>2
  <2> QED BY <1>2, <2>1, <2>2
<1>3. ASSUME NEW i \in 1..Len(OnTheWay')
      PROVE  OnTheWay'[i].origin = r \/ WasServed(OnTheWay'[i].origin)
  <2>1. CASE i + d \in 1..Len(OnTheWay) /\ OnTheWay'[i] = OnTheWay[i + d]
    BY <2>1 DEF FlowInv
  <2>2. CASE Sent(OnTheWay'[i])
    <3>1. /\ OnTheWay'[i].origin \in delivered
          /\ delivered' = delivered \ {OnTheWay'[i].origin}
      BY <2>2, ConversationAssumption DEF Sent
    <3>2. delivered' = delivered \/ delivered' = delivered \ {r}
      BY DEF ServerServes, Answer, vars, network
    <3> QED BY <3>1, <3>2
  <2> QED BY <2>1, <2>2 DEF Traffic
<1>4. \A i \in 1..Len(OnTheWay') : \E j \in 1..Len(served') : served'[j].req = OnTheWay'[i].origin
  BY <1>2, <1>3
<1>5. \A q \in Req : outcome'[q] = "resolved" =>
        (\E j \in 1..Len(served') : served'[j].req = q) /\ answeredBy'[q] = q
  BY <1>1, <1>2 DEF FlowInv
<1> QED BY <1>4, <1>5 DEF FlowInv, WasServed

\* What the register held, it held: the history only grows.
LEMMA HoldsStays ==
  ASSUME ClientInv, ServerTypes, OrderInv, MovesOn,
         NEW v, NEW n \in 0..Len(served), Holds(v, n),
         \A i \in 1..Len(served) : served'[i] = served[i]
  PROVE  HoldsNext(v, n)
<1>1. Len(served) \in Nat BY LenProperties DEF ServerTypes
<1>2. \A i \in 1..n : i \in 1..Len(served) BY <1>1
<1>3. ASSUME NEW i \in 1..n
      PROVE  served'[i] = served[i] /\ issued'[served[i].req] = issued[served[i].req]
  <2>1. served[i].req \in Req /\ served[i].req <= Served
    BY <1>2, ServedType DEF OrderInv, ServedInv
  <2>2. Served \in Nat /\ Registered \in Nat /\ Served <= Registered BY LineState DEF ClientInv
  <2>3. served[i].req \in 1..Registered BY <2>1, <2>2, BoundsAssumption DEF Req
  <2> QED BY <2>3, <1>2 DEF MovesOn
<1>4. CASE v = 0 /\ NoWrite(1, n)
  BY <1>3, <1>4 DEF NoWrite, HoldsNext
<1>5. ASSUME NEW k \in 1..n, served[k].req = v, issued[v] = write, NoWrite(k + 1, n)
      PROVE  /\ served'[k].req = v /\ issued'[v] = write
             /\ \A i \in (k + 1)..n : issued'[served'[i].req] # write
  <2>1. \A i \in (k + 1)..n : i \in 1..n BY <1>1
  <2> QED BY <2>1, <1>3, <1>5 DEF NoWrite
<1> QED BY <1>4, <1>5 DEF Holds, HoldsNext

\* The register and the answers stay explained by the history.
LEMMA RegisterStays ==
  ASSUME ClientInv, ServerTypes, OrderInv, MovesOn, RegisterInv,
         UNCHANGED <<served, register, value>>
  PROVE  RegisterInv'
<1>1. Len(served) \in Nat BY LenProperties DEF ServerTypes
<1>2. Holds(register, Len(served))'
  <2>1. PICK v : v = register OBVIOUS
  <2>2. Holds(v, Len(served)) BY <2>1 DEF RegisterInv
  <2>3. Len(served) \in 0..Len(served) BY <1>1
  <2>4. HoldsNext(v, Len(served)) BY <2>2, <2>3, HoldsStays
  <2>5. register' = v /\ Len(served') = Len(served) BY <2>1
  <2> QED BY <2>4, <2>5 DEF Holds, HoldsNext, NoWrite
<1>3. ASSUME NEW j \in 1..Len(served), issued'[served[j].req] = read
      PROVE  Holds(value[served[j].req], j - 1)'
  <2>1. PICK v : v = value[served[j].req] OBVIOUS
  <2>2. served[j].req \in 1..Registered
    <3>1. served[j].req \in Req /\ served[j].req <= Served BY ServedType DEF OrderInv, ServedInv
    <3> QED BY <3>1, LineState, BoundsAssumption DEF ClientInv, Req
  <2>3. issued[served[j].req] = read BY <2>2, <1>3 DEF MovesOn
  <2>4. Holds(v, j - 1) BY <2>1, <2>3 DEF RegisterInv
  <2>5. j - 1 \in 0..Len(served) BY <1>1
  <2>6. HoldsNext(v, j - 1) BY <2>4, <2>5, HoldsStays
  <2>7. value'[served'[j].req] = v BY <2>1
  <2> QED BY <2>6, <2>7 DEF Holds, HoldsNext, NoWrite
<1> QED BY <1>2, <1>3 DEF RegisterInv
\* A write leaves its value in the register, a read is told what is there.
LEMMA RegisterOnServing ==
  ASSUME ClientInv, ServerTypes, OrderInv, MovesOn, RegisterInv,
         NEW r \in Req, ServerServes(r)
  PROVE  RegisterInv'
<1> DEFINE n == Len(served)
           s == served'
           v == register
<1>1. /\ issued' = issued /\ n \in Nat /\ Len(s) = n + 1
      /\ \A i \in 1..n : s[i] = served[i]
      /\ s[n + 1] = [req |-> r, conn |-> batch.conn, event |-> batch.event]
  BY ServeQuiet
<1>2. r \in Range(batch.reqs)
  BY HeadInOrder DEF ServerServes, ServerTypes, OrderInv, BatchInv
<1>3. issued[r] \in {read, write} /\ read # write
  <2>1. r \in 1..Registered
    <3>1. r <= Served BY <1>2 DEF OrderInv, BatchInv
    <3> QED BY <3>1, LineState, BoundsAssumption DEF ClientInv, Req
  <2>2. issued \in Seq(FC) BY InState DEF ClientInv, Env
  <2> QED BY <2>1, <2>2, ElementOfSeq, ConversationAssumption DEF Registered
<1>4. /\ register' = IF issued[r] = write THEN r ELSE v
      /\ value' = IF issued[r] = read THEN [value EXCEPT ![r] = v] ELSE value
      /\ value \in [Req -> {0} \cup Req]
  BY DEF ServerServes, ServerTypes
<1>5. HoldsNext(v, n)
  <2>1. PICK w : w = register OBVIOUS
  <2>2. Holds(w, n) /\ n \in 0..Len(served) BY <2>1, <1>1 DEF RegisterInv
  <2>3. HoldsNext(w, n)
    <3> HIDE DEF n
    <3> QED BY <2>2, <1>1, HoldsStays DEF n
  <2> QED BY <2>1, <2>3
<1> HIDE DEF v, n
<1>6. HoldsNext(register', n + 1)
  <2>1. CASE issued[r] = write
    <3>1. register' = r /\ n + 1 \in 1..(n + 1) /\ s[n + 1].req = r BY <1>1, <1>4, <2>1
    <3>2. \A i \in ((n + 1) + 1)..(n + 1) : FALSE BY <1>1
    <3> QED BY <3>1, <3>2, <1>1, <2>1 DEF HoldsNext
  <2>2. CASE issued[r] # write
    <3>1. register' = v BY <1>4, <2>2
    <3>2. s[n + 1].req = r /\ issued'[r] # write BY <1>1, <2>2
    <3>3. \A m \in Nat : \A i \in m..(n + 1) : i \in m..n \/ i = n + 1 BY <1>1
    <3>4. CASE v = 0 /\ \A i \in 1..n : issued'[s[i].req] # write
      <4>1. \A i \in 1..(n + 1) : issued'[s[i].req] # write BY <3>2, <3>3, <3>4
      <4> QED BY <3>1, <3>4, <4>1 DEF HoldsNext
    <3>5. ASSUME NEW k \in 1..n, s[k].req = v, issued'[v] = write,
                 \A i \in (k + 1)..n : issued'[s[i].req] # write
          PROVE  HoldsNext(register', n + 1)
      <4>1. \A i \in (k + 1)..(n + 1) : issued'[s[i].req] # write BY <3>2, <3>3, <3>5
      <4>2. k \in 1..(n + 1) BY <1>1
      <4> QED BY <3>1, <3>5, <4>1, <4>2 DEF HoldsNext
    <3> QED BY <1>5, <3>4, <3>5 DEF HoldsNext
  <2> QED BY <2>1, <2>2
<1>7. ASSUME NEW j \in 1..(n + 1), issued[s[j].req] = read
      PROVE  HoldsNext(value'[s[j].req], j - 1)
  <2>1. CASE j = n + 1
    <3>1. s[j].req = r /\ j - 1 = n BY <1>1, <2>1
    <3>2. value'[r] = v BY <3>1, <1>4, <1>7
    <3> QED BY <3>1, <3>2, <1>5
  <2>2. CASE j \in 1..n
    <3>1. s[j] = served[j] /\ served[j].req \in Req BY <2>2, <1>1, ServedType DEF n
    <3>2. served[j].req # r BY <2>2, <1>2 DEF OrderInv, ServedInv, n
    <3>3. value'[served[j].req] = value[served[j].req] BY <3>1, <3>2, <1>4
    <3>4. PICK w : w = value[served[j].req] OBVIOUS
    <3>5. Holds(w, j - 1) BY <3>1, <3>4, <1>7, <2>2 DEF RegisterInv, n
    <3>6. j - 1 \in 0..Len(served) BY <2>2, <1>1 DEF n
    <3>7. HoldsNext(w, j - 1) BY <3>5, <3>6, <1>1, HoldsStays DEF n
    <3> QED BY <3>1, <3>3, <3>4, <3>7
  <2>3. j = n + 1 \/ j \in 1..n BY <1>1
  <2> QED BY <2>1, <2>2, <2>3
<1>8. Holds(register, Len(served))' BY <1>1, <1>6 DEF Holds, HoldsNext, NoWrite
<1>9. ASSUME NEW j \in 1..(n + 1), issued[s[j].req] = read
      PROVE  Holds(value[served[j].req], j - 1)'
  BY <1>7, <1>9 DEF Holds, HoldsNext, NoWrite
<1> QED BY <1>1, <1>8, <1>9 DEF RegisterInv

-----------------------------------------------------------------------------
(* Every step keeps the invariant.                                           *)

\* The server's variables keep their types: on a data event ...
LEMMA ServerDataTypes ==
  ASSUME ClientInv, ServerTypes, OrderInv,
         NEW c \in DOMAIN wires, NEW k \in 1..Len(wires[c]), ServerData(c, k)
  PROVE  ServerTypes'
<1>1. /\ wires' \in Seq(Seq(Req)) /\ Len(wires') = Len(wires)
      /\ batch'.reqs \in Seq(Req)
  BY DataKeepsOrder
<1>2. /\ batch' = [conn |-> c, event |-> Len(served) + 1, reqs |-> batch'.reqs]
      /\ UNCHANGED <<register, value, served>>
  BY DEF ServerData
<1>3. c \in 1..MaxConns
  <2>1. c \in 1..Len(wires) /\ Len(wires) \in Nat BY LenProperties DEF ServerTypes
  <2> QED BY <2>1, ConversationAssumption DEF ServerTypes
<1>4. Len(served) + 1 \in Nat BY LenProperties DEF ServerTypes
<1> QED BY <1>1, <1>2, <1>3, <1>4 DEF ServerTypes

\* ... and when a request is served.
LEMMA ServesTypes ==
  ASSUME ClientInv, ServerTypes, NEW r \in Req, ServerServes(r)
  PROVE  ServerTypes'
<1>1. /\ wires' = wires
      /\ batch' = [conn |-> batch.conn, event |-> batch.event, reqs |-> Tail(batch.reqs)]
      /\ served' \in Seq([req : Req, conn : 1..MaxConns, event : Nat])
  BY ServeQuiet
<1>2. Tail(batch.reqs) \in Seq(Req) BY HeadTailProperties DEF ServerServes, ServerTypes
<1>3. register' \in {0} \cup Req /\ value' \in [Req -> {0} \cup Req]
  BY DEF ServerServes, ServerTypes
<1> QED BY <1>1, <1>2, <1>3 DEF ServerTypes

\* The invariant of the conversation is inductive.
LEMMA ConversationPreserved ==
  ASSUME ConvInv, [ConversationNext]_conversation
  PROVE  ConvInv'
<1>1. ClientInv' /\ MovesOn BY StepOfClient, ClientPart DEF ConvInv
<1>2. PICK d \in {0, 1} : Traffic(d) /\ Ending(d) BY StepOfClient, ClientPart DEF ConvInv
<1>3. ASSUME WiresMove, UNCHANGED server,
             \/ ClientStep \/ Connect \/ UNCHANGED vars
             \/ \E k \in 0..MaxRequests : Close(k)
      PROVE  ConvInv'
  <2>1. OrderInv' BY <1>1, <1>3, MoveKeepsOrder DEF ConvInv
  <2>2. OvertakenInv' BY <1>1, <1>3, OvertakenStays DEF ConvInv, server
  <2>3. FlowInv' BY <1>1, <1>2, <1>3, NothingAnswered, FlowStays DEF ConvInv, server
  <2>4. RegisterInv' BY <1>1, <1>3, RegisterStays DEF ConvInv, server
  <2>5. ServerTypes' BY <1>3 DEF ConvInv, ServerTypes, WiresMove, server
  <2> QED BY <1>1, <2>1, <2>2, <2>3, <2>4, <2>5 DEF ConvInv
<1>4. CASE ClientStep
  BY <1>1, <1>3, <1>4, ClientStepMoves DEF ConvInv, OrderInv, ClientStep
<1>5. CASE Connect
  BY <1>3, <1>5, ConnectMoves DEF ConvInv, OrderInv, Connect
<1>6. ASSUME NEW k \in 0..MaxRequests, Close(k) PROVE ConvInv'
  BY <1>3, <1>6, CloseMoves DEF ConvInv, OrderInv, Close
<1>7. CASE UNCHANGED conversation
  BY <1>3, <1>7, WiresStay DEF ConvInv, OrderInv, conversation
<1>8. ASSUME NEW c \in DOMAIN wires, NEW k \in 1..Len(wires[c]), ServerData(c, k)
      PROVE  ConvInv'
  <2>1. OrderInv' BY <1>8, DataKeepsOrder DEF ConvInv
  <2>2. UNCHANGED <<vars, register, value, served>> BY <1>8 DEF ServerData
  <2>3. OvertakenInv' BY <1>1, <2>2, OvertakenStays DEF ConvInv
  <2>4. FlowInv' BY <1>1, <1>2, <2>2, NothingAnswered, FlowStays DEF ConvInv
  <2>5. RegisterInv' BY <1>1, <2>2, RegisterStays DEF ConvInv
  <2>6. ServerTypes' BY <1>8, ServerDataTypes DEF ConvInv
  <2> QED BY <1>1, <2>1, <2>3, <2>4, <2>5, <2>6 DEF ConvInv
<1>9. ASSUME NEW r \in Req, ServerServes(r) PROVE ConvInv'
  <2>1. OrderInv' BY <1>9, ServeKeepsOrder DEF ConvInv
  <2>2. OvertakenInv' BY <1>9, OvertakenOnServing DEF ConvInv
  <2>3. FlowInv' BY <1>2, <1>9, FlowOnServing DEF ConvInv
  <2>4. RegisterInv' BY <1>1, <1>9, RegisterOnServing DEF ConvInv
  <2>5. ServerTypes' BY <1>9, ServesTypes DEF ConvInv
  <2> QED BY <1>1, <2>1, <2>2, <2>3, <2>4, <2>5 DEF ConvInv
<1> QED BY <1>4, <1>5, <1>6, <1>7, <1>8, <1>9 DEF ConversationNext
\* Nothing is on its way in the beginning.
LEMMA ConversationStarts ==
  ASSUME ConversationInit
  PROVE  ConvInv
<1>1. TcpInit BY DEF ConversationInit
<1>2. ClientInv
  <2>1. IInv BY <1>1, InitIInv DEF TcpInit
  <2>2. OnTheWay = <<>> BY <1>1, EmptySeq, ConcatEmptySeq DEF TcpInit, Init, OnTheWay
  <2>3. AnswerInv BY <1>1, <2>2, EmptySeq DEF TcpInit, Init, AnswerInv
  <2>4. CauseInv BY <1>1, <2>3 DEF TcpInit, Init, CauseInv, LossHasCause, WrongAnswers
  <2>5. CrossTalkInv BY <1>1 DEF TcpInit, Init, CrossTalkInv
  <2> QED BY <1>1, <2>1, <2>4, <2>5, TcpInitTraffic DEF ClientInv
<1>3. served = <<>> /\ Len(served) = 0 /\ \A i \in 1..Len(served) : FALSE
  BY EmptySeq DEF ConversationInit
<1>4. /\ batch = [conn |-> 1, event |-> 1, reqs |-> <<>>]
      /\ register = 0 /\ value = [r \in Req |-> 0]
  BY DEF ConversationInit
<1>5. /\ wires \in Seq(Seq(Req)) /\ Len(wires) \in {0, 1}
      /\ \A c \in 1..Len(wires) : c = 1 /\ wires[c] = <<>>
  <2>1. <<>> \in Seq(Req) BY EmptySeq
  <2>2. CASE link = "up"
    <3>1. wires = << <<>> >> BY <2>2 DEF ConversationInit
    <3> QED BY <2>1, <3>1
  <2>3. CASE link # "up"
    <3>1. wires = <<>> BY <2>3 DEF ConversationInit
    <3>2. Len(wires) = 0 /\ wires \in Seq(Seq(Req)) BY <3>1, EmptySeq
    <3> QED BY <3>2
  <2> QED BY <2>2, <2>3
<1>6. /\ <<>> \in Seq(Req) /\ \A i \in 1..Len(<<>>) : FALSE
      /\ \A x \in Range(<<>>) : FALSE
  <2>1. <<>> \in Seq(Req) /\ Len(<<>>) = 0 BY EmptySeq
  <2>2. \A i \in 1..Len(<<>>) : FALSE BY <2>1
  <2>3. \A x \in Range(<<>>) : \E i \in 1..Len(<<>>) : <<>>[i] = x BY <2>1, RangeByIndex
  <2> QED BY <2>1, <2>2, <2>3
<1>7. ServerTypes
  <2>1. Len(wires) <= MaxConns /\ 1 \in 1..MaxConns BY <1>5, ConversationAssumption
  <2>2. served \in Seq([req : Req, conn : 1..MaxConns, event : Nat]) BY <1>3, EmptySeq
  <2> QED BY <1>4, <1>5, <1>6, <2>1, <2>2 DEF ServerTypes
<1>8. OrderInv
  <2>1. WireInv
    <3>1. \A c \in 1..Len(wires) : Increasing(wires[c]) /\ \A x \in Range(wires[c]) : FALSE
      BY <1>5, <1>6 DEF Increasing
    <3> QED BY <3>1 DEF WireInv
  <2>2. BatchInv BY <1>4, <1>6 DEF BatchInv, Decreasing
  <2>3. ServedInv BY <1>3 DEF ServedInv
  <2> QED BY <2>1, <2>2, <2>3 DEF OrderInv
<1>9. OvertakenInv BY <1>3 DEF OvertakenInv
<1>10. FlowInv
  <2>1. OnTheWay = <<>> BY <1>1, EmptySeq, ConcatEmptySeq DEF TcpInit, Init, OnTheWay
  <2>2. \A i \in 1..Len(OnTheWay) : FALSE BY <2>1, <1>6
  <2>3. \A r \in Req : outcome[r] # "resolved" BY <1>1 DEF TcpInit, Init
  <2> QED BY <2>2, <2>3 DEF FlowInv
<1>11. RegisterInv BY <1>3, <1>4 DEF RegisterInv, Holds, NoWrite
<1> QED BY <1>2, <1>7, <1>8, <1>9, <1>10, <1>11 DEF ConvInv

-----------------------------------------------------------------------------
(* The theorems.                                                             *)

\* ConvInv holds throughout the conversation.
THEOREM ConversationInvariant == ConversationSpec => []ConvInv
<1>1. ConversationInit => ConvInv BY ConversationStarts
<1>2. ConvInv /\ [ConversationNext]_conversation => ConvInv' BY ConversationPreserved
<1> QED BY <1>1, <1>2, PTL DEF ConversationSpec

\* Served requests have been registered.
LEMMA ServedRegistered ==
  ASSUME ConvInv, NEW i \in 1..Len(served)
  PROVE  served[i].req \in 1..Registered /\ served[i].req \in Req
<1>1. served[i].req \in Req /\ served[i].req <= Served
  BY ServedType DEF ConvInv, OrderInv, ServedInv
<1> QED BY <1>1, LineState, BoundsAssumption DEF ConvInv, ClientInv, Req

\* The variables of client and server always have their types, and requests
\* travel in the order of their registration.
THEOREM ConversationTypeCorrect == ConversationSpec => []ConversationTypeOK
<1>1. ConvInv => ConversationTypeOK
  <2> SUFFICES ASSUME ConvInv PROVE ConversationTypeOK OBVIOUS
  <2>1. TypeOK BY IInvImplies DEF ConvInv, ClientInv
  <2>2. DOMAIN served = 1..Len(served) BY LenProperties DEF ConvInv, ServerTypes
  <2>3. \A i \in DOMAIN served : served[i].req \in 1..Registered BY <2>2, ServedRegistered
  <2>4. DOMAIN wires = 1..Len(wires) BY LenProperties DEF ConvInv, ServerTypes
  <2>5. ASSUME NEW c \in DOMAIN wires PROVE DOMAIN wires[c] = 1..Len(wires[c])
    <3>1. wires[c] \in Seq(Req) BY <2>4, ElementOfSeq DEF ConvInv, ServerTypes
    <3> QED BY <3>1, LenProperties
  <2>6. InOrder BY <2>4, <2>5 DEF InOrder, ConvInv, OrderInv, WireInv, Increasing
  <2> QED BY <2>1, <2>3, <2>6 DEF ConversationTypeOK, ConvInv, ServerTypes
<1> QED BY <1>1, ConversationInvariant, PTL

\* No request is served twice, and success is reported only of a served one.
THEOREM RequestsServedOnce == ConversationSpec => []ServedOnce
<1>1. ConvInv => ServedOnce
  <2> SUFFICES ASSUME ConvInv PROVE ServedOnce OBVIOUS
  <2>1. DOMAIN served = 1..Len(served) /\ Len(served) \in Nat
    BY LenProperties DEF ConvInv, ServerTypes
  <2>2. ASSUME NEW i \in 1..Len(served), NEW j \in 1..Len(served), served[i].req = served[j].req
        PROVE  i = j
    <3>1. CASE i < j BY <3>1, <2>2 DEF ConvInv, OvertakenInv
    <3>2. CASE j < i BY <3>2, <2>2 DEF ConvInv, OvertakenInv
    <3> QED BY <3>1, <3>2, <2>1
  <2>3. \A r \in Req : outcome[r] = "resolved" => \E i \in 1..Len(served) : served[i].req = r
    BY DEF ConvInv, FlowInv, WasServed
  <2> QED BY <2>1, <2>2, <2>3 DEF ServedOnce
<1> QED BY <1>1, ConversationInvariant, PTL

\* What the first n requests left in the register is the last acknowledged
\* write among them or a later one, unless an older one came back.
LEMMA HeldValue ==
  ASSUME ConvInv, NEW v, NEW n \in 0..Len(served), Holds(v, n),
         NEW w, Acknowledged(w), NEW i \in 1..n, served[i].req = w, v < w
  PROVE  v # 0 /\ CameBack(v, w)
<1>1. Len(served) \in Nat /\ DOMAIN served = 1..Len(served)
  BY LenProperties DEF ConvInv, ServerTypes
<1>2. i \in Nat /\ 1 <= i /\ i <= n BY <1>1
<1>3. ~(v = 0 /\ NoWrite(1, n)) BY <1>2 DEF NoWrite, Acknowledged
<1>4. PICK k \in 1..n : served[k].req = v /\ issued[v] = write /\ NoWrite(k + 1, n)
  BY <1>3 DEF Holds
<1>5. i <= k BY <1>1, <1>2, <1>4 DEF NoWrite, Acknowledged
<1>6. i \in 1..Len(served) /\ k \in 1..Len(served) BY <1>1
<1>7. w \in Nat /\ v \in Nat \ {0} BY <1>4, <1>6, ServedRegistered, BoundsAssumption DEF Req
<1>8. i # k BY <1>4, <1>7
<1>9. i < k BY <1>1, <1>5, <1>8
<1>10. /\ outcome[v] \notin {"pending", "resolved"}
       /\ served[i].event = served[k].event \/ served[k].conn < served[i].conn
  BY <1>4, <1>6, <1>9 DEF ConvInv, OvertakenInv
<1> QED BY <1>1, <1>4, <1>6, <1>7, <1>9, <1>10 DEF CameBack

\* The register holds the last acknowledged write or a later one, unless an
\* older write, given up by the client, came back: in the data event of the
\* younger one, or by an older connection.
THEOREM LastWriteStays == ConversationSpec => []WritesLast
<1>1. ConvInv => WritesLast
  <2> SUFFICES ASSUME ConvInv, NEW w \in 1..Registered, Acknowledged(w), register < w
               PROVE  register # 0 /\ CameBack(register, w)
    BY DEF WritesLast
  <2>1. w \in Req BY LineState, BoundsAssumption DEF ConvInv, ClientInv, Req
  <2>2. PICK i \in 1..Len(served) : served[i].req = w
    BY <2>1 DEF ConvInv, FlowInv, WasServed, Acknowledged
  <2>3. Holds(register, Len(served)) /\ Len(served) \in 0..Len(served)
    BY LenProperties DEF ConvInv, RegisterInv, ServerTypes
  <2> QED BY <2>2, <2>3, HeldValue
<1> QED BY <1>1, ConversationInvariant, PTL

\* So does a read show it, and no read shows a write registered after it.
THEOREM ReadsShowLastWrite == ConversationSpec => []ReadsSeeWrites
<1>1. ConvInv => ReadsSeeWrites
  <2> SUFFICES ASSUME ConvInv, NEW r \in 1..Registered,
                      issued[r] = read, outcome[r] = "resolved",
                      NEW v, v = value[answeredBy[r]]
               PROVE  /\ v < r
                      /\ \A w \in 1..r : Acknowledged(w) /\ v < w => v # 0 /\ CameBack(v, w)
    BY DEF ReadsSeeWrites
  <2>1. r \in Req /\ r \in Nat \ {0} /\ Len(served) \in Nat
    BY LineState, LenProperties, BoundsAssumption DEF ConvInv, ClientInv, Req, ServerTypes
  <2>2. PICK j \in 1..Len(served) : served[j].req = r
    BY <2>1 DEF ConvInv, FlowInv, WasServed
  <2>3. answeredBy[r] = r BY <2>1 DEF ConvInv, FlowInv
  <2>4. Holds(v, j - 1) /\ j - 1 \in 0..Len(served)
    BY <2>1, <2>2, <2>3 DEF ConvInv, RegisterInv
  <2>5. v < r
    <3>1. CASE v = 0 BY <3>1, <2>1
    <3>2. ASSUME NEW k \in 1..(j - 1), served[k].req = v PROVE v < r
      <4>1. k \in 1..Len(served) /\ k < j BY <2>1
      <4>2. v \in Nat BY <3>2, <4>1, ServedRegistered, BoundsAssumption DEF Req
      <4>3. v # r /\ ~(r < v) BY <2>2, <3>2, <4>1 DEF ConvInv, OvertakenInv
      <4> QED BY <2>1, <4>2, <4>3
    <3> QED BY <2>4, <3>1, <3>2 DEF Holds
  <2>6. ASSUME NEW w \in 1..r, Acknowledged(w), v < w PROVE v # 0 /\ CameBack(v, w)
    <3>1. w \in Req BY <2>1, BoundsAssumption DEF Req
    <3>2. PICK i \in 1..Len(served) : served[i].req = w
      BY <3>1, <2>6 DEF ConvInv, FlowInv, WasServed, Acknowledged
    <3>3. w # r BY <2>6, ConversationAssumption DEF Acknowledged
    <3>4. i # j BY <2>2, <3>2, <3>3
    <3>5. ~(j < i)
      <4>1. w < r BY <3>3, <2>1
      <4> QED BY <4>1, <2>2, <2>6, <3>2 DEF ConvInv, OvertakenInv, Acknowledged
    <3>6. i \in 1..(j - 1) BY <3>4, <3>5, <2>1
    <3> QED BY <2>4, <2>6, <3>2, <3>6, HeldValue
  <2> QED BY <2>5, <2>6
<1> QED BY <1>1, ConversationInvariant, PTL
=============================================================================
