-------------------------- MODULE ByteStreamProofs --------------------------
(* The byte streams of the TCP server and of both clients.                   *)
EXTENDS EncodingProofs

-----------------------------------------------------------------------------
(* The bytes in the stream and whose they are.                               *)

\* The values of bytes are octets.
LEMMA ValuesType ==
  ASSUME NEW s \in Seq(Byte)
  PROVE  /\ Values(s) \in Seq(Octet) /\ Len(Values(s)) = Len(s) /\ Len(s) \in Nat
         /\ \A i \in 1..Len(s) : Values(s)[i] = s[i].value
<1>1. Len(s) \in Nat /\ DOMAIN s = 1..Len(s) BY LenProperties
<1>2. \A i \in 1..Len(s) : s[i].value \in Octet
  <2>1. \A i \in 1..Len(s) : s[i] \in Byte BY ElementOfSeq
  <2> QED BY <2>1 DEF Byte, Octet
<1>3. Values(s) \in [1..Len(s) -> Octet] BY <1>1, <1>2 DEF Values
<1>4. \A i \in 1..Len(s) : Values(s)[i] = s[i].value BY <1>1 DEF Values
<1> QED BY <1>1, <1>3, <1>4, FunctionIsSeq

\* A message on the wire.
LEMMA TaggedType ==
  ASSUME NEW m \in 1..MaxMessages, NEW bytes \in Seq(Octet)
  PROVE  /\ Tagged(m, bytes) \in Seq(Byte) /\ Len(Tagged(m, bytes)) = Len(bytes)
         /\ \A i \in 1..Len(bytes) : Tagged(m, bytes)[i] = [msg |-> m, at |-> i, value |-> bytes[i]]
<1>1. Len(bytes) \in Nat /\ DOMAIN bytes = 1..Len(bytes) /\ \A i \in 1..Len(bytes) : bytes[i] \in Octet
  BY LenProperties, ElementOfSeq
<1>2. \A i \in 1..Len(bytes) : [msg |-> m, at |-> i, value |-> bytes[i]] \in Byte
  BY <1>1 DEF Byte, Octet
<1>3. Tagged(m, bytes) \in [1..Len(bytes) -> Byte] BY <1>1, <1>2 DEF Tagged
<1>4. \A i \in 1..Len(bytes) : Tagged(m, bytes)[i] = [msg |-> m, at |-> i, value |-> bytes[i]]
  BY <1>1 DEF Tagged
<1> QED BY <1>1, <1>3, <1>4, FunctionIsSeq

\* The owners of the bytes of a sequence, by index.
LEMMA OwnersByIndex ==
  ASSUME NEW s \in Seq(Byte)
  PROVE  /\ \A i \in 1..Len(s) : s[i].msg \in Owners(s)
         /\ \A m \in Owners(s) : \E i \in 1..Len(s) : s[i].msg = m
<1>1. DOMAIN s = 1..Len(s) BY LenProperties
<1> QED BY <1>1 DEF Owners

\* Putting streams together adds no owner.
LEMMA OwnersOfConcat ==
  ASSUME NEW s \in Seq(Byte), NEW t \in Seq(Byte)
  PROVE  s \o t \in Seq(Byte) /\ Owners(s \o t) \subseteq Owners(s) \cup Owners(t)
<1> DEFINE st == s \o t
<1>1. /\ st \in Seq(Byte)
      /\ \A i \in 1..Len(s) : st[i] = s[i]
      /\ \A j \in 1..Len(t) : st[Len(s) + j] = t[j]
      /\ \A i \in 1..Len(st) : i \in 1..Len(s) \/ \E j \in 1..Len(t) : i = Len(s) + j
  BY ConcatType
<1> HIDE DEF st
<1>2. ASSUME NEW i \in 1..Len(st) PROVE st[i].msg \in Owners(s) \cup Owners(t)
  <2>1. CASE i \in 1..Len(s) BY <2>1, <1>1, OwnersByIndex
  <2>2. CASE i \notin 1..Len(s)
    <3>1. PICK j \in 1..Len(t) : i = Len(s) + j BY <1>1, <2>2
    <3> QED BY <3>1, <1>1, OwnersByIndex
  <2> QED BY <2>1, <2>2
<1>3. Owners(st) \subseteq Owners(s) \cup Owners(t) BY <1>1, <1>2, OwnersByIndex
<1> QED BY <1>1, <1>3 DEF st

\* Taking a stream apart adds none either.
LEMMA OwnersOfPart ==
  ASSUME NEW s \in Seq(Byte), NEW n \in Nat
  PROVE  /\ Part(s, 1, n) \in Seq(Byte) /\ Owners(Part(s, 1, n)) \subseteq Owners(s)
         /\ SubSeq(s, n + 1, Len(s)) \in Seq(Byte)
         /\ Owners(SubSeq(s, n + 1, Len(s))) \subseteq Owners(s)
<1> DEFINE front == Part(s, 1, n)
           rest == SubSeq(s, n + 1, Len(s))
<1>1. /\ front \in Seq(Byte)
      /\ \A i \in 1..Len(front) : 1 + i - 1 \in 1..Len(s) /\ front[i] = s[1 + i - 1]
  <2>1. 1 \in Nat \ {0} /\ n \in Int OBVIOUS
  <2> QED BY <2>1, PartType
<1>2. rest \in Seq(Byte) /\ \A i \in 1..Len(rest) : n + i \in 1..Len(s) /\ rest[i] = s[n + i]
  BY RestType
<1> HIDE DEF front, rest
<1>3. Owners(front) \subseteq Owners(s) BY <1>1, OwnersByIndex
<1>4. Owners(rest) \subseteq Owners(s) BY <1>2, OwnersByIndex
<1> QED BY <1>1, <1>2, <1>3, <1>4 DEF front, rest

\* A data event's chunk is a part of the wire.
LEMMA ChunkIsPart ==
  ASSUME NEW s \in Seq(Byte), NEW k \in 1..Len(s)
  PROVE  SubSeq(s, 1, k) = Part(s, 1, k)
<1>1. Len(s) \in Nat BY LenProperties
<1>2. PICK n \in Nat : n = Len(s) BY <1>1
<1>3. 1 + k - 1 = k /\ k <= n /\ k \in Int BY <1>2
<1>4. Min({k, n}) = k BY <1>3, MinOfTwo
<1> QED BY <1>2, <1>3, <1>4 DEF Part

\* What a frame takes off the buffer.
LEMMA FrameType ==
  ASSUME NEW b \in Seq(Octet), reader \in Readers, Parse(b) # Null
  PROVE  /\ Parse(b).consumed \in Nat /\ Parse(b).consumed >= 5
         /\ reader # "rtuClient" =>
              Len(b) >= 7 /\ Uint16(b, 5) \in Nat /\ Parse(b).consumed = Uint16(b, 5) + 6
<1>1. Len(b) \in Nat BY LenProperties
<1>2. CASE reader \in {"tcpServer", "tcpClient"}
  <2>1. Len(b) >= 7 /\ Parse(b).consumed = Uint16(b, 5) + 6
    <3>1. CASE reader = "tcpServer" BY <3>1 DEF Parse, TcpRequest, TcpFrame
    <3>2. CASE reader = "tcpClient" BY <3>2 DEF Parse, TcpResponse, TcpFrame
    <3> QED BY <1>2, <3>1, <3>2
  <2>2. 5 \in 1..(Len(b) - 1) BY <1>1, <2>1
  <2>3. Uint16(b, 5) \in Nat BY <2>2, WordType
  <2> QED BY <1>2, <2>1, <2>3
<1>3. CASE reader = "rtuClient"
  <2> DEFINE body == ResponseBody(Tail(b))
             size == IF body = Null THEN 0 ELSE 1 + Len(ResponsePayload(body))
  <2>1. b # <<>> /\ Parse(b).consumed = size + 2 BY <1>3 DEF Parse, RtuResponse
  <2>2. Tail(b) \in Seq(Octet) BY <2>1
  <2>3. body # Null => Len(ResponsePayload(body)) \in Nat /\ Len(ResponsePayload(body)) >= 2
    BY <2>2, ResponseEncodes, LenProperties
  <2> HIDE DEF body
  <2>4. body # Null BY <1>3 DEF Parse, RtuResponse, body
  <2>5. size \in Nat /\ size >= 3 BY <2>3, <2>4
  <2> QED BY <1>3, <2>1, <2>5
<1> QED BY <1>2, <1>3, StreamAssumption
-----------------------------------------------------------------------------
(* The inductive invariant of every reader.                                  *)

\* The types.  A frame is whatever a buffer has parsed to.
Message == [conn : 1..MaxConns, body : Messages[reader], bytes : Seq(Octet)]
Frames == {Parse(b) : b \in {s \in Seq(Octet) : Parse(s) # Null}}
StreamTypes ==
  /\ reader \in Readers /\ conn \in 1..MaxConns
  /\ wire \in Seq(Byte) /\ buffer \in Seq(Byte)
  /\ sent \in Seq(Message) /\ Len(sent) <= MaxMessages
  /\ \A m \in 1..Len(sent) : sent[m].conn <= conn
  /\ parsing \in BOOLEAN /\ chopped \in BOOLEAN /\ stale \in BOOLEAN
  /\ parsed \in Seq([taken : Seq(Byte), frame : Frames])
  /\ lost \subseteq 1..Len(sent)

\* Bytes belong to messages of the connection that stands, except those a
\* client has kept.
Current == {m \in 1..Len(sent) : sent[m].conn = conn}
OwnerInv ==
  /\ Owners(wire) \subseteq Current
  /\ Owners(buffer) \subseteq 1..Len(sent) /\ (~stale => Owners(buffer) \subseteq Current)
  /\ \A i \in 1..Len(parsed) :
       LET taken == parsed[i].taken
       IN /\ Owners(taken) \subseteq 1..Len(sent)
          /\ stale \/ \A m, n \in Owners(taken) : sent[m].conn = sent[n].conn

StreamInv == StreamTypes /\ OwnerInv

\* What a step must show of the history when it neither sends nor parses.
LEMMA KeepsParsed ==
  ASSUME StreamInv, UNCHANGED <<reader, sent, parsed>>, stale' \in BOOLEAN, stale => stale'
  PROVE  /\ sent' \in Seq(Message') /\ Len(sent') <= MaxMessages
         /\ parsed' \in Seq([taken : Seq(Byte), frame : Frames'])
         /\ \A i \in 1..Len(parsed') :
              LET taken == parsed'[i].taken
              IN /\ Owners(taken) \subseteq 1..Len(sent')
                 /\ stale' \/ \A m, n \in Owners(taken) : sent'[m].conn = sent'[n].conn
<1>1. Message' = Message BY DEF Message
<1>2. Frames' = Frames BY DEF Frames, Parse
<1> QED BY <1>1, <1>2 DEF StreamInv, StreamTypes, OwnerInv

\* A message is sent.
LEMMA SendPreserves ==
  ASSUME StreamInv, NEW body \in Messages[reader], NEW memory \in Memory, Send(body, memory)
  PROVE  StreamInv'
<1> DEFINE m == Len(sent) + 1
           bytes == Encoded(reader, m, body, memory)
           entry == [conn |-> conn, body |-> body, bytes |-> bytes]
<1>1. /\ reader \in Readers /\ conn \in 1..MaxConns /\ Len(sent) \in Nat
      /\ sent \in Seq(Message) /\ wire \in Seq(Byte) /\ buffer \in Seq(Byte)
  BY LenProperties DEF StreamInv, StreamTypes
<1>2. /\ sent' = Append(sent, entry) /\ wire' = wire \o Tagged(m, bytes)
      /\ UNCHANGED <<reader, conn, buffer, parsing, parsed, chopped, stale, lost>>
      /\ Len(sent) < MaxMessages
  BY DEF Send
<1>3. m \in 1..MaxMessages BY <1>1, <1>2, StreamAssumption
<1>4. bytes \in Seq(Octet) BY <1>1, <1>3, MessageAssumption DEF Octet
<1>5. entry \in Message BY <1>1, <1>4 DEF Message
<1> HIDE DEF bytes
<1>6. Message' = Message /\ Frames' = Frames BY <1>2 DEF Message, Frames, Parse
<1> HIDE DEF entry
<1>7. /\ sent' \in Seq(Message) /\ Len(sent') = m /\ sent'[m] = entry
      /\ \A i \in 1..Len(sent) : sent'[i] = sent[i]
  BY <1>1, <1>2, <1>5, AppendProperties
<1>8. \A i \in 1..Len(sent') : i \in 1..Len(sent) \/ i = m BY <1>1, <1>7
<1>9. 1..Len(sent) \subseteq 1..Len(sent') /\ m \in 1..Len(sent') BY <1>1, <1>7
<1>10. entry.conn = conn BY DEF entry
<1>11. Tagged(m, bytes) \in Seq(Byte) /\ Owners(Tagged(m, bytes)) \subseteq {m}
  <2>1. /\ Tagged(m, bytes) \in Seq(Byte) /\ Len(Tagged(m, bytes)) = Len(bytes)
        /\ \A i \in 1..Len(bytes) : Tagged(m, bytes)[i] = [msg |-> m, at |-> i, value |-> bytes[i]]
    BY <1>3, <1>4, TaggedType
  <2> DEFINE tagged == Tagged(m, bytes)
             byte(i) == [msg |-> m, at |-> i, value |-> bytes[i]]
  <2>2. ASSUME NEW i \in 1..Len(bytes) PROVE tagged[i].msg = m
    <3>1. tagged[i] = byte(i) BY <2>1
    <3>2. byte(i).msg = m OBVIOUS
    <3> HIDE DEF tagged, byte
    <3> QED BY <3>1, <3>2
  <2> HIDE DEF tagged
  <2>3. Owners(tagged) \subseteq {m}
    <3>1. tagged \in Seq(Byte) /\ Len(tagged) = Len(bytes) BY <2>1 DEF tagged
    <3> QED BY <2>2, <3>1, OwnersByIndex
  <2> QED BY <2>1, <2>3 DEF tagged
<1>12. wire' \in Seq(Byte) /\ Owners(wire') \subseteq Owners(wire) \cup {m}
  BY <1>1, <1>2, <1>11, OwnersOfConcat
<1>13. Current \subseteq Current' /\ m \in Current' BY <1>2, <1>7, <1>9, <1>10 DEF Current
<1>14. StreamTypes'
  <2>1. ASSUME NEW i \in 1..Len(sent') PROVE sent'[i].conn <= conn
    <3>1. CASE i \in 1..Len(sent) BY <1>7, <3>1 DEF StreamInv, StreamTypes
    <3>2. CASE i = m
      <4>1. sent'[i].conn = conn BY <1>7, <1>10, <3>2
      <4> QED BY <4>1, <1>1, StreamAssumption
    <3> QED BY <1>8, <3>1, <3>2
  <2>2. Len(sent') <= MaxMessages BY <1>3, <1>7
  <2>3. lost' \subseteq 1..Len(sent') BY <1>2, <1>9 DEF StreamInv, StreamTypes
  <2> QED BY <1>2, <1>6, <1>7, <1>12, <2>1, <2>2, <2>3 DEF StreamInv, StreamTypes
<1>15. OwnerInv'
  <2>1. Owners(wire') \subseteq Current' BY <1>12, <1>13 DEF StreamInv, OwnerInv
  <2>2. Owners(buffer') \subseteq 1..Len(sent') /\ (~stale' => Owners(buffer') \subseteq Current')
    BY <1>2, <1>9, <1>13 DEF StreamInv, OwnerInv
  <2>3. ASSUME NEW i \in 1..Len(parsed')
        PROVE  /\ Owners(parsed'[i].taken) \subseteq 1..Len(sent')
               /\ stale' \/ \A p, q \in Owners(parsed'[i].taken) : sent'[p].conn = sent'[q].conn
    <3>1. i \in 1..Len(parsed) /\ parsed'[i] = parsed[i] BY <1>2
    <3>2. /\ Owners(parsed[i].taken) \subseteq 1..Len(sent)
          /\ stale \/ \A p, q \in Owners(parsed[i].taken) : sent[p].conn = sent[q].conn
      BY <3>1 DEF StreamInv, OwnerInv
    <3> QED BY <1>2, <1>7, <1>9, <3>1, <3>2
  <2> QED BY <2>1, <2>2, <2>3 DEF OwnerInv
<1> QED BY <1>14, <1>15 DEF StreamInv

\* A chunk arrives.
LEMMA DataEventPreserves ==
  ASSUME StreamInv, NEW k \in 1..Len(wire), DataEvent(k)
  PROVE  StreamInv'
<1> DEFINE chunk == Part(wire, 1, k)
           rest == SubSeq(wire, k + 1, Len(wire))
<1>1. /\ wire \in Seq(Byte) /\ buffer \in Seq(Byte) /\ Len(wire) \in Nat
      /\ k \in Nat
  BY LenProperties DEF StreamInv, StreamTypes
<1>2. /\ buffer' = buffer \o chunk /\ wire' = rest /\ parsing' = TRUE
      /\ UNCHANGED <<reader, conn, sent, parsed, stale, lost>>
      /\ chopped' \in BOOLEAN
  <2>1. SubSeq(wire, 1, k) = chunk BY <1>1, ChunkIsPart
  <2>2. chopped' \in BOOLEAN
    <3>1. chopped \in BOOLEAN BY DEF StreamInv, StreamTypes
    <3> QED BY <3>1 DEF DataEvent
  <2> QED BY <2>1, <2>2 DEF DataEvent
<1>3. /\ chunk \in Seq(Byte) /\ Owners(chunk) \subseteq Owners(wire)
      /\ rest \in Seq(Byte) /\ Owners(rest) \subseteq Owners(wire)
  BY <1>1, OwnersOfPart
<1> HIDE DEF chunk, rest
<1>4. buffer' \in Seq(Byte) /\ Owners(buffer') \subseteq Owners(buffer) \cup Owners(wire)
  BY <1>1, <1>2, <1>3, OwnersOfConcat
<1>5. /\ sent' \in Seq(Message') /\ Len(sent') <= MaxMessages
      /\ parsed' \in Seq([taken : Seq(Byte), frame : Frames'])
      /\ \A i \in 1..Len(parsed') :
           LET taken == parsed'[i].taken
           IN /\ Owners(taken) \subseteq 1..Len(sent')
              /\ stale' \/ \A m, n \in Owners(taken) : sent'[m].conn = sent'[n].conn
  BY <1>2, KeepsParsed DEF StreamInv, StreamTypes
<1>6. StreamTypes' BY <1>2, <1>3, <1>4, <1>5 DEF StreamInv, StreamTypes
<1>7. Current' = Current /\ Current \subseteq 1..Len(sent) BY <1>2 DEF Current
<1>8. OwnerInv' BY <1>2, <1>3, <1>4, <1>5, <1>7 DEF StreamInv, OwnerInv
<1> QED BY <1>6, <1>8 DEF StreamInv

\* A frame is taken off the buffer.
LEMMA ParseOnePreserves ==
  ASSUME StreamInv, ParseOne
  PROVE  StreamInv'
<1> DEFINE n == InFront.consumed
           taken == Part(buffer, 1, n)
           rest == SubSeq(buffer, n + 1, Len(buffer))
           entry == [taken |-> taken, frame |-> InFront]
<1>1. /\ buffer \in Seq(Byte) /\ reader \in Readers
      /\ parsed \in Seq([taken : Seq(Byte), frame : Frames]) /\ Len(parsed) \in Nat
  BY LenProperties DEF StreamInv, StreamTypes
<1>2. Values(buffer) \in Seq(Octet) /\ InFront # Null BY <1>1, ValuesType DEF ParseOne
<1>3. n \in Nat BY <1>1, <1>2, FrameType DEF InFront
<1>4. InFront \in Frames BY <1>2 DEF InFront, Frames
<1>5. /\ parsed' = Append(parsed, entry) /\ buffer' = rest
      /\ UNCHANGED <<reader, conn, wire, sent, parsing, chopped, stale, lost>>
  BY DEF ParseOne
<1> HIDE DEF n
<1>6. /\ taken \in Seq(Byte) /\ Owners(taken) \subseteq Owners(buffer)
      /\ rest \in Seq(Byte) /\ Owners(rest) \subseteq Owners(buffer)
  BY <1>1, <1>3, OwnersOfPart
<1> HIDE DEF taken, rest
<1>7. entry \in [taken : Seq(Byte), frame : Frames] /\ entry.taken = taken BY <1>4, <1>6
<1> HIDE DEF entry
<1>8. /\ parsed' \in Seq([taken : Seq(Byte), frame : Frames]) /\ Len(parsed') = Len(parsed) + 1
      /\ \A i \in 1..Len(parsed) : parsed'[i] = parsed[i]
      /\ parsed'[Len(parsed) + 1] = entry
  BY <1>1, <1>5, <1>7, AppendProperties
<1>9. Message' = Message /\ Frames' = Frames /\ Current' = Current /\ Current \subseteq 1..Len(sent)
  BY <1>5 DEF Message, Frames, Parse, Current
<1>10. StreamTypes' BY <1>5, <1>6, <1>8, <1>9 DEF StreamInv, StreamTypes
<1>11. ASSUME NEW i \in 1..Len(parsed')
       PROVE  /\ Owners(parsed'[i].taken) \subseteq 1..Len(sent)
              /\ stale \/ \A p, q \in Owners(parsed'[i].taken) : sent[p].conn = sent[q].conn
  <2>1. i \in 1..Len(parsed) \/ i = Len(parsed) + 1 BY <1>1, <1>8
  <2>2. CASE i \in 1..Len(parsed) BY <1>8, <2>2 DEF StreamInv, OwnerInv
  <2>3. CASE i = Len(parsed) + 1
    <3>1. parsed'[i].taken = taken BY <1>7, <1>8, <2>3
    <3>2. Owners(buffer) \subseteq 1..Len(sent) /\ (~stale => Owners(buffer) \subseteq Current)
      BY DEF StreamInv, OwnerInv
    <3> QED BY <1>6, <3>1, <3>2 DEF Current
  <2> QED BY <2>1, <2>2, <2>3
<1>12. OwnerInv' BY <1>5, <1>6, <1>9, <1>11 DEF StreamInv, OwnerInv
<1> QED BY <1>10, <1>12 DEF StreamInv

\* The connection is replaced.
LEMMA ReconnectPreserves ==
  ASSUME StreamInv, Reconnect
  PROVE  StreamInv'
<1>1. /\ conn' = conn + 1 /\ conn < MaxConns /\ wire' = <<>>
      /\ buffer' = IF reader = "tcpServer" THEN <<>> ELSE buffer
      /\ lost' = lost \cup Owners(wire) \cup Owners(buffer)
      /\ stale' = (stale \/ (reader # "tcpServer" /\ buffer # <<>>))
      /\ UNCHANGED <<reader, sent, parsing, parsed, chopped>>
  BY DEF Reconnect
<1>2. /\ buffer \in Seq(Byte) /\ conn \in 1..MaxConns /\ stale \in BOOLEAN
      /\ Len(sent) \in Nat /\ sent \in Seq(Message)
  BY LenProperties DEF StreamInv, StreamTypes
<1>3. /\ sent' \in Seq(Message') /\ Len(sent') <= MaxMessages
      /\ parsed' \in Seq([taken : Seq(Byte), frame : Frames'])
      /\ \A i \in 1..Len(parsed') :
           LET taken == parsed'[i].taken
           IN /\ Owners(taken) \subseteq 1..Len(sent')
              /\ stale' \/ \A m, n \in Owners(taken) : sent'[m].conn = sent'[n].conn
  BY <1>1, <1>2, KeepsParsed DEF StreamInv, StreamTypes
<1>4. <<>> \in Seq(Byte) /\ Owners(<<>>) = {} BY EmptySeq DEF Owners
<1>5. StreamTypes'
  <2>1. \A m \in 1..Len(sent) : sent[m].conn \in 1..MaxConns
    <3>1. \A m \in 1..Len(sent) : sent[m] \in Message BY <1>2, ElementOfSeq
    <3> QED BY <3>1 DEF Message
  <2>2. \A m \in 1..Len(sent') : sent'[m].conn <= conn'
    BY <1>1, <1>2, <2>1, StreamAssumption DEF StreamInv, StreamTypes
  <2>3. conn' \in 1..MaxConns BY <1>1, <1>2, StreamAssumption
  <2>4. Owners(wire) \cup Owners(buffer) \subseteq 1..Len(sent) BY DEF StreamInv, OwnerInv, Current
  <2>5. lost' \subseteq 1..Len(sent') BY <1>1, <2>4 DEF StreamInv, StreamTypes
  <2>6. stale' \in BOOLEAN BY <1>1, <1>2
  <2>7. wire' \in Seq(Byte) /\ buffer' \in Seq(Byte) BY <1>1, <1>2, <1>4
  <2> QED BY <1>1, <1>3, <2>2, <2>3, <2>5, <2>6, <2>7 DEF StreamInv, StreamTypes
<1>6. OwnerInv'
  <2>1. Owners(wire') \subseteq Current' BY <1>1, <1>4
  <2>2. buffer' = <<>> \/ (buffer' = buffer /\ stale') BY <1>1
  <2>3. Owners(buffer') \subseteq 1..Len(sent') /\ (~stale' => Owners(buffer') \subseteq Current')
    BY <1>1, <1>4, <2>2 DEF StreamInv, OwnerInv
  <2> QED BY <1>3, <2>1, <2>3 DEF OwnerInv
<1> QED BY <1>5, <1>6 DEF StreamInv

\* StreamInv is inductive.
LEMMA StreamPreserved ==
  ASSUME StreamInv, [Next]_vars
  PROVE  StreamInv'
<1>1. ASSUME NEW body \in Messages[reader], NEW memory \in Memory, Send(body, memory)
      PROVE  StreamInv'
  BY <1>1, SendPreserves
<1>2. ASSUME NEW k \in 1..Len(wire), DataEvent(k) PROVE StreamInv'
  BY <1>2, DataEventPreserves
<1>3. CASE ParseOne BY <1>3, ParseOnePreserves
<1>4. CASE WaitForMore \/ UNCHANGED vars
  <2>1. UNCHANGED <<reader, conn, wire, sent, buffer, parsed, chopped, stale, lost>> /\ parsing' \in BOOLEAN
    BY <1>4 DEF WaitForMore, vars, StreamInv, StreamTypes
  <2>2. Message' = Message /\ Frames' = Frames /\ Current' = Current
    BY <2>1 DEF Message, Frames, Parse, Current
  <2>3. StreamTypes' BY <2>1, <2>2 DEF StreamInv, StreamTypes
  <2>4. OwnerInv' BY <2>1, <2>2 DEF StreamInv, OwnerInv
  <2> QED BY <2>3, <2>4 DEF StreamInv
<1>5. CASE Reconnect BY <1>5, ReconnectPreserves
<1> QED BY <1>1, <1>2, <1>3, <1>4, <1>5 DEF Next

\* It holds of an empty stream.
LEMMA StreamStarts == Init => StreamInv
<1> SUFFICES ASSUME Init PROVE StreamInv OBVIOUS
<1>1. /\ wire = <<>> /\ sent = <<>> /\ buffer = <<>> /\ parsed = <<>> /\ lost = {} /\ conn = 1
      /\ Len(sent) = 0 /\ Len(parsed) = 0
      /\ wire \in Seq(Byte) /\ sent \in Seq(Message)
      /\ parsed \in Seq([taken : Seq(Byte), frame : Frames])
  BY EmptySeq DEF Init
<1>2. Owners(<<>>) = {} BY DEF Owners
<1>3. StreamTypes
  <2>1. 1 \in 1..MaxConns /\ 0 <= MaxMessages BY StreamAssumption
  <2>2. \A m \in 1..Len(sent) : sent[m].conn <= conn BY <1>1
  <2>3. lost \subseteq 1..Len(sent) BY <1>1
  <2> QED BY <1>1, <2>1, <2>2, <2>3 DEF Init, StreamTypes
<1>4. OwnerInv BY <1>1, <1>2 DEF Init, OwnerInv
<1> QED BY <1>3, <1>4 DEF StreamInv

\* The invariant of all readers.
THEOREM StreamInvariant == Spec => []StreamInv
<1>1. Init => StreamInv BY StreamStarts
<1>2. StreamInv /\ [Next]_vars => StreamInv' BY StreamPreserved
<1> QED BY <1>1, <1>2, PTL DEF Spec

\* The variables of a reader always have their types; a frame takes at least
\* five bytes off the buffer, so the loop over the buffer ends.
THEOREM StreamTypeCorrect == Spec => []TypeOK
<1>1. StreamInv => TypeOK
  <2> SUFFICES ASSUME StreamInv PROVE TypeOK OBVIOUS
  <2>1. DOMAIN sent = 1..Len(sent) /\ \A m \in 1..Len(sent) : sent[m] \in Message
    BY LenProperties, ElementOfSeq DEF StreamInv, StreamTypes
  <2>2. \A m \in DOMAIN sent : sent[m].bytes \in Seq(0..255) /\ sent[m].conn \in 1..conn
    BY <2>1 DEF StreamInv, StreamTypes, Message, Octet
  <2>3. ASSUME NEW i \in DOMAIN parsed
        PROVE  parsed[i].taken \in Seq(Byte) /\ parsed[i].frame.consumed >= 5
    <3>1. parsed[i] \in [taken : Seq(Byte), frame : Frames]
      <4>1. i \in 1..Len(parsed) BY <2>3, LenProperties DEF StreamInv, StreamTypes
      <4> QED BY <4>1, ElementOfSeq DEF StreamInv, StreamTypes
    <3>2. PICK b \in Seq(Octet) : Parse(b) # Null /\ parsed[i].frame = Parse(b)
      BY <3>1 DEF Frames
    <3> QED BY <3>1, <3>2, FrameType DEF StreamInv, StreamTypes
  <2> QED BY <2>1, <2>2, <2>3 DEF StreamInv, StreamTypes, TypeOK
<1> QED BY <1>1, StreamInvariant, PTL

\* No message is put together from the bytes of two connections, except by a
\* client whose connection was lost in the middle of a response.
THEOREM StreamConnectionsSeparate == Spec => []ConnectionsSeparate
<1>1. StreamInv => ConnectionsSeparate
  <2> SUFFICES ASSUME StreamInv PROVE ConnectionsSeparate OBVIOUS
  <2>1. DOMAIN parsed = 1..Len(parsed) BY LenProperties DEF StreamInv, StreamTypes
  <2> QED BY <2>1 DEF StreamInv, OwnerInv, ConnectionsSeparate
<1> QED BY <1>1, StreamInvariant, PTL
-----------------------------------------------------------------------------
(* A reader that is stuck.                                                   *)

\* The payload behind the header of a TCP frame.
LEMMA PayloadPart ==
  ASSUME NEW b \in Seq(Octet), NEW n \in Int, n + 7 <= Len(b)
  PROVE  LET p == Part(b, 8, n)
         IN /\ p \in Seq(Octet) /\ Len(p) = (IF n <= 0 THEN 0 ELSE n)
            /\ \A i \in 1..Len(p) : 7 + i \in 1..Len(b) /\ p[i] = b[7 + i]
<1> DEFINE p == Part(b, 8, n)
<1>1. Len(b) \in Nat /\ 8 \in Nat \ {0} BY LenProperties
<1>2. /\ p \in Seq(Octet) /\ Len(p) \in Nat
      /\ Len(p) = IF n <= 0 \/ 8 > Len(b) THEN 0
                  ELSE IF 8 + n - 1 <= Len(b) THEN n ELSE Len(b) - 8 + 1
      /\ \A i \in 1..Len(p) : 8 + i - 1 \in 1..Len(b) /\ p[i] = b[8 + i - 1]
  BY <1>1, PartType
<1> HIDE DEF p
<1>3. \A i \in 1..Len(p) : 8 + i - 1 = 7 + i BY <1>2
<1>4. Len(p) = (IF n <= 0 THEN 0 ELSE n) BY <1>1, <1>2
<1> QED BY <1>2, <1>3, <1>4 DEF p

\* A TCP frame depends on the bytes it claims to be long, and on no other.
LEMMA TcpBodyLocal ==
  ASSUME NEW b \in Seq(Octet), NEW c \in Seq(Octet), Len(b) >= 7, Len(b) <= Len(c),
         \A i \in 1..Len(b) : c[i] = b[i], Len(b) >= Uint16(b, 5) + 6
  PROVE  Uint16(c, 5) = Uint16(b, 5) /\ TcpBody(c) = TcpBody(b)
<1>1. Len(b) \in Nat /\ Len(c) \in Nat BY LenProperties
<1>2. Uint16(c, 5) = Uint16(b, 5)
  <2>1. 5 \in 1..Len(b) /\ 5 + 1 \in 1..Len(b) BY <1>1
  <2>2. c[5] = b[5] /\ c[5 + 1] = b[5 + 1] BY <2>1
  <2> QED BY <2>2 DEF Uint16
<1>3. Uint16(b, 5) \in Nat
  <2>1. 5 \in 1..(Len(b) - 1) BY <1>1
  <2> QED BY <2>1, WordType
<1>4. PICK n \in Int : n = Uint16(b, 5) - 1 BY <1>3
<1>5. n + 7 <= Len(b) BY <1>3, <1>4, <1>1
<1> DEFINE p == Part(b, 8, n)
           q == Part(c, 8, n)
<1>6. /\ p \in Seq(Octet) /\ Len(p) = (IF n <= 0 THEN 0 ELSE n)
      /\ \A i \in 1..Len(p) : 7 + i \in 1..Len(b) /\ p[i] = b[7 + i]
  BY <1>4, <1>5, PayloadPart
<1>7. n + 7 <= Len(c) BY <1>1, <1>4, <1>5
<1>8. /\ q \in Seq(Octet) /\ Len(q) = (IF n <= 0 THEN 0 ELSE n)
       /\ \A i \in 1..Len(q) : 7 + i \in 1..Len(c) /\ q[i] = c[7 + i]
  BY <1>4, <1>7, PayloadPart
<1> HIDE DEF p, q
<1>9. Len(p) = Len(q) BY <1>6, <1>8
<1>10. \A i \in 1..Len(p) : p[i] = q[i] BY <1>6, <1>8, <1>9
<1>11. p = q BY <1>6, <1>8, <1>9, <1>10, SeqEqual
<1>12. TcpBody(b) = p /\ TcpBody(c) = q BY <1>2, <1>4 DEF TcpBody, p, q
<1> QED BY <1>2, <1>11, <1>12

\* Bytes that come behind a frame do not change whether it parses.
LEMMA TcpParseLocal ==
  ASSUME NEW b \in Seq(Octet), NEW c \in Seq(Octet), Len(b) >= 7, Len(b) <= Len(c),
         \A i \in 1..Len(b) : c[i] = b[i], Len(b) >= Uint16(b, 5) + 6,
         reader \in {"tcpServer", "tcpClient"}, Parse(b) = Null
  PROVE  Parse(c) = Null
<1>1. TcpBody(c) = TcpBody(b) BY TcpBodyLocal
<1>2. Len(b) \in Nat /\ Len(c) \in Nat BY LenProperties
<1>3. ~(Len(b) < 7) BY <1>2
<1>4. \A body : TcpFrame(b, body) # Null
  <2> SUFFICES ASSUME NEW body PROVE TcpFrame(b, body) # Null OBVIOUS
  <2>1. "consumed" \in DOMAIN TcpFrame(b, body) BY DEF TcpFrame
  <2>2. "consumed" \notin DOMAIN Null BY DEF Null
  <2> QED BY <2>1, <2>2
<1>5. CASE reader = "tcpServer"
  <2>1. RequestBody(TcpBody(b)) = Null BY <1>3, <1>4, <1>5 DEF Parse, TcpRequest
  <2> QED BY <1>1, <1>5, <2>1 DEF Parse, TcpRequest
<1>6. CASE reader = "tcpClient"
  <2>1. ResponseBody(TcpBody(b)) = Null BY <1>3, <1>4, <1>6 DEF Parse, TcpResponse
  <2> QED BY <1>1, <1>6, <2>1 DEF Parse, TcpResponse
<1> QED BY <1>5, <1>6

\* A TCP reader with a whole message in front that does not parse never gets
\* past it: a server hears nothing more on that connection, a client nothing
\* more at all, however often it reconnects.
THEOREM StreamStuckForGood == Spec => StuckForGood
<1>1. StreamInv /\ [Next]_vars =>
        [Stuck /\ (reader = "tcpClient" \/ conn' = conn) => Stuck' /\ parsed' = parsed]_vars
  <2> SUFFICES ASSUME StreamInv, Next, Stuck, reader = "tcpClient" \/ conn' = conn
               PROVE  Stuck' /\ parsed' = parsed
    BY DEF vars
  <2>1. /\ buffer \in Seq(Byte) /\ wire \in Seq(Byte) /\ reader \in {"tcpServer", "tcpClient"}
        /\ conn \in Nat
    BY StreamAssumption DEF StreamInv, StreamTypes, Stuck
  <2>2. ASSUME UNCHANGED <<reader, buffer, parsed>> PROVE Stuck' /\ parsed' = parsed
    BY <2>2 DEF Stuck, InFront, Parse
  <2>3. ASSUME NEW k \in 1..Len(wire), DataEvent(k) PROVE Stuck' /\ parsed' = parsed
    <3> DEFINE b == Values(buffer)
               c == Values(buffer')
               chunk == Part(wire, 1, k)
    <3>1. Len(wire) \in Nat /\ k \in Nat BY <2>1, LenProperties
    <3>2. buffer' = buffer \o chunk /\ UNCHANGED <<reader, parsed>>
      BY <2>1, <2>3, ChunkIsPart DEF DataEvent
    <3>3. chunk \in Seq(Byte) BY <2>1, <3>1, OwnersOfPart
    <3> HIDE DEF chunk
    <3>4. /\ buffer' \in Seq(Byte) /\ Len(buffer') = Len(buffer) + Len(chunk)
          /\ \A i \in 1..Len(buffer) : i \in 1..Len(buffer') /\ buffer'[i] = buffer[i]
      BY <2>1, <3>2, <3>3, ConcatType
    <3>5. /\ b \in Seq(Octet) /\ Len(b) = Len(buffer) /\ Len(buffer) \in Nat
          /\ \A i \in 1..Len(buffer) : b[i] = buffer[i].value
      BY <2>1, ValuesType
    <3>6. /\ c \in Seq(Octet) /\ Len(c) = Len(buffer')
          /\ \A i \in 1..Len(buffer') : c[i] = buffer'[i].value
      BY <3>4, ValuesType
    <3>7. Len(chunk) \in Nat BY <3>3, LenProperties
    <3> HIDE DEF b, c
    <3>8. Len(b) <= Len(c) BY <3>4, <3>5, <3>6, <3>7
    <3>9. \A i \in 1..Len(b) : c[i] = b[i] BY <3>4, <3>5, <3>6
    <3>10. Len(b) >= 7 /\ Len(b) >= Uint16(b, 5) + 6 /\ Parse(b) = Null
      BY <3>5 DEF Stuck, InFront, b
    <3>11. Parse(c) = Null BY <2>1, <3>5, <3>6, <3>8, <3>9, <3>10, TcpParseLocal
    <3>12. Uint16(c, 5) = Uint16(b, 5) BY <3>5, <3>6, <3>8, <3>9, <3>10, TcpBodyLocal
    <3>13. Uint16(b, 5) \in Nat
      <4>1. 5 \in 1..(Len(b) - 1) BY <3>5, <3>10
      <4> QED BY <4>1, <3>5, WordType
    <3>14. Len(c) >= 7 /\ Len(c) >= Uint16(c, 5) + 6
      BY <3>4, <3>5, <3>6, <3>7, <3>8, <3>10, <3>12, <3>13
    <3>15. InFront' = Parse(c) BY <3>2 DEF InFront, Parse, c
    <3> QED BY <2>1, <3>2, <3>6, <3>11, <3>14, <3>15 DEF Stuck, c
  <2>4. ~ParseOne BY DEF ParseOne, Stuck
  <2>5. CASE Reconnect
    <3>1. reader = "tcpClient" BY <2>1, <2>5 DEF Reconnect
    <3>2. UNCHANGED <<reader, buffer, parsed>> BY <2>5, <3>1 DEF Reconnect
    <3> QED BY <2>2, <3>2
  <2> QED BY <2>2, <2>3, <2>4, <2>5 DEF Next, Send, WaitForMore
<1> QED BY <1>1, StreamInvariant, PTL DEF Spec, StuckForGood

-----------------------------------------------------------------------------
(* Streams made of whole messages.                                           *)

\* Message m stands in s behind the first a bytes.
WholeAt(s, a, m, bytes) ==
  /\ a \in Nat /\ a + Len(bytes) <= Len(s)
  /\ \A j \in 1..Len(bytes) : s[a + j].msg = m /\ s[a + j].at = j /\ s[a + j].value = bytes[j]
\* Whole messages of a history, each at most once and in the order of sending.
InWhole(s, i, of) ==
  LET m == s[i].msg
  IN /\ m \in 1..Len(of) /\ s[i].at \in 1..Len(of[m].bytes)
     /\ WholeAt(s, i - s[i].at, m, of[m].bytes)
Follows(s, i, j) ==
  \/ s[i].msg < s[j].msg
  \/ s[i].msg = s[j].msg /\ s[j].at = s[i].at + (j - i)
Linked(s, of) ==
  /\ \A i \in 1..Len(s) : InWhole(s, i, of)
  /\ \A i, j \in 1..Len(s) : i < j => Follows(s, i, j)

\* Such a stream begins with a whole message.
LEMMA LinkedFront ==
  ASSUME NEW S, NEW s \in Seq(S), NEW of, Len(of) \in Nat,
         \A m \in 1..Len(of) : Len(of[m].bytes) \in Nat,
         Linked(s, of), Len(s) # 0
  PROVE  LET m == s[1].msg
         IN m \in 1..Len(of) /\ Len(of[m].bytes) >= 1 /\ WholeAt(s, 0, m, of[m].bytes)
<1>1. Len(s) \in Nat /\ 1 \in 1..Len(s) BY LenProperties
<1>2. InWhole(s, 1, of) BY <1>1 DEF Linked
<1> DEFINE m == s[1].msg
<1>3. /\ m \in 1..Len(of) /\ s[1].at \in 1..Len(of[m].bytes)
      /\ WholeAt(s, 1 - s[1].at, m, of[m].bytes)
  BY <1>2 DEF InWhole
<1>4. Len(of[m].bytes) \in Nat BY <1>3
<1>5. s[1].at \in Nat /\ s[1].at >= 1 /\ Len(of[m].bytes) >= 1 BY <1>3, <1>4
<1>6. 1 - s[1].at \in Nat BY <1>3 DEF WholeAt
<1>7. 1 - s[1].at = 0 BY <1>5, <1>6
<1> QED BY <1>3, <1>5, <1>7

Behind(s, of) == SubSeq(s, Len(of[s[1].msg].bytes) + 1, Len(s))

\* Without that message it is such a stream again, of later messages.
LEMMA LinkedRest ==
  ASSUME NEW S, NEW s \in Seq(S), NEW of, Len(of) \in Nat,
         \A m \in 1..Len(of) : Len(of[m].bytes) \in Nat,
         Linked(s, of), Len(s) # 0
  PROVE  /\ Linked(Behind(s, of), of)
         /\ \A i \in 1..Len(Behind(s, of)) : s[1].msg < Behind(s, of)[i].msg
         /\ \A i \in 1..Len(s) :
              s[i].msg = s[1].msg \/ \E k \in 1..Len(Behind(s, of)) : Behind(s, of)[k].msg = s[i].msg
<1> DEFINE m == s[1].msg
           n == Len(of[m].bytes)
           rest == SubSeq(s, n + 1, Len(s))
<1>1. /\ m \in 1..Len(of) /\ n \in Nat /\ n >= 1 /\ n <= Len(s) /\ Len(s) \in Nat
      /\ \A j \in 1..n : s[j].msg = m /\ s[j].at = j
  <2>1. m \in 1..Len(of) /\ n >= 1 /\ WholeAt(s, 0, m, of[m].bytes) BY LinkedFront
  <2>2. 0 + n <= Len(s) /\ \A j \in 1..n : s[0 + j].msg = m /\ s[0 + j].at = j
    BY <2>1 DEF WholeAt
  <2>3. n \in Nat /\ Len(s) \in Nat BY <2>1, LenProperties
  <2> HIDE DEF n, m
  <2>4. \A j \in 1..n : 0 + j = j BY <2>3
  <2> QED BY <2>1, <2>2, <2>3, <2>4
<1>2. \A i \in 1..Len(s) : InWhole(s, i, of) BY DEF Linked
<1>3. \A i, j \in 1..Len(s) : i < j => Follows(s, i, j) BY DEF Linked
<1> HIDE DEF n, m
<1>4. /\ Len(rest) = IF n <= Len(s) THEN Len(s) - n ELSE 0
      /\ \A i \in 1..Len(rest) : n + i \in 1..Len(s) /\ rest[i] = s[n + i]
  BY <1>1, RestType
<1> HIDE DEF rest
<1>5. Len(rest) = Len(s) - n /\ Len(rest) \in Nat BY <1>1, <1>4
<1>6. ASSUME NEW i \in 1..Len(rest) PROVE m < rest[i].msg
  <2>1. PICK q \in 1..Len(s) : q = n + i /\ rest[i] = s[q] BY <1>4
  <2>2. 1 \in 1..Len(s) /\ 1 < q /\ 1 \in 1..n /\ n < q BY <1>1, <1>5, <2>1
  <2>3. Follows(s, 1, q) BY <1>3, <2>2
  <2>4. CASE s[1].msg < s[q].msg BY <2>1, <2>4 DEF m
  <2>5. CASE s[1].msg = s[q].msg /\ s[q].at = s[1].at + (q - 1)
    <3>1. s[q].msg = m /\ s[1].at = 1 BY <1>1, <2>2, <2>5 DEF m
    <3>2. InWhole(s, q, of) BY <1>2
    <3>3. s[q].at \in 1..n BY <3>1, <3>2 DEF InWhole, n
    <3>4. s[q].at = q BY <2>5, <3>1, <1>1
    <3> QED BY <1>1, <2>2, <3>3, <3>4
  <2> QED BY <2>3, <2>4, <2>5 DEF Follows
<1>7. ASSUME NEW i \in 1..Len(rest) PROVE InWhole(rest, i, of)
  <2> DEFINE d == rest[i].msg
             a == (n + i) - s[n + i].at
             bytes == of[d].bytes
  <2>1. n + i \in 1..Len(s) /\ rest[i] = s[n + i] BY <1>4
  <2>2. InWhole(s, n + i, of) BY <1>2, <2>1
  <2>3. /\ d \in 1..Len(of) /\ s[n + i].at \in 1..Len(bytes)
        /\ WholeAt(s, a, d, bytes)
    BY <2>1, <2>2 DEF InWhole
  <2>4. /\ a \in Nat /\ a + Len(bytes) <= Len(s) /\ Len(bytes) \in Nat
        /\ \A j \in 1..Len(bytes) : s[a + j].msg = d /\ s[a + j].at = j /\ s[a + j].value = bytes[j]
    BY <2>3 DEF WholeAt
  <2>5. m < d BY <1>6
  <2>6. PICK k \in Nat : k = s[n + i].at /\ 1 <= k /\ k <= Len(bytes) BY <2>3, <2>4
  <2>7. a = n + i - k BY <1>1, <2>6
  <2>12. d \in Nat /\ m \in Nat BY <1>1, <2>3
  <2> HIDE DEF a, d, bytes
  <2>8. a >= n
    <3> SUFFICES ASSUME a < n PROVE FALSE BY <2>4, <1>1
    <3>1. a + 1 \in 1..n /\ 1 \in 1..Len(bytes) BY <1>1, <2>4, <2>6
    <3>2. s[a + 1].msg = m /\ s[a + 1].msg = d BY <1>1, <2>4, <3>1
    <3> QED BY <2>5, <2>12, <3>2
  <2>9. PICK b \in Nat : b = a - n BY <1>1, <2>4, <2>8
  <2>10. b = i - rest[i].at
    <3>1. rest[i].at = k BY <2>1, <2>6
    <3>2. i \in Nat /\ n \in Nat BY <1>1, <1>5
    <3>3. b = i - k BY <2>6, <2>7, <2>9, <3>2
    <3> QED BY <3>1, <3>3
  <2>11. WholeAt(rest, b, d, bytes)
    <3>1. b + Len(bytes) <= Len(rest) BY <1>1, <1>5, <2>4, <2>9
    <3>2. ASSUME NEW j \in 1..Len(bytes)
          PROVE  rest[b + j].msg = d /\ rest[b + j].at = j /\ rest[b + j].value = bytes[j]
      <4>1. b + j \in 1..Len(rest) /\ n + (b + j) = a + j BY <1>1, <1>5, <2>4, <2>9, <3>1
      <4>2. rest[b + j] = s[a + j] BY <1>4, <4>1
      <4> QED BY <2>4, <4>2
    <3> QED BY <3>1, <3>2 DEF WholeAt
  <2> QED BY <2>1, <2>3, <2>10, <2>11 DEF InWhole, d, bytes
<1>8. ASSUME NEW i \in 1..Len(rest), NEW j \in 1..Len(rest), i < j PROVE Follows(rest, i, j)
  <2>1. n + i \in 1..Len(s) /\ n + j \in 1..Len(s) /\ n + i < n + j BY <1>1, <1>4, <1>5, <1>8
  <2>2. Follows(s, n + i, n + j) BY <1>3, <2>1
  <2>3. (n + j) - (n + i) = j - i BY <1>1, <1>5
  <2> QED BY <1>4, <2>2, <2>3 DEF Follows
<1>9. ASSUME NEW i \in 1..Len(s)
      PROVE  s[i].msg = m \/ \E k \in 1..Len(rest) : rest[k].msg = s[i].msg
  <2>1. CASE i <= n BY <1>1, <2>1
  <2>2. CASE i > n
    <3>1. i - n \in 1..Len(rest) /\ n + (i - n) = i BY <1>1, <1>5, <2>2
    <3>2. rest[i - n] = s[i] BY <1>4, <3>1
    <3> QED BY <3>1, <3>2
  <2> QED BY <1>1, <2>1, <2>2
<1>10. rest = Behind(s, of) BY DEF Behind, rest, n, m
<1>11. Linked(rest, of) BY <1>7, <1>8 DEF Linked
<1> QED BY <1>6, <1>9, <1>10, <1>11 DEF m

\* The history grows by message m, whose bytes on the wire are t.
Grows(of, of2, m, bytes, t) ==
  /\ Len(of) \in Nat /\ m = Len(of) + 1 /\ Len(of2) = m
  /\ \A k \in 1..Len(of) : of2[k] = of[k] /\ Len(of[k].bytes) \in Nat
  /\ of2[m].bytes = bytes /\ Len(bytes) \in Nat /\ Len(t) = Len(bytes)
  /\ \A j \in 1..Len(bytes) : t[j].msg = m /\ t[j].at = j /\ t[j].value = bytes[j]

\* It may be put behind the stream.
LEMMA LinkedMore ==
  ASSUME NEW S, NEW s \in Seq(S), NEW t \in Seq(S), NEW of, NEW of2, NEW m, NEW bytes,
         Grows(of, of2, m, bytes, t), Linked(s, of)
  PROVE  Linked(s \o t, of2)
<1> DEFINE st == s \o t
           l == Len(s)
<1>1. /\ st \in Seq(S) /\ Len(st) = Len(s) + Len(t)
      /\ \A i \in 1..Len(s) : i \in 1..Len(st) /\ st[i] = s[i]
      /\ \A j \in 1..Len(t) : Len(s) + j \in 1..Len(st) /\ st[Len(s) + j] = t[j]
      /\ \A i \in 1..Len(st) : i \in 1..Len(s) \/ \E j \in 1..Len(t) : i = Len(s) + j
  BY ConcatType
<1> HIDE DEF st
<1>9. /\ Len(of) \in Nat /\ m = Len(of) + 1 /\ Len(of2) = m
      /\ \A k \in 1..Len(of) : of2[k] = of[k] /\ Len(of[k].bytes) \in Nat
      /\ of2[m].bytes = bytes /\ Len(bytes) \in Nat /\ Len(t) = Len(bytes)
      /\ \A j \in 1..Len(bytes) : t[j].msg = m /\ t[j].at = j /\ t[j].value = bytes[j]
  BY DEF Grows
<1>2. l \in Nat /\ Len(st) = l + Len(bytes) BY <1>1, <1>9, LenProperties
<1>3. /\ \A i \in 1..l : InWhole(s, i, of)
      /\ \A i, j \in 1..l : i < j => Follows(s, i, j)
  BY DEF Linked
<1>4. /\ \A i \in 1..l : i \in 1..Len(st) /\ st[i] = s[i]
      /\ \A j \in 1..Len(bytes) : l + j \in 1..Len(st) /\ st[l + j].msg = m /\ st[l + j].at = j
                                  /\ st[l + j].value = bytes[j]
      /\ \A i \in 1..Len(st) : i \in 1..l \/ \E j \in 1..Len(bytes) : i = l + j
  BY <1>1, <1>9
<1> HIDE DEF l
<1>5. ASSUME NEW i \in 1..l
      PROVE  /\ s[i].msg \in 1..Len(of) /\ s[i].at \in 1..Len(of[s[i].msg].bytes)
             /\ WholeAt(s, i - s[i].at, s[i].msg, of[s[i].msg].bytes)
             /\ of2[s[i].msg] = of[s[i].msg]
  BY <1>3, <1>9 DEF InWhole
<1>6. ASSUME NEW i \in 1..l PROVE InWhole(st, i, of2)
  <2> DEFINE d == s[i].msg
             a == i - s[i].at
             old == of[d].bytes
  <2>1. /\ d \in 1..Len(of) /\ s[i].at \in 1..Len(old) /\ WholeAt(s, a, d, old)
        /\ of2[d] = of[d] /\ Len(old) \in Nat
    BY <1>5, <1>9
  <2>2. /\ a \in Nat /\ a + Len(old) <= l
        /\ \A j \in 1..Len(old) : s[a + j].msg = d /\ s[a + j].at = j /\ s[a + j].value = old[j]
    BY <2>1 DEF WholeAt, l
  <2>3. st[i] = s[i] BY <1>4
  <2>4. d \in 1..Len(of2) BY <1>9, <2>1
  <2> HIDE DEF a, old, d
  <2>5. \A j \in 1..Len(old) : a + j \in 1..l BY <1>2, <2>1, <2>2
  <2>6. a + Len(old) <= Len(st) BY <1>2, <2>1, <2>2
  <2>7. WholeAt(st, a, d, old) BY <1>4, <2>2, <2>5, <2>6 DEF WholeAt
  <2> QED BY <2>1, <2>3, <2>4, <2>7 DEF InWhole, a, old, d
<1>7. ASSUME NEW k \in 1..Len(bytes) PROVE InWhole(st, l + k, of2)
  <2>1. st[l + k].msg = m /\ st[l + k].at = k BY <1>4
  <2>2. (l + k) - k = l BY <1>2, <1>9
  <2>3. m \in 1..Len(of2) BY <1>9
  <2>4. WholeAt(st, l, m, bytes) BY <1>2, <1>4, <1>9 DEF WholeAt
  <2> QED BY <1>9, <2>1, <2>2, <2>3, <2>4 DEF InWhole
<1>8. ASSUME NEW i \in 1..Len(st), NEW j \in 1..Len(st), i < j PROVE Follows(st, i, j)
  <2>1. CASE i \in 1..l /\ j \in 1..l
    <3>1. Follows(s, i, j) BY <1>3, <1>8, <2>1
    <3> QED BY <1>4, <2>1, <3>1 DEF Follows
  <2>2. CASE i \in 1..l /\ j \notin 1..l
    <3>1. st[j].msg = m BY <1>4, <2>2
    <3>2. st[i].msg \in 1..Len(of) BY <1>4, <1>5, <2>2
    <3> QED BY <1>9, <3>1, <3>2 DEF Follows
  <2>3. CASE i \notin 1..l /\ j \notin 1..l
    <3>1. PICK p \in 1..Len(bytes) : i = l + p BY <1>4, <2>3
    <3>2. PICK q \in 1..Len(bytes) : j = l + q BY <1>4, <2>3
    <3>3. st[i].msg = m /\ st[i].at = p /\ st[j].msg = m /\ st[j].at = q BY <1>4, <3>1, <3>2
    <3>4. q = p + (j - i) BY <1>2, <1>9, <3>1, <3>2
    <3> QED BY <3>3, <3>4 DEF Follows
  <2>4. CASE i \notin 1..l /\ j \in 1..l BY <1>2, <1>8, <2>4
  <2> QED BY <2>1, <2>2, <2>3, <2>4
<1> QED BY <1>4, <1>6, <1>7, <1>8 DEF Linked, st

\* A stream is the same wherever it is divided.
LEMMA Divided ==
  ASSUME NEW S, NEW s \in Seq(S), NEW t \in Seq(S), NEW k \in 1..Len(t)
  PROVE  (s \o SubSeq(t, 1, k)) \o SubSeq(t, k + 1, Len(t)) = s \o t
<1> DEFINE l == Len(t)
           front == SubSeq(t, 1, k)
           rest == SubSeq(t, k + 1, l)
<1>1. l \in Nat /\ k \in Nat /\ k <= l /\ k >= 1 BY LenProperties
<1> HIDE DEF l
<1>2. front \o rest = SubSeq(t, 1, l)
  <2>1. 1 \in 1..(Len(t) + 1) /\ k \in (1 - 1)..Len(t) /\ l \in k..Len(t) BY <1>1 DEF l
  <2> QED BY <2>1, ConcatAdjacentSubSeq
<1>3. SubSeq(t, 1, l) = t BY SubSeqFull DEF l
<1>4. front \in Seq(S) /\ rest \in Seq(S)
  <2>1. \A i \in 1..l : t[i] \in S BY ElementOfSeq DEF l
  <2>2. 1 \in Int /\ k \in Int /\ l \in Int /\ k + 1 \in Int BY <1>1
  <2>3. \A i \in 1..k : t[i] \in S BY <1>1, <2>1
  <2>4. \A i \in (k + 1)..l : t[i] \in S BY <1>1, <2>1
  <2>5. front \in Seq(S) BY <2>2, <2>3, SubSeqProperties
  <2>6. rest \in Seq(S) BY <2>2, <2>4, SubSeqProperties
  <2> QED BY <2>5, <2>6
<1> HIDE DEF front, rest
<1>5. (s \o front) \o rest = s \o (front \o rest) BY <1>4, ConcatAssociative, SMTT(30)
<1> QED BY <1>2, <1>3, <1>5 DEF front, rest, l

\* What is taken off its front is taken off the stream.
LEMMA TakenOff ==
  ASSUME NEW S, NEW s \in Seq(S), NEW t \in Seq(S), NEW n \in Nat
  PROVE  n <= Len(s) => SubSeq(s \o t, n + 1, Len(s \o t)) = SubSeq(s, n + 1, Len(s)) \o t
<1> DEFINE st == s \o t
           u == SubSeq(st, n + 1, Len(st))
           rest == SubSeq(s, n + 1, Len(s))
           v == rest \o t
<1>2. /\ st \in Seq(S) /\ Len(st) = Len(s) + Len(t)
      /\ \A i \in 1..Len(s) : i \in 1..Len(st) /\ st[i] = s[i]
      /\ \A j \in 1..Len(t) : Len(s) + j \in 1..Len(st) /\ st[Len(s) + j] = t[j]
      /\ \A i \in 1..Len(st) : i \in 1..Len(s) \/ \E j \in 1..Len(t) : i = Len(s) + j
  BY ConcatType
<1> HIDE DEF st
<1>3. /\ u \in Seq(S) /\ Len(u) = IF n <= Len(st) THEN Len(st) - n ELSE 0
      /\ \A i \in 1..Len(u) : n + i \in 1..Len(st) /\ u[i] = st[n + i]
  <2>1. st \in Seq(S) BY <1>2
  <2> QED BY <2>1, RestType
<1>4. /\ rest \in Seq(S) /\ Len(rest) = IF n <= Len(s) THEN Len(s) - n ELSE 0
      /\ \A i \in 1..Len(rest) : n + i \in 1..Len(s) /\ rest[i] = s[n + i]
  BY RestType
<1> HIDE DEF u, rest
<1>5. /\ v \in Seq(S) /\ Len(v) = Len(rest) + Len(t)
      /\ \A i \in 1..Len(rest) : i \in 1..Len(v) /\ v[i] = rest[i]
      /\ \A j \in 1..Len(t) : Len(rest) + j \in 1..Len(v) /\ v[Len(rest) + j] = t[j]
      /\ \A i \in 1..Len(v) : i \in 1..Len(rest) \/ \E j \in 1..Len(t) : i = Len(rest) + j
  <2>1. rest \in Seq(S) BY <1>4
  <2> QED BY <2>1, ConcatType
<1> HIDE DEF v
<1> SUFFICES ASSUME n <= Len(s) PROVE u = v BY DEF u, v, st, rest
<1>1. Len(s) \in Nat /\ Len(t) \in Nat /\ n \in Nat /\ n <= Len(s) BY LenProperties
<1>6. Len(rest) = Len(s) - n /\ Len(u) = Len(v) /\ Len(u) = (Len(s) - n) + Len(t)
  BY <1>1, <1>2, <1>3, <1>4, <1>5
<1>7. ASSUME NEW i \in 1..Len(u) PROVE u[i] = v[i]
  <2>1. u[i] = st[n + i] BY <1>3
  <2>2. CASE i \in 1..Len(rest)
    <3>1. n + i \in 1..Len(s) /\ rest[i] = s[n + i] /\ v[i] = rest[i] BY <1>4, <1>5, <2>2
    <3> QED BY <1>2, <2>1, <3>1
  <2>3. CASE \E j \in 1..Len(t) : i = Len(rest) + j
    <3>1. PICK j \in 1..Len(t) : i = Len(rest) + j BY <2>3
    <3>2. n + i = Len(s) + j BY <1>1, <1>6, <3>1
    <3>3. v[i] = t[j] /\ st[Len(s) + j] = t[j] BY <1>2, <1>5, <3>1
    <3> QED BY <2>1, <3>2, <3>3
  <2> QED BY <1>5, <1>6, <2>2, <2>3
<1>8. u = v BY <1>3, <1>5, <1>6, <1>7, SeqEqual
<1> QED BY <1>8

-----------------------------------------------------------------------------
(* What a TCP reader takes off the stream.                                   *)

\* The messages are those that the code encodes.
SentAsEncoded ==
  \A m \in 1..Len(sent) :
    \E memory \in Memory : sent[m].bytes = Encoded(reader, m, sent[m].body, memory)

\* What is behind the last whole message does not parse.
Waiting == ~parsing => InFront = Null

Stream == buffer \o wire
\* The last byte that has arrived, inside a message, does not end it early.
CleanEdge ==
  Len(buffer) # 0 /\ Len(wire) # 0 /\ buffer[Len(buffer)].msg = wire[1].msg =>
    ~ParsesEarly(sent[wire[1].msg].body, buffer[Len(buffer)].at)
TakenWhole ==
  /\ \A i \in 1..Len(parsed) : \E m \in 1..Len(sent) :
       parsed[i].taken = Tagged(m, sent[m].bytes) /\ parsed[i].taken[1].msg = m
  /\ \A i, j \in 1..Len(parsed) : i < j => parsed[i].taken[1].msg < parsed[j].taken[1].msg
  /\ \A i \in 1..Len(parsed) : \A j \in 1..Len(Stream) : parsed[i].taken[1].msg < Stream[j].msg
Accounted ==
  \A m \in 1..Len(sent) :
    \/ m \in lost
    \/ \E i \in 1..Len(Stream) : Stream[i].msg = m
    \/ \E i \in 1..Len(parsed) : parsed[i].taken = Tagged(m, sent[m].bytes)

Orderly == Linked(Stream, sent) /\ CleanEdge /\ TakenWhole /\ Accounted
Untorn == reader # "rtuClient" /\ ~chopped /\ ~stale
WholeInv == SentAsEncoded /\ Waiting /\ (Untorn => Orderly)

\* The lengths a stream is made of.
LEMMA StreamForm ==
  ASSUME StreamInv
  PROVE  /\ buffer \in Seq(Byte) /\ wire \in Seq(Byte) /\ Stream \in Seq(Byte)
         /\ Len(buffer) \in Nat /\ Len(wire) \in Nat /\ Len(Stream) = Len(buffer) + Len(wire)
         /\ \A i \in 1..Len(buffer) : i \in 1..Len(Stream) /\ Stream[i] = buffer[i]
         /\ \A j \in 1..Len(wire) : Len(buffer) + j \in 1..Len(Stream) /\ Stream[Len(buffer) + j] = wire[j]
         /\ Len(sent) \in Nat /\ Len(parsed) \in Nat
         /\ \A m \in 1..Len(sent) : sent[m].bytes \in Seq(Octet) /\ Len(sent[m].bytes) \in Nat
<1>1. buffer \in Seq(Byte) /\ wire \in Seq(Byte) BY DEF StreamInv, StreamTypes
<1>2. Len(buffer) \in Nat /\ Len(wire) \in Nat BY <1>1, LenProperties
<1>3. /\ Stream \in Seq(Byte) /\ Len(Stream) = Len(buffer) + Len(wire)
      /\ \A i \in 1..Len(buffer) : i \in 1..Len(Stream) /\ Stream[i] = buffer[i]
      /\ \A j \in 1..Len(wire) : Len(buffer) + j \in 1..Len(Stream) /\ Stream[Len(buffer) + j] = wire[j]
  BY <1>1, ConcatType DEF Stream
<1>4. Len(sent) \in Nat /\ Len(parsed) \in Nat BY LenProperties DEF StreamInv, StreamTypes
<1>5. \A m \in 1..Len(sent) : sent[m].bytes \in Seq(Octet)
  <2>1. \A m \in 1..Len(sent) : sent[m] \in Message BY ElementOfSeq DEF StreamInv, StreamTypes
  <2> QED BY <2>1 DEF Message
<1>6. \A m \in 1..Len(sent) : Len(sent[m].bytes) \in Nat BY <1>5, LenProperties
<1> QED BY <1>1, <1>2, <1>3, <1>4, <1>5, <1>6

\* And so does every message sent.
LEMMA MessagesSpeak ==
  ASSUME StreamInv, SentAsEncoded, reader # "rtuClient", NEW m \in 1..Len(sent), NEW b \in Seq(Octet)
  PROVE  Len(sent[m].bytes) >= 7 /\ Speaks(sent[m].bytes, sent[m].body, b)
<1>1. PICK memory \in Memory : sent[m].bytes = Encoded(reader, m, sent[m].body, memory)
  BY DEF SentAsEncoded
<1>2. reader \in Readers /\ m \in 1..MaxMessages
  BY StreamForm, StreamAssumption DEF StreamInv, StreamTypes
<1>3. sent[m].body \in Messages[reader]
  <2>1. sent[m] \in Message BY ElementOfSeq DEF StreamInv, StreamTypes
  <2> QED BY <2>1 DEF Message
<1> QED BY <1>1, <1>2, <1>3, EncodedSpeaks

\* A message is sent.
LEMMA SendWhole ==
  ASSUME StreamInv, WholeInv, NEW body \in Messages[reader], NEW memory \in Memory, Send(body, memory)
  PROVE  WholeInv'
<1> DEFINE m == Len(sent) + 1
           bytes == Encoded(reader, m, body, memory)
           entry == [conn |-> conn, body |-> body, bytes |-> bytes]
           t == Tagged(m, bytes)
<1>1. /\ sent' = Append(sent, entry) /\ wire' = wire \o t
      /\ UNCHANGED <<reader, conn, buffer, parsing, parsed, chopped, stale, lost>>
      /\ Len(sent) < MaxMessages
  BY DEF Send
<1>2. /\ Len(sent) \in Nat /\ sent \in Seq(Message) /\ wire \in Seq(Byte) /\ buffer \in Seq(Byte)
      /\ reader \in Readers /\ conn \in 1..MaxConns
      /\ \A k \in 1..Len(sent) : Len(sent[k].bytes) \in Nat
  BY StreamForm DEF StreamInv, StreamTypes
<1>3. m \in 1..MaxMessages BY <1>1, <1>2, StreamAssumption
<1>4. bytes \in Seq(Octet) BY <1>2, <1>3, MessageAssumption DEF Octet
<1>5. entry \in Message BY <1>2, <1>4 DEF Message
<1>6. entry.body = body /\ entry.bytes = bytes OBVIOUS
<1>7. bytes = Encoded(reader, m, body, memory) OBVIOUS
<1> HIDE DEF bytes
<1> HIDE DEF entry
<1>8. /\ Len(sent') = m /\ sent'[m] = entry
      /\ \A i \in 1..Len(sent) : sent'[i] = sent[i]
  BY <1>1, <1>2, <1>5, AppendProperties
<1>9. \A i \in 1..Len(sent') : i \in 1..Len(sent) \/ i = m BY <1>2, <1>8
<1>10. 1..Len(sent) \subseteq 1..Len(sent') /\ m \in 1..Len(sent') BY <1>2, <1>8
<1>11. SentAsEncoded'
  <2>1. ASSUME NEW i \in 1..Len(sent')
        PROVE  \E memo \in Memory : sent'[i].bytes = Encoded(reader, i, sent'[i].body, memo)
    <3>1. CASE i \in 1..Len(sent) BY <1>8, <3>1 DEF WholeInv, SentAsEncoded
    <3>2. CASE i = m BY <1>6, <1>7, <1>8, <3>2
    <3> QED BY <1>9, <3>1, <3>2
  <2> QED BY <1>1, <2>1 DEF SentAsEncoded
<1>12. Waiting' BY <1>1 DEF WholeInv, Waiting, InFront, Parse
<1>13. ASSUME Untorn' PROVE Orderly'
  <2>1. Untorn /\ Orderly BY <1>1, <1>13 DEF WholeInv, Untorn
  <2>2. /\ t \in Seq(Byte) /\ Len(t) = Len(bytes) /\ Len(bytes) \in Nat
        /\ \A j \in 1..Len(bytes) : t[j].msg = m /\ t[j].at = j /\ t[j].value = bytes[j]
    <3>1. /\ t \in Seq(Byte) /\ Len(t) = Len(bytes)
          /\ \A i \in 1..Len(bytes) : t[i] = [msg |-> m, at |-> i, value |-> bytes[i]]
      BY <1>3, <1>4, TaggedType
    <3> HIDE DEF t
    <3>2. Len(bytes) \in Nat BY <1>4, LenProperties
    <3>3. ASSUME NEW j \in 1..Len(bytes)
          PROVE  t[j].msg = m /\ t[j].at = j /\ t[j].value = bytes[j]
      <4> DEFINE byte == [msg |-> m, at |-> j, value |-> bytes[j]]
      <4>1. t[j] = byte BY <3>1
      <4>2. byte.msg = m /\ byte.at = j /\ byte.value = bytes[j] OBVIOUS
      <4> HIDE DEF byte
      <4> QED BY <4>1, <4>2
    <3> QED BY <3>1, <3>2, <3>3
  <2> HIDE DEF t
  <2>3. Stream \in Seq(Byte) /\ Len(Stream) \in Nat BY StreamForm, LenProperties
  <2>4. Stream' = Stream \o t
    <3>1. wire \in Seq(Byte) /\ buffer \in Seq(Byte) /\ t \in Seq(Byte) BY <1>2, <2>2
    <3>2. (buffer \o wire) \o t = buffer \o (wire \o t) BY <3>1, ConcatAssociative
    <3>3. wire' = wire \o t /\ buffer' = buffer BY <1>1
    <3> QED BY <3>2, <3>3 DEF Stream
  <2>5. Grows(sent, sent', m, bytes, t) BY <1>2, <1>6, <1>8, <2>2 DEF Grows
  <2>6. Linked(Stream', sent')
    <3>1. Linked(Stream, sent) BY <2>1 DEF Orderly
    <3> QED BY <2>2, <2>3, <2>4, <2>5, <3>1, LinkedMore
  <2>7. /\ Len(Stream') = Len(Stream) + Len(t)
        /\ \A i \in 1..Len(Stream) : i \in 1..Len(Stream') /\ Stream'[i] = Stream[i]
        /\ \A j \in 1..Len(t) : Len(Stream) + j \in 1..Len(Stream') /\ Stream'[Len(Stream) + j] = t[j]
        /\ \A i \in 1..Len(Stream') : i \in 1..Len(Stream) \/ \E j \in 1..Len(t) : i = Len(Stream) + j
    <3> DEFINE st == Stream \o t
    <3>1. t \in Seq(Byte) /\ Stream \in Seq(Byte) BY <2>2, <2>3
    <3>2. /\ st \in Seq(Byte) /\ Len(st) = Len(Stream) + Len(t)
          /\ \A i \in 1..Len(Stream) : i \in 1..Len(st) /\ st[i] = Stream[i]
          /\ \A j \in 1..Len(t) : Len(Stream) + j \in 1..Len(st) /\ st[Len(Stream) + j] = t[j]
          /\ \A i \in 1..Len(st) : i \in 1..Len(Stream) \/ \E j \in 1..Len(t) : i = Len(Stream) + j
      BY <3>1, ConcatType
    <3> HIDE DEF st
    <3>3. Stream' = st BY <2>4 DEF st
    <3> QED BY <3>2, <3>3
  <2>12. /\ Len(wire') = Len(wire) + Len(t) /\ Len(wire) \in Nat
         /\ \A i \in 1..Len(wire) : wire'[i] = wire[i]
         /\ \A j \in 1..Len(t) : wire'[Len(wire) + j] = t[j]
    <3> DEFINE wt == wire \o t
    <3>1. t \in Seq(Byte) /\ wire \in Seq(Byte) BY <1>2, <2>2
    <3>2. /\ wt \in Seq(Byte) /\ Len(wt) = Len(wire) + Len(t)
          /\ \A i \in 1..Len(wire) : i \in 1..Len(wt) /\ wt[i] = wire[i]
          /\ \A j \in 1..Len(t) : Len(wire) + j \in 1..Len(wt) /\ wt[Len(wire) + j] = t[j]
          /\ \A i \in 1..Len(wt) : i \in 1..Len(wire) \/ \E j \in 1..Len(t) : i = Len(wire) + j
      BY <3>1, ConcatType
    <3> HIDE DEF wt
    <3>3. wire' = wt BY <1>1 DEF wt
    <3> QED BY <3>1, <3>2, <3>3, LenProperties
  <2>8. \A i \in 1..Len(Stream) : Stream[i].msg \in 1..Len(sent)
    BY <2>1 DEF Orderly, Linked, InWhole
  <2>9. CleanEdge'
    <3> SUFFICES ASSUME Len(buffer) # 0, Len(wire') # 0, buffer[Len(buffer)].msg = wire'[1].msg
                 PROVE  ~ParsesEarly(sent'[wire'[1].msg].body, buffer[Len(buffer)].at)
      BY <1>1 DEF CleanEdge, ParsesEarly
    <3>1. Len(wire) \in Nat BY <2>12
    <3>2. buffer[Len(buffer)].msg \in 1..Len(sent)
      <4>1. Len(buffer) \in 1..Len(buffer) BY StreamForm
      <4>2. Len(buffer) \in 1..Len(Stream) /\ Stream[Len(buffer)] = buffer[Len(buffer)]
        BY <4>1, StreamForm
      <4> QED BY <2>8, <4>2
    <3>3. CASE Len(wire) # 0
      <4>1. 1 \in 1..Len(wire) BY <3>1, <3>3
      <4>2. wire'[1] = wire[1] BY <2>12, <4>1
      <4>3. ~ParsesEarly(sent[wire[1].msg].body, buffer[Len(buffer)].at)
        BY <2>1, <3>3, <4>2 DEF Orderly, CleanEdge
      <4>4. sent'[wire'[1].msg] = sent[wire[1].msg] BY <1>8, <3>2, <4>2
      <4> QED BY <4>3, <4>4
    <3>4. CASE Len(wire) = 0
      <4>1. 1 \in 1..Len(t) /\ Len(wire) + 1 = 1 BY <2>2, <2>12, <3>1, <3>4
      <4>2. wire'[1].msg = m BY <2>2, <2>12, <4>1
      <4> QED BY <1>2, <3>2, <4>2
    <3> QED BY <3>3, <3>4
  <2>10. TakenWhole'
    <3>1. TakenWhole BY <2>1 DEF Orderly
    <3>2. ASSUME NEW i \in 1..Len(parsed)
          PROVE  \E k \in 1..Len(sent') : parsed[i].taken = Tagged(k, sent'[k].bytes) /\ parsed[i].taken[1].msg = k
      <4>1. PICK k \in 1..Len(sent) : parsed[i].taken = Tagged(k, sent[k].bytes) /\ parsed[i].taken[1].msg = k
        BY <3>1 DEF TakenWhole
      <4> QED BY <1>8, <1>10, <4>1
    <3>3. ASSUME NEW i \in 1..Len(parsed), NEW j \in 1..Len(Stream')
          PROVE  parsed[i].taken[1].msg < Stream'[j].msg
      <4>1. parsed[i].taken[1].msg \in 1..Len(sent) BY <3>1 DEF TakenWhole
      <4>2. CASE j \in 1..Len(Stream) BY <2>7, <3>1, <4>2 DEF TakenWhole
      <4>3. CASE \E k \in 1..Len(t) : j = Len(Stream) + k
        <5>2. PICK k \in 1..Len(t) : j = Len(Stream) + k BY <4>3
        <5>3. Stream'[j] = t[k] BY <2>7, <5>2
        <5>1. Stream'[j].msg = m BY <2>2, <5>2, <5>3
        <5> QED BY <1>2, <4>1, <5>1
      <4> QED BY <2>7, <4>2, <4>3
    <3> QED BY <1>1, <3>1, <3>2, <3>3 DEF TakenWhole
  <2>11. Accounted'
    <3>1. ASSUME NEW k \in 1..Len(sent')
          PROVE  \/ k \in lost'
                 \/ \E i \in 1..Len(Stream') : Stream'[i].msg = k
                 \/ \E i \in 1..Len(parsed') : parsed'[i].taken = Tagged(k, sent'[k].bytes)
      <4>1. CASE k \in 1..Len(sent)
        <5>1. \/ k \in lost
              \/ \E i \in 1..Len(Stream) : Stream[i].msg = k
              \/ \E i \in 1..Len(parsed) : parsed[i].taken = Tagged(k, sent[k].bytes)
          BY <2>1, <4>1 DEF Orderly, Accounted
        <5>2. sent'[k] = sent[k] BY <1>8, <4>1
        <5> QED BY <1>1, <2>7, <5>1, <5>2
      <4>2. CASE k = m
        <5>1. Len(bytes) >= 7
          <6>1. sent'[m].bytes = bytes BY <1>6, <1>8
          <6>2. reader # "rtuClient" /\ <<>> \in Seq(Octet) BY <1>1, <1>13 DEF Untorn
          <6> QED BY <1>2, <1>3, <1>7, <6>2, EncodedSpeaks
        <5>2. 1 \in 1..Len(t) BY <2>2, <5>1
        <5>3. t[1].msg = m BY <2>2, <5>2
        <5> QED BY <2>7, <4>2, <5>2, <5>3
      <4> QED BY <1>9, <4>1, <4>2
    <3> QED BY <3>1 DEF Accounted
  <2> QED BY <2>6, <2>9, <2>10, <2>11 DEF Orderly
<1> QED BY <1>11, <1>12, <1>13 DEF WholeInv

\* A chunk arrives: the stream is only divided elsewhere.
LEMMA DataEventWhole ==
  ASSUME StreamInv, WholeInv, NEW k \in 1..Len(wire), DataEvent(k)
  PROVE  WholeInv'
<1>1. /\ buffer' = buffer \o SubSeq(wire, 1, k) /\ wire' = SubSeq(wire, k + 1, Len(wire))
      /\ parsing' = TRUE
      /\ UNCHANGED <<reader, conn, sent, parsed, stale, lost>>
      /\ chopped' = (chopped \/ ( /\ k < Len(wire) /\ wire[k].msg = wire[k + 1].msg
                                  /\ ParsesEarly(sent[wire[k].msg].body, wire[k].at)))
  BY DEF DataEvent
<1>2. buffer \in Seq(Byte) /\ wire \in Seq(Byte) /\ Len(buffer) \in Nat /\ Len(wire) \in Nat
  BY StreamForm
<1>3. Stream' = Stream
  <2>1. (buffer \o SubSeq(wire, 1, k)) \o SubSeq(wire, k + 1, Len(wire)) = buffer \o wire
    BY <1>2, Divided
  <2> QED BY <1>1, <2>1 DEF Stream
<1>4. SentAsEncoded' BY <1>1 DEF WholeInv, SentAsEncoded
<1>5. Waiting' BY <1>1 DEF Waiting
<1>6. ASSUME Untorn' PROVE Orderly'
  <2>1. Untorn /\ Orderly BY <1>1, <1>6 DEF WholeInv, Untorn
  <2>2. Linked(Stream', sent') /\ TakenWhole' /\ Accounted'
    BY <1>1, <1>3, <2>1 DEF Orderly, TakenWhole, Accounted
  <2>3. CleanEdge'
    <3> SUFFICES ASSUME Len(wire') # 0
                 PROVE  buffer'[Len(buffer')].msg = wire'[1].msg =>
                          ~ParsesEarly(sent[wire'[1].msg].body, buffer'[Len(buffer')].at)
      BY <1>1 DEF CleanEdge, ParsesEarly
    <3> DEFINE chunk == Part(wire, 1, k)
    <3>1. SubSeq(wire, 1, k) = chunk BY <1>2, ChunkIsPart
    <3>2. /\ chunk \in Seq(Byte) /\ Len(chunk) \in Nat
          /\ Len(chunk) = IF k <= 0 \/ 1 > Len(wire) THEN 0
                          ELSE IF 1 + k - 1 <= Len(wire) THEN k ELSE Len(wire) - 1 + 1
          /\ \A i \in 1..Len(chunk) : 1 + i - 1 \in 1..Len(wire) /\ chunk[i] = wire[1 + i - 1]
      <4>1. k \in Int /\ 1 \in Nat \ {0} /\ wire \in Seq(Byte) BY <1>2
      <4> QED BY <4>1, PartType
    <3> HIDE DEF chunk
    <3>3. Len(chunk) = k BY <1>2, <3>2
    <3>4. chunk[k] = wire[k]
      <4>1. k \in 1..Len(chunk) /\ 1 + k - 1 = k BY <1>2, <3>3
      <4> QED BY <3>2, <4>1
    <3>5. chunk \in Seq(Byte) BY <3>2
    <3>6. /\ buffer \o chunk \in Seq(Byte) /\ Len(buffer \o chunk) = Len(buffer) + Len(chunk)
          /\ \A i \in 1..Len(buffer) : i \in 1..Len(buffer \o chunk) /\ (buffer \o chunk)[i] = buffer[i]
          /\ \A j \in 1..Len(chunk) : Len(buffer) + j \in 1..Len(buffer \o chunk)
                                      /\ (buffer \o chunk)[Len(buffer) + j] = chunk[j]
          /\ \A i \in 1..Len(buffer \o chunk) :
               i \in 1..Len(buffer) \/ \E j \in 1..Len(chunk) : i = Len(buffer) + j
      <4>1. buffer \in Seq(Byte) BY <1>2
      <4> QED BY <3>5, <4>1, ConcatType
    <3>7. buffer' = buffer \o chunk BY <1>1, <3>1
    <3>8. Len(buffer') = Len(buffer) + k /\ buffer'[Len(buffer')] = wire[k]
      <4>1. k \in 1..Len(chunk) BY <1>2, <3>3
      <4> QED BY <3>3, <3>4, <3>6, <3>7, <4>1
    <3>9. /\ Len(wire') = IF k <= Len(wire) THEN Len(wire) - k ELSE 0
          /\ \A i \in 1..Len(wire') : k + i \in 1..Len(wire) /\ wire'[i] = wire[k + i]
      <4>1. k \in Nat /\ wire \in Seq(Byte) BY <1>2
      <4> QED BY <1>1, <4>1, RestType
    <3>10. k < Len(wire) /\ wire'[1] = wire[k + 1]
      <4>1. Len(wire') = Len(wire) - k /\ Len(wire') \in Nat BY <1>2, <3>9
      <4>2. 1 \in 1..Len(wire') BY <4>1
      <4> QED BY <1>2, <3>9, <4>1, <4>2
    <3>11. ~chopped' BY <1>6 DEF Untorn
    <3> QED BY <1>1, <3>8, <3>10, <3>11
  <2> QED BY <2>2, <2>3 DEF Orderly
<1> QED BY <1>4, <1>5, <1>6 DEF WholeInv

\* Message m is what the parser finds in front of the buffer.
FrontIs(m) ==
  /\ Len(sent[m].bytes) \in 1..Len(buffer) /\ InFront.consumed = Len(sent[m].bytes)
  /\ Stream[1].msg = m /\ Part(buffer, 1, Len(sent[m].bytes)) = Tagged(m, sent[m].bytes)

\* Whatever it finds is a message of the stream: where only a part of one has
\* arrived, it finds nothing.
LEMMA FrontMessage ==
  ASSUME StreamInv, SentAsEncoded, reader # "rtuClient", Orderly, InFront # Null
  PROVE  \E m \in 1..Len(sent) : FrontIs(m)
<1> DEFINE b == Values(buffer)
<1>1. /\ buffer \in Seq(Byte) /\ Stream \in Seq(Byte) /\ Len(sent) \in Nat
      /\ \A k \in 1..Len(sent) : Len(sent[k].bytes) \in Nat
  BY StreamForm
<1>2. /\ b \in Seq(Octet) /\ Len(b) = Len(buffer) /\ Len(buffer) \in Nat
      /\ \A i \in 1..Len(buffer) : b[i] = buffer[i].value
  BY <1>1, ValuesType
<1> HIDE DEF b
<1>3. InFront = Parse(b) BY DEF InFront, b
<1>4. Len(buffer) >= 7 BY <1>2, <1>3, FrameType DEF StreamInv, StreamTypes
<1>5. Len(Stream) = Len(buffer) + Len(wire) /\ Len(wire) \in Nat /\ Len(Stream) # 0
  BY <1>2, <1>4, StreamForm
<1>6. Linked(Stream, sent) BY DEF Orderly
<1>7. PICK m : m = Stream[1].msg OBVIOUS
<1>8. m \in 1..Len(sent) /\ WholeAt(Stream, 0, m, sent[m].bytes)
  BY <1>1, <1>5, <1>6, <1>7, LinkedFront
<1> DEFINE e == sent[m].bytes
           n == Len(e)
<1>9. e \in Seq(Octet) /\ n \in Nat BY <1>8, StreamForm
<1>10. n >= 7 /\ Speaks(e, sent[m].body, b) BY <1>2, <1>8, MessagesSpeak
<1> HIDE DEF e, n
<1>11. /\ n <= Len(Stream)
       /\ \A j \in 1..n : Stream[j].msg = m /\ Stream[j].at = j /\ Stream[j].value = e[j]
  <2>1. /\ 0 + n <= Len(Stream)
        /\ \A j \in 1..n : Stream[0 + j].msg = m /\ Stream[0 + j].at = j /\ Stream[0 + j].value = e[j]
    BY <1>8 DEF WholeAt, e, n
  <2>2. \A j \in 1..n : 0 + j = j BY <1>9
  <2> QED BY <1>5, <1>9, <2>1, <2>2
<1>12. \A i \in 1..Len(buffer) : Stream[i] = buffer[i] BY StreamForm
<1>13. n <= Len(buffer)
  <2> SUFFICES ASSUME Len(buffer) < n PROVE FALSE BY <1>2, <1>9
  <2>1. \A i \in 1..Len(b) : b[i] = e[i] BY <1>2, <1>9, <1>11, <1>12
  <2>2. Len(buffer) \in 1..Len(buffer) /\ Len(buffer) \in 1..n /\ Len(buffer) + 1 \in 1..n
    BY <1>2, <1>4, <1>9
  <2>3. buffer[Len(buffer)].msg = m /\ buffer[Len(buffer)].at = Len(buffer) BY <1>11, <1>12, <2>2
  <2>4. 1 \in 1..Len(wire) BY <1>2, <1>5, <1>9, <1>11
  <2>5. Stream[Len(buffer) + 1] = wire[1] BY <2>4, StreamForm
  <2>6. wire[1].msg = m BY <1>11, <2>2, <2>5
  <2>7. ~ParsesEarly(sent[m].body, Len(buffer))
    BY <1>4, <1>5, <2>3, <2>4, <2>6 DEF Orderly, CleanEdge
  <2>8. Len(b) < Len(e) BY <1>2 DEF n
  <2> QED BY <1>2, <1>3, <1>10, <2>1, <2>7, <2>8 DEF Speaks
<1>14. InFront.consumed = n
  <2>1. Len(b) >= Len(e) BY <1>2, <1>9, <1>13 DEF n
  <2>2. \A i \in 1..Len(e) : b[i] = e[i] BY <1>2, <1>9, <1>11, <1>12, <1>13 DEF n
  <2>3. Parse(b).consumed = Len(e) BY <1>3, <1>10, <2>1, <2>2 DEF Speaks
  <2> QED BY <1>3, <2>3 DEF n
<1>15. Part(buffer, 1, n) = Tagged(m, e)
  <2> DEFINE p == Part(buffer, 1, n)
             t == Tagged(m, e)
  <2>1. PICK k \in Nat : k = n BY <1>9
  <2>2. /\ Part(buffer, 1, k) \in Seq(Byte) /\ Len(Part(buffer, 1, k)) \in Nat
        /\ Len(Part(buffer, 1, k)) = IF k <= 0 \/ 1 > Len(buffer) THEN 0
                    ELSE IF 1 + k - 1 <= Len(buffer) THEN k ELSE Len(buffer) - 1 + 1
        /\ \A i \in 1..Len(Part(buffer, 1, k)) :
             1 + i - 1 \in 1..Len(buffer) /\ Part(buffer, 1, k)[i] = buffer[1 + i - 1]
    <3>1. 1 \in Nat \ {0} /\ k \in Int OBVIOUS
    <3> QED BY <1>1, <3>1, PartType
  <2> HIDE DEF p
  <2>3. p \in Seq(Byte) /\ Len(p) = n BY <1>2, <1>4, <1>9, <1>10, <1>13, <2>1, <2>2 DEF p
  <2>4. \A i \in 1..n : p[i] = buffer[i] /\ i \in 1..Len(buffer)
    <3>1. \A i \in 1..n : p[i] = buffer[1 + i - 1] BY <2>1, <2>2, <2>3 DEF p
    <3>2. \A i \in 1..n : 1 + i - 1 = i /\ i \in 1..Len(buffer) BY <1>2, <1>9, <1>13
    <3> QED BY <3>1, <3>2
  <2>5. /\ t \in Seq(Byte) /\ Len(t) = n
        /\ \A i \in 1..n : t[i] = [msg |-> m, at |-> i, value |-> e[i]]
    <3>1. m \in 1..MaxMessages BY <1>1, <1>8, StreamAssumption DEF StreamInv, StreamTypes
    <3> QED BY <1>9, <3>1, TaggedType DEF n
  <2> HIDE DEF t
  <2>6. ASSUME NEW i \in 1..n PROVE p[i] = t[i]
    <3>1. p[i] = buffer[i] /\ i \in 1..Len(buffer) BY <2>4
    <3>2. buffer[i] \in Byte BY <1>1, <3>1, ElementOfSeq
    <3>3. buffer[i].msg = m /\ buffer[i].at = i /\ buffer[i].value = e[i] BY <1>11, <1>12, <3>1
    <3>4. buffer[i] = [msg |-> m, at |-> i, value |-> e[i]] BY <3>2, <3>3 DEF Byte
    <3> QED BY <2>5, <3>1, <3>4
  <2>7. p = t BY <2>3, <2>5, <2>6, SeqEqual
  <2> QED BY <2>7 DEF p, t
<1>16. n \in 1..Len(buffer) BY <1>2, <1>9, <1>10, <1>13
<1> QED BY <1>7, <1>8, <1>14, <1>15, <1>16 DEF FrontIs, n, e

\* It is taken off, and the rest is such a stream again.
LEMMA FrontTaken ==
  ASSUME StreamInv, Orderly, NEW m \in 1..Len(sent), FrontIs(m), ParseOne
  PROVE  Orderly'
<1> DEFINE e == sent[m].bytes
           n == Len(e)
           entry == [taken |-> Part(buffer, 1, n), frame |-> InFront]
<1>1. /\ n \in 1..Len(buffer) /\ InFront.consumed = n /\ Stream[1].msg = m
      /\ Part(buffer, 1, n) = Tagged(m, e)
  BY DEF FrontIs
<1>2. /\ parsed' = Append(parsed, entry) /\ buffer' = SubSeq(buffer, n + 1, Len(buffer))
      /\ UNCHANGED <<reader, wire, sent, lost>>
  BY <1>1 DEF ParseOne
<1>3. /\ buffer \in Seq(Byte) /\ wire \in Seq(Byte) /\ Stream \in Seq(Byte)
      /\ Len(buffer) \in Nat /\ Len(wire) \in Nat /\ Len(Stream) = Len(buffer) + Len(wire)
      /\ Len(sent) \in Nat /\ Len(parsed) \in Nat
      /\ \A k \in 1..Len(sent) : Len(sent[k].bytes) \in Nat
      /\ e \in Seq(Octet) /\ n \in Nat
  BY StreamForm
<1>4. entry.taken = Tagged(m, e) BY <1>1
<1>5. /\ Len(parsed') = Len(parsed) + 1 /\ parsed'[Len(parsed) + 1] = entry
      /\ \A i \in 1..Len(parsed) : parsed'[i] = parsed[i]
  <2>1. \E P : parsed \in Seq(P) /\ entry \in P
    <3> DEFINE Q == [taken : Seq(Byte), frame : Frames] \cup {entry}
    <3>1. parsed \in Seq([taken : Seq(Byte), frame : Frames]) BY DEF StreamInv, StreamTypes
    <3>2. parsed \in Seq(Q) BY <3>1, SeqMonotonic
    <3> QED BY <3>2
  <2> HIDE DEF entry
  <2>2. PICK P : parsed \in Seq(P) /\ entry \in P BY <2>1
  <2> QED BY <1>2, <2>2, AppendProperties
<1> HIDE DEF entry
<1>6. Tagged(m, e)[1].msg = m
  <2>1. m \in 1..MaxMessages BY <1>3, StreamAssumption DEF StreamInv, StreamTypes
  <2>2. 1 \in 1..n BY <1>1, <1>3
  <2>3. Tagged(m, e)[1] = [msg |-> m, at |-> 1, value |-> e[1]] BY <1>3, <2>1, <2>2, TaggedType
  <2> QED BY <2>3
<1>7. Stream' = SubSeq(Stream, n + 1, Len(Stream))
  <2>1. n \in Nat /\ n <= Len(buffer) BY <1>1, <1>3
  <2>2. SubSeq(buffer \o wire, n + 1, Len(buffer \o wire)) = SubSeq(buffer, n + 1, Len(buffer)) \o wire
    BY <1>3, <2>1, TakenOff
  <2> QED BY <1>2, <2>2 DEF Stream
<1>8. /\ Linked(Stream', sent)
      /\ \A i \in 1..Len(Stream') : m < Stream'[i].msg
      /\ \A i \in 1..Len(Stream) : Stream[i].msg = m \/ \E k \in 1..Len(Stream') : Stream'[k].msg = Stream[i].msg
  <2> DEFINE rest == Behind(Stream, sent)
  <2>1. Linked(Stream, sent) BY DEF Orderly
  <2>2. Len(Stream) # 0 BY <1>1, <1>3
  <2>3. /\ Linked(rest, sent)
        /\ \A i \in 1..Len(rest) : Stream[1].msg < rest[i].msg
        /\ \A i \in 1..Len(Stream) :
             Stream[i].msg = Stream[1].msg \/ \E k \in 1..Len(rest) : rest[k].msg = Stream[i].msg
    <3>1. /\ Stream \in Seq(Byte) /\ Len(sent) \in Nat
          /\ \A k \in 1..Len(sent) : Len(sent[k].bytes) \in Nat
      BY <1>3
    <3>2. Linked(rest, sent) BY <3>1, <2>1, <2>2, LinkedRest
    <3>3. \A i \in 1..Len(rest) : Stream[1].msg < rest[i].msg BY <3>1, <2>1, <2>2, LinkedRest
    <3>4. \A i \in 1..Len(Stream) :
            Stream[i].msg = Stream[1].msg \/ \E k \in 1..Len(rest) : rest[k].msg = Stream[i].msg
      BY <3>1, <2>1, <2>2, LinkedRest
    <3> QED BY <3>2, <3>3, <3>4
  <2>4. Stream[1].msg = m /\ rest = Stream' BY <1>1, <1>7 DEF Behind
  <2> HIDE DEF rest
  <2> QED BY <2>3, <2>4
<1> HIDE DEF n, e
<1>9. Linked(Stream', sent') BY <1>2, <1>8
<1>10. CleanEdge'
  <2> SUFFICES ASSUME Len(buffer') # 0, Len(wire) # 0, buffer'[Len(buffer')].msg = wire[1].msg
               PROVE  ~ParsesEarly(sent[wire[1].msg].body, buffer'[Len(buffer')].at)
    BY <1>2 DEF CleanEdge, ParsesEarly
  <2>1. /\ Len(buffer') = IF n <= Len(buffer) THEN Len(buffer) - n ELSE 0
        /\ \A i \in 1..Len(buffer') : n + i \in 1..Len(buffer) /\ buffer'[i] = buffer[n + i]
    BY <1>2, <1>3, RestType
  <2>2. Len(buffer') = Len(buffer) - n /\ Len(buffer') \in Nat BY <1>1, <1>3, <2>1
  <2>3. Len(buffer') \in 1..Len(buffer') /\ n + Len(buffer') = Len(buffer) BY <1>1, <1>3, <2>2
  <2>4. buffer'[Len(buffer')] = buffer[Len(buffer)] BY <2>1, <2>3
  <2>5. Len(buffer) # 0 BY <1>1, <1>3
  <2> QED BY <2>4, <2>5 DEF Orderly, CleanEdge
<1>11. \A i \in 1..Len(parsed') : i \in 1..Len(parsed) \/ i = Len(parsed) + 1 BY <1>3, <1>5
<1>12. TakenWhole'
  <2>1. TakenWhole BY DEF Orderly
  <2>2. ASSUME NEW i \in 1..Len(parsed')
        PROVE  \E k \in 1..Len(sent) : parsed'[i].taken = Tagged(k, sent[k].bytes) /\ parsed'[i].taken[1].msg = k
    <3>1. CASE i \in 1..Len(parsed) BY <1>5, <2>1, <3>1 DEF TakenWhole
    <3>2. CASE i = Len(parsed) + 1
      <4>1. parsed'[i].taken = Tagged(m, sent[m].bytes) BY <1>4, <1>5, <3>2 DEF e
      <4>2. parsed'[i].taken[1].msg = m BY <1>4, <1>5, <1>6, <3>2
      <4> QED BY <4>1, <4>2
    <3> QED BY <1>11, <3>1, <3>2
  <2>3. ASSUME NEW i \in 1..Len(parsed)
        PROVE  parsed'[i].taken[1].msg < m /\ parsed'[i].taken[1].msg \in Nat
    <3>1. 1 \in 1..Len(Stream) BY <1>1, <1>3
    <3>2. parsed[i].taken[1].msg < Stream[1].msg /\ parsed[i].taken[1].msg \in 1..Len(sent)
      BY <2>1, <3>1 DEF TakenWhole
    <3> QED BY <1>1, <1>5, <3>2
  <2>4. parsed'[Len(parsed) + 1].taken[1].msg = m BY <1>4, <1>5, <1>6
  <2>5. \A k \in 1..Len(Stream') : Stream'[k].msg \in Nat /\ m < Stream'[k].msg
    BY <1>8 DEF Linked, InWhole
  <2>6. ASSUME NEW i \in 1..Len(parsed'), NEW j \in 1..Len(parsed'), i < j
        PROVE  parsed'[i].taken[1].msg < parsed'[j].taken[1].msg
    <3>1. CASE j \in 1..Len(parsed)
      <4>1. i \in 1..Len(parsed) BY <1>3, <1>11, <2>6, <3>1
      <4> QED BY <1>5, <2>1, <2>6, <3>1, <4>1 DEF TakenWhole
    <3>2. CASE j = Len(parsed) + 1
      <4>1. i \in 1..Len(parsed) BY <1>3, <1>11, <2>6, <3>2
      <4> QED BY <2>3, <2>4, <3>2, <4>1
    <3> QED BY <1>11, <3>1, <3>2
  <2>7. ASSUME NEW i \in 1..Len(parsed'), NEW j \in 1..Len(Stream')
        PROVE  parsed'[i].taken[1].msg < Stream'[j].msg
    <3>1. m < Stream'[j].msg /\ Stream'[j].msg \in Nat /\ m \in Nat BY <1>3, <2>5
    <3>2. parsed'[i].taken[1].msg = m \/ (parsed'[i].taken[1].msg < m /\ parsed'[i].taken[1].msg \in Nat)
      BY <1>11, <2>3, <2>4
    <3> QED BY <3>1, <3>2
  <2> QED BY <1>2, <2>2, <2>6, <2>7 DEF TakenWhole
<1>13. Accounted'
  <2>1. ASSUME NEW k \in 1..Len(sent)
        PROVE  \/ k \in lost
               \/ \E i \in 1..Len(Stream') : Stream'[i].msg = k
               \/ \E i \in 1..Len(parsed') : parsed'[i].taken = Tagged(k, sent[k].bytes)
    <3>1. CASE k = m
      <4>1. parsed'[Len(parsed) + 1].taken = Tagged(k, sent[k].bytes) BY <1>4, <1>5, <3>1 DEF e
      <4>2. Len(parsed) + 1 \in 1..Len(parsed') BY <1>3, <1>5
      <4> QED BY <4>1, <4>2
    <3>2. CASE k \in lost BY <3>2
    <3>3. CASE k # m /\ \E i \in 1..Len(Stream) : Stream[i].msg = k BY <1>8, <3>3
    <3>4. CASE \E i \in 1..Len(parsed) : parsed[i].taken = Tagged(k, sent[k].bytes)
      <4>1. PICK i \in 1..Len(parsed) : parsed[i].taken = Tagged(k, sent[k].bytes) BY <3>4
      <4>2. i \in 1..Len(parsed') BY <1>3, <1>5
      <4> QED BY <1>5, <4>1, <4>2
    <3> QED BY <3>1, <3>2, <3>3, <3>4 DEF Orderly, Accounted
  <2> QED BY <1>2, <2>1 DEF Accounted
<1> QED BY <1>9, <1>10, <1>12, <1>13 DEF Orderly

\* The message in front is taken whole.
LEMMA ParseOneWhole ==
  ASSUME StreamInv, WholeInv, ParseOne
  PROVE  WholeInv'
<1>1. /\ InFront # Null /\ parsing
      /\ parsed' = Append(parsed, [taken |-> Part(buffer, 1, InFront.consumed), frame |-> InFront])
      /\ buffer' = SubSeq(buffer, InFront.consumed + 1, Len(buffer))
      /\ UNCHANGED <<reader, conn, wire, sent, parsing, chopped, stale, lost>>
  BY DEF ParseOne
<1>2. SentAsEncoded' BY <1>1 DEF WholeInv, SentAsEncoded
<1>3. Waiting' BY <1>1 DEF Waiting
<1>4. ASSUME Untorn' PROVE Orderly'
  <2>1. Untorn /\ Orderly /\ SentAsEncoded /\ reader # "rtuClient" BY <1>1, <1>4 DEF WholeInv, Untorn
  <2>2. \E m \in 1..Len(sent) : FrontIs(m) BY <1>1, <2>1, FrontMessage
  <2>3. PICK m \in 1..Len(sent) : FrontIs(m) BY <2>2
  <2> QED BY <1>1, <2>1, <2>3, FrontTaken
<1> QED BY <1>2, <1>3, <1>4 DEF WholeInv

\* Nothing parses out of an empty buffer.
LEMMA EmptyWaits ==
  ASSUME reader \in Readers
  PROVE  Parse(Values(<<>>)) = Null
<1>1. <<>> \in Seq(Byte) /\ Len(<<>>) = 0 BY EmptySeq
<1>2. Values(<<>>) \in Seq(Octet) /\ Len(Values(<<>>)) = 0 BY <1>1, ValuesType
<1>3. Values(<<>>) = <<>> BY <1>2, EmptySeq
<1> QED BY <1>3, StreamAssumption DEF Parse, TcpRequest, TcpResponse, RtuResponse

\* The connection is replaced: what was in the stream is lost.
LEMMA ReconnectWhole ==
  ASSUME StreamInv, WholeInv, Reconnect
  PROVE  WholeInv'
<1>1. /\ ~parsing /\ wire' = <<>>
      /\ buffer' = IF reader = "tcpServer" THEN <<>> ELSE buffer
      /\ lost' = lost \cup Owners(wire) \cup Owners(buffer)
      /\ stale' = (stale \/ (reader # "tcpServer" /\ buffer # <<>>))
      /\ UNCHANGED <<reader, sent, parsing, parsed, chopped>>
  BY DEF Reconnect
<1>2. SentAsEncoded' BY <1>1 DEF WholeInv, SentAsEncoded
<1>3. Waiting'
  <2>1. InFront = Null BY <1>1 DEF WholeInv, Waiting
  <2>2. Parse(Values(<<>>)) = Null BY EmptyWaits DEF StreamInv, StreamTypes
  <2>3. CASE buffer' = buffer BY <1>1, <2>1, <2>3 DEF Waiting, InFront, Parse
  <2>4. CASE buffer' = <<>>
    <3>1. InFront' = Parse(Values(<<>>)) BY <1>1, <2>4 DEF InFront, Parse
    <3> QED BY <2>2, <3>1 DEF Waiting
  <2> QED BY <1>1, <2>3, <2>4
<1>4. ASSUME Untorn' PROVE Orderly'
  <2>1. Untorn /\ Orderly BY <1>1, <1>4 DEF WholeInv, Untorn
  <2>2. buffer' = <<>> BY <1>1, <1>4 DEF Untorn
  <2>3. Stream' = <<>> /\ Len(Stream') = 0 /\ Len(wire') = 0
    <3>1. <<>> \in Seq(Byte) /\ Len(<<>>) = 0 BY EmptySeq
    <3>2. <<>> \o <<>> = <<>> BY <3>1, ConcatEmptySeq
    <3> QED BY <1>1, <2>2, <3>1, <3>2 DEF Stream
  <2>4. Linked(Stream', sent') BY <2>3 DEF Linked
  <2>5. CleanEdge' BY <2>3 DEF CleanEdge
  <2>6. TakenWhole' BY <1>1, <2>1, <2>3 DEF Orderly, TakenWhole
  <2>7. Accounted'
    <3>1. ASSUME NEW i \in 1..Len(Stream) PROVE Stream[i].msg \in lost'
      <4>1. /\ buffer \in Seq(Byte) /\ wire \in Seq(Byte)
            /\ Len(buffer) \in Nat /\ Len(wire) \in Nat /\ Len(Stream) = Len(buffer) + Len(wire)
        BY StreamForm
      <4>2. CASE i <= Len(buffer)
        <5>1. i \in 1..Len(buffer) BY <4>1, <4>2
        <5>2. Stream[i] = buffer[i] BY <5>1, StreamForm
        <5>3. buffer[i].msg \in Owners(buffer) BY <4>1, <5>1, OwnersByIndex
        <5> QED BY <1>1, <5>2, <5>3
      <4>3. CASE i > Len(buffer)
        <5>1. PICK j \in 1..Len(wire) : i = Len(buffer) + j
          <6>1. i - Len(buffer) \in 1..Len(wire) /\ i = Len(buffer) + (i - Len(buffer)) BY <4>1, <4>3
          <6> QED BY <6>1
        <5>2. Stream[i] = wire[j] BY <5>1, StreamForm
        <5>3. wire[j].msg \in Owners(wire) BY <4>1, <5>1, OwnersByIndex
        <5> QED BY <1>1, <5>2, <5>3
      <4> QED BY <4>1, <4>2, <4>3
    <3>2. ASSUME NEW m \in 1..Len(sent)
          PROVE  m \in lost' \/ \E i \in 1..Len(parsed) : parsed[i].taken = Tagged(m, sent[m].bytes)
      BY <1>1, <2>1, <3>1 DEF Orderly, Accounted
    <3> QED BY <1>1, <3>2 DEF Accounted
  <2> QED BY <2>4, <2>5, <2>6, <2>7 DEF Orderly
<1> QED BY <1>2, <1>3, <1>4 DEF WholeInv

\* The invariant of a TCP reader is inductive.
LEMMA WholePreserved ==
  ASSUME StreamInv, WholeInv, [Next]_vars
  PROVE  WholeInv'
<1>1. ASSUME NEW body \in Messages[reader], NEW memory \in Memory, Send(body, memory)
      PROVE  WholeInv'
  BY <1>1, SendWhole
<1>2. ASSUME NEW k \in 1..Len(wire), DataEvent(k) PROVE WholeInv'
  BY <1>2, DataEventWhole
<1>3. CASE ParseOne BY <1>3, ParseOneWhole
<1>4. CASE WaitForMore \/ UNCHANGED vars
  <2>1. UNCHANGED <<reader, conn, wire, sent, buffer, parsed, chopped, stale, lost>>
    BY <1>4 DEF WaitForMore, vars
  <2>2. InFront = Null \/ parsing' = parsing BY <1>4 DEF WaitForMore, vars
  <2>3. SentAsEncoded' BY <2>1 DEF WholeInv, SentAsEncoded
  <2>4. Waiting' BY <2>1, <2>2 DEF WholeInv, Waiting, InFront, Parse
  <2>5. ASSUME Untorn' PROVE Orderly'
    <3>1. Orderly BY <2>1, <2>5 DEF WholeInv, Untorn
    <3>2. Stream' = Stream BY <2>1 DEF Stream
    <3>3. CleanEdge' BY <2>1, <3>1 DEF Orderly, CleanEdge, ParsesEarly
    <3>4. TakenWhole' BY <2>1, <3>1, <3>2 DEF Orderly, TakenWhole
    <3>5. Accounted' BY <2>1, <3>1, <3>2 DEF Orderly, Accounted
    <3> QED BY <2>1, <3>1, <3>2, <3>3, <3>4, <3>5 DEF Orderly
  <2> QED BY <2>3, <2>4, <2>5 DEF WholeInv
<1>5. CASE Reconnect BY <1>5, ReconnectWhole
<1> QED BY <1>1, <1>2, <1>3, <1>4, <1>5 DEF Next

\* It holds of an empty stream.
LEMMA WholeStarts == Init => WholeInv
<1> SUFFICES ASSUME Init PROVE WholeInv OBVIOUS
<1>1. /\ wire = <<>> /\ sent = <<>> /\ buffer = <<>> /\ parsed = <<>> /\ reader \in Readers
      /\ Len(sent) = 0 /\ Len(parsed) = 0 /\ Len(buffer) = 0
  BY EmptySeq DEF Init
<1>2. Stream = <<>> /\ Len(Stream) = 0
  <2>1. <<>> \in Seq(Byte) /\ Len(<<>>) = 0 BY EmptySeq
  <2>2. <<>> \o <<>> = <<>> BY <2>1, ConcatEmptySeq
  <2> QED BY <1>1, <2>1, <2>2 DEF Stream
<1>3. SentAsEncoded BY <1>1 DEF SentAsEncoded
<1>4. Waiting BY <1>1, EmptyWaits DEF Waiting, InFront
<1>5. Orderly
  BY <1>1, <1>2 DEF Orderly, Linked, CleanEdge, TakenWhole, Accounted
<1> QED BY <1>3, <1>4, <1>5 DEF WholeInv

\* The invariant of the TCP readers.
THEOREM TcpStreamInvariant == Spec => [](StreamInv /\ WholeInv)
<1>1. Init => StreamInv /\ WholeInv BY StreamStarts, WholeStarts
<1>2. StreamInv /\ WholeInv /\ [Next]_vars => StreamInv' /\ WholeInv'
  BY StreamPreserved, WholePreserved
<1> QED BY <1>1, <1>2, PTL DEF Spec

\* However the stream is cut, a TCP reader accepts whole messages as they were
\* sent, in the order of sending, until a data event ends inside a body that
\* parses early or a client's connection is lost in the middle of a response.
THEOREM TcpParsedWhole == Spec => [](reader # "rtuClient" => ParsedWhole)
<1>1. StreamInv /\ WholeInv => (reader # "rtuClient" => ParsedWhole)
  <2> SUFFICES ASSUME StreamInv, WholeInv, reader # "rtuClient", ~chopped, ~stale PROVE ParsedWhole
    BY DEF ParsedWhole
  <2>1. TakenWhole BY DEF WholeInv, Untorn, Orderly
  <2>2. DOMAIN parsed = 1..Len(parsed) /\ DOMAIN sent = 1..Len(sent)
    BY LenProperties DEF StreamInv, StreamTypes
  <2>3. {i \in DOMAIN parsed : Accepted(parsed[i])} = 1..Len(parsed) BY <2>2 DEF Accepted
  <2>4. \A i \in 1..Len(parsed) : IsWhole(parsed[i]) BY <2>1, <2>2 DEF TakenWhole, IsWhole
  <2>5. \A i, j \in 1..Len(parsed) : i < j => parsed[i].taken[1].msg < parsed[j].taken[1].msg
    BY <2>1 DEF TakenWhole
  <2> QED BY <2>3, <2>4, <2>5 DEF ParsedWhole
<1> QED BY <1>1, TcpStreamInvariant, PTL

\* And it holds nothing back: between data events every message that has
\* arrived whole has been parsed, unless one that never parses is in the way.
THEOREM TcpNothingHeldBack == Spec => [](reader # "rtuClient" => NothingHeldBack)
<1>1. StreamInv /\ WholeInv => (reader # "rtuClient" => NothingHeldBack)
  <2> SUFFICES ASSUME StreamInv, WholeInv, reader # "rtuClient", ~parsing, ~chopped, ~stale,
                      NEW m \in DOMAIN sent, m \notin lost, m \notin Owners(wire)
               PROVE  \/ InTheWay(m) # {}
                      \/ \E i \in DOMAIN parsed : parsed[i].taken = Tagged(m, sent[m].bytes)
    BY DEF NothingHeldBack
  <2>1. DOMAIN parsed = 1..Len(parsed) /\ DOMAIN sent = 1..Len(sent)
    BY LenProperties DEF StreamInv, StreamTypes
  <2>2. Orderly /\ SentAsEncoded /\ InFront = Null BY DEF WholeInv, Untorn, Waiting
  <2>3. SUFFICES ASSUME NEW i \in 1..Len(Stream), Stream[i].msg = m PROVE InTheWay(m) # {}
    BY <2>1, <2>2 DEF Orderly, Accounted
  <2>4. /\ buffer \in Seq(Byte) /\ wire \in Seq(Byte) /\ Stream \in Seq(Byte)
        /\ Len(buffer) \in Nat /\ Len(wire) \in Nat /\ Len(Stream) = Len(buffer) + Len(wire)
        /\ Len(sent) \in Nat /\ \A k \in 1..Len(sent) : Len(sent[k].bytes) \in Nat
    BY StreamForm
  <2>5. \A j \in 1..Len(wire) : Stream[Len(buffer) + j] = wire[j] /\ wire[j].msg \in Owners(wire)
    BY <2>4, StreamForm, OwnersByIndex
  <2>6. \A j \in 1..Len(buffer) : Stream[j] = buffer[j] /\ buffer[j].msg \in Owners(buffer)
    BY <2>4, StreamForm, OwnersByIndex
  <2>7. i \in 1..Len(buffer)
    <3> SUFFICES ASSUME i > Len(buffer) PROVE FALSE BY <2>4
    <3>1. i - Len(buffer) \in 1..Len(wire) /\ Len(buffer) + (i - Len(buffer)) = i BY <2>4
    <3> QED BY <2>3, <2>5, <3>1
  <2>8. PICK d : d = Stream[1].msg OBVIOUS
  <2>9. d \in 1..Len(sent) /\ Len(sent[d].bytes) >= 1 /\ WholeAt(Stream, 0, d, sent[d].bytes)
    <3>1. Linked(Stream, sent) /\ Len(Stream) # 0 BY <2>2, <2>4 DEF Orderly
    <3>2. /\ Stream \in Seq(Byte) /\ Len(sent) \in Nat
          /\ \A k \in 1..Len(sent) : Len(sent[k].bytes) \in Nat
      BY <2>4
    <3> QED BY <2>8, <3>1, <3>2, LinkedFront
  <2> DEFINE e == sent[d].bytes
             n == Len(e)
  <2>10. e \in Seq(Octet) /\ n \in Nat BY <2>9, StreamForm
  <2>11. /\ n <= Len(Stream)
         /\ \A j \in 1..n : Stream[j].msg = d /\ Stream[j].value = e[j]
    <3>1. /\ 0 + n <= Len(Stream)
          /\ \A j \in 1..n : Stream[0 + j].msg = d /\ Stream[0 + j].value = e[j]
      BY <2>9 DEF WholeAt
    <3> HIDE DEF n, e
    <3>2. \A j \in 1..n : 0 + j = j BY <2>10
    <3> QED BY <2>4, <2>10, <3>1, <3>2
  <2> HIDE DEF n, e
  <2>12. n <= Len(buffer)
    <3> SUFFICES ASSUME Len(buffer) < n PROVE FALSE BY <2>4, <2>10
    <3>1. i \in 1..n /\ Len(buffer) + 1 \in 1..n /\ 1 \in 1..Len(wire) BY <2>4, <2>7, <2>10, <2>11
    <3>2. m = d /\ wire[1].msg = d BY <2>3, <2>5, <2>11, <3>1
    <3> QED BY <2>5, <3>1, <3>2
  <2>13. NeverParses(sent[d].body)
    <3> DEFINE b == Values(buffer)
    <3>1. /\ b \in Seq(Octet) /\ Len(b) = Len(buffer)
          /\ \A j \in 1..Len(buffer) : b[j] = buffer[j].value
      BY <2>4, ValuesType
    <3> HIDE DEF b
    <3>2. Speaks(e, sent[d].body, b) BY <2>2, <2>9, <3>1, MessagesSpeak DEF e
    <3>3. Len(b) >= Len(e) /\ \A j \in 1..Len(e) : b[j] = e[j]
      <4>1. \A j \in 1..n : j \in 1..Len(buffer) BY <2>4, <2>10, <2>12
      <4>2. \A j \in 1..n : b[j] = e[j] BY <2>6, <2>11, <3>1, <4>1
      <4> QED BY <2>4, <2>10, <2>12, <3>1, <4>2 DEF n
    <3>4. Parse(b) = Null BY <2>2 DEF InFront, b
    <3> QED BY <3>2, <3>3, <3>4 DEF Speaks
  <2>14. d <= m
    <3>1. CASE i = 1 BY <2>1, <2>3, <2>8, <2>9, <3>1, <2>4
    <3>2. CASE i # 1
      <4>1. Follows(Stream, 1, i) BY <2>2, <2>4, <3>2 DEF Orderly, Linked
      <4>2. d < m \/ d = m BY <2>3, <2>8, <4>1 DEF Follows
      <4> QED BY <2>1, <2>4, <2>9, <4>2
    <3> QED BY <3>1, <3>2
  <2>15. sent[d].conn = sent[m].conn
    <3>1. 1 \in 1..Len(buffer) BY <2>4, <2>7
    <3>2. d \in Owners(buffer) /\ m \in Owners(buffer) BY <2>3, <2>6, <2>7, <2>8, <3>1
    <3> QED BY <3>2 DEF StreamInv, OwnerInv, Current
  <2>16. d \in 1..m BY <2>1, <2>4, <2>9, <2>14
  <2> QED BY <2>13, <2>15, <2>16 DEF InTheWay
<1> QED BY <1>1, TcpStreamInvariant, PTL

-----------------------------------------------------------------------------
(* What the readers understand.                                              *)

\* A byte of a message of the history.
OfMessage(byte, of) ==
  /\ byte.msg \in 1..Len(of) /\ byte.at \in 1..Len(of[byte.msg].bytes)
  /\ byte.value = of[byte.msg].bytes[byte.at]

\* Such bytes in the order of sending, where whole messages may have lost
\* their end.
Chained(s, of) ==
  /\ \A i \in 1..Len(s) : OfMessage(s[i], of)
  /\ \A i, j \in 1..Len(s) : i < j => Follows(s, i, j)

\* A part of such a stream is one.
LEMMA ChainedPart ==
  ASSUME NEW s, NEW r, NEW of, NEW d \in Nat, Len(r) \in Nat, Len(s) \in Nat, Chained(s, of),
         \A i \in 1..Len(r) : d + i \in 1..Len(s) /\ r[i] = s[d + i]
  PROVE  Chained(r, of)
<1>1. ASSUME NEW i \in 1..Len(r) PROVE OfMessage(r[i], of) BY DEF Chained
<1>2. ASSUME NEW i \in 1..Len(r), NEW j \in 1..Len(r), i < j PROVE Follows(r, i, j)
  <2>1. d + i \in 1..Len(s) /\ d + j \in 1..Len(s) /\ r[i] = s[d + i] /\ r[j] = s[d + j] OBVIOUS
  <2>2. d + i < d + j /\ (d + j) - (d + i) = j - i BY <1>2
  <2>3. Follows(s, d + i, d + j) BY <2>1, <2>2 DEF Chained
  <2> QED BY <2>1, <2>2, <2>3 DEF Follows
<1> QED BY <1>1, <1>2 DEF Chained

\* A message may be put behind it.
LEMMA ChainedMore ==
  ASSUME NEW S, NEW s \in Seq(S), NEW t \in Seq(S), NEW of, NEW of2, NEW m, NEW bytes,
         Grows(of, of2, m, bytes, t), Chained(s, of)
  PROVE  Chained(s \o t, of2)
<1> DEFINE st == s \o t
           l == Len(s)
<1>1. /\ st \in Seq(S) /\ Len(st) = Len(s) + Len(t)
      /\ \A i \in 1..Len(s) : i \in 1..Len(st) /\ st[i] = s[i]
      /\ \A j \in 1..Len(t) : Len(s) + j \in 1..Len(st) /\ st[Len(s) + j] = t[j]
      /\ \A i \in 1..Len(st) : i \in 1..Len(s) \/ \E j \in 1..Len(t) : i = Len(s) + j
  BY ConcatType
<1> HIDE DEF st
<1>2. /\ Len(of) \in Nat /\ m = Len(of) + 1 /\ Len(of2) = m
      /\ \A k \in 1..Len(of) : of2[k] = of[k] /\ Len(of[k].bytes) \in Nat
      /\ of2[m].bytes = bytes /\ Len(bytes) \in Nat /\ Len(t) = Len(bytes)
      /\ \A j \in 1..Len(bytes) : t[j].msg = m /\ t[j].at = j /\ t[j].value = bytes[j]
  BY DEF Grows
<1>3. l \in Nat /\ Len(st) = l + Len(bytes) BY <1>1, <1>2, LenProperties
<1>4. /\ \A i \in 1..l : OfMessage(s[i], of)
      /\ \A i, j \in 1..l : i < j => Follows(s, i, j)
  BY DEF Chained
<1>5. /\ \A i \in 1..l : i \in 1..Len(st) /\ st[i] = s[i]
      /\ \A j \in 1..Len(bytes) : l + j \in 1..Len(st) /\ st[l + j].msg = m /\ st[l + j].at = j
                                  /\ st[l + j].value = bytes[j]
      /\ \A i \in 1..Len(st) : i \in 1..l \/ \E j \in 1..Len(bytes) : i = l + j
  BY <1>1, <1>2
<1> HIDE DEF l
<1>6. ASSUME NEW i \in 1..l PROVE OfMessage(st[i], of2) /\ st[i].msg \in 1..Len(of)
  <2>1. OfMessage(s[i], of) /\ st[i] = s[i] BY <1>4, <1>5
  <2>2. st[i].msg \in 1..Len(of2) BY <1>2, <2>1 DEF OfMessage
  <2> QED BY <1>2, <2>1, <2>2 DEF OfMessage
<1>7. ASSUME NEW j \in 1..Len(bytes) PROVE OfMessage(st[l + j], of2)
  <2>1. m \in 1..Len(of2) BY <1>2
  <2> QED BY <1>2, <1>5, <2>1 DEF OfMessage
<1>8. ASSUME NEW i \in 1..Len(st), NEW j \in 1..Len(st), i < j PROVE Follows(st, i, j)
  <2>1. CASE i \in 1..l /\ j \in 1..l
    <3>1. Follows(s, i, j) BY <1>4, <1>8, <2>1
    <3> QED BY <1>5, <2>1, <3>1 DEF Follows
  <2>2. CASE i \in 1..l /\ j \notin 1..l
    <3>1. st[j].msg = m BY <1>5, <2>2
    <3>2. st[i].msg \in 1..Len(of) BY <1>6, <2>2
    <3> QED BY <1>2, <3>1, <3>2 DEF Follows
  <2>3. CASE i \notin 1..l /\ j \notin 1..l
    <3>1. PICK p \in 1..Len(bytes) : i = l + p BY <1>5, <2>3
    <3>2. PICK q \in 1..Len(bytes) : j = l + q BY <1>5, <2>3
    <3>3. st[i].msg = m /\ st[i].at = p /\ st[j].msg = m /\ st[j].at = q BY <1>5, <3>1, <3>2
    <3>4. q = p + (j - i) BY <1>2, <1>3, <3>1, <3>2
    <3> QED BY <3>3, <3>4 DEF Follows
  <2>4. CASE i \notin 1..l /\ j \in 1..l BY <1>3, <1>8, <2>4
  <2> QED BY <2>1, <2>2, <2>3, <2>4
<1> QED BY <1>5, <1>6, <1>7, <1>8 DEF Chained, st

\* Where a message begins, its bytes follow one after the other as long as
\* there is no other's.
LEMMA ChainedFront ==
  ASSUME NEW s, NEW of, Len(s) \in Nat, Chained(s, of), NEW n \in 1..Len(s),
         s[1].at = 1, \A i \in 1..n : s[i].msg = s[1].msg
  PROVE  LET m == s[1].msg
         IN /\ m \in 1..Len(of)
            /\ \A i \in 1..n : s[i].at = i /\ i \in 1..Len(of[m].bytes) /\ s[i].value = of[m].bytes[i]
<1>1. 1 \in 1..Len(s) /\ 1 \in 1..n /\ \A i \in 1..n : i \in 1..Len(s) OBVIOUS
<1>2. \A i \in 1..n : s[i].at = i
  <2> SUFFICES ASSUME NEW i \in 1..n, i # 1 PROVE s[i].at = i OBVIOUS
  <2>1. 1 < i /\ i \in 1..Len(s) OBVIOUS
  <2>2. Follows(s, 1, i) BY <1>1, <2>1 DEF Chained
  <2>3. s[1].msg \in Nat BY <1>1 DEF Chained, OfMessage
  <2>4. s[i].at = 1 + (i - 1) BY <2>2, <2>3 DEF Follows
  <2> QED BY <2>4
<1> QED BY <1>1, <1>2 DEF Chained, OfMessage

\* The wire holds no message without its end.
Continued ==
  \A i \in 1..Len(wire) : wire[i].at < Len(sent[wire[i].msg].bytes) =>
    i < Len(wire) /\ wire[i + 1].msg = wire[i].msg

\* Where the last byte that has arrived does not end its message, the message
\* does not parse early, unless a data event ended where it does.
SoundEdge ==
  LET byte == buffer[Len(buffer)]
  IN ~chopped /\ Len(buffer) # 0 /\ byte.at < Len(sent[byte.msg].bytes) =>
       ~ParsesEarly(sent[byte.msg].body, byte.at)

\* What was read of one message from its first byte on means what it says.
UnderstoodFrom(entry) ==
  LET m == entry.taken[1].msg
  IN entry.taken[1].at = 1 /\ Owners(entry.taken) = {m} => Means(sent[m].body, entry.frame.body)
Understood == \A i \in 1..Len(parsed) : UnderstoodFrom(parsed[i])

\* The inductive invariant behind ValuesAsAsked.
SenseInv == Chained(Stream, sent) /\ Continued /\ SoundEdge /\ Understood

\* What sending a message adds.
LEMMA SendGrows ==
  ASSUME StreamInv, NEW body \in Messages[reader], NEW memory \in Memory, Send(body, memory)
  PROVE  \E t \in Seq(Byte), bytes \in Seq(Octet) :
           Grows(sent, sent', Len(sent) + 1, bytes, t) /\ wire' = wire \o t
<1> DEFINE m == Len(sent) + 1
           bytes == Encoded(reader, m, body, memory)
           entry == [conn |-> conn, body |-> body, bytes |-> bytes]
           t == Tagged(m, bytes)
<1>1. sent' = Append(sent, entry) /\ wire' = wire \o t /\ Len(sent) < MaxMessages BY DEF Send
<1>2. /\ Len(sent) \in Nat /\ sent \in Seq(Message) /\ reader \in Readers /\ conn \in 1..MaxConns
      /\ \A k \in 1..Len(sent) : Len(sent[k].bytes) \in Nat
  BY StreamForm DEF StreamInv, StreamTypes
<1>3. m \in 1..MaxMessages BY <1>1, <1>2, StreamAssumption
<1>4. bytes \in Seq(Octet) BY <1>2, <1>3, MessageAssumption DEF Octet
<1>5. entry \in Message BY <1>2, <1>4 DEF Message
<1>6. entry.bytes = bytes OBVIOUS
<1> HIDE DEF bytes
<1> HIDE DEF entry
<1>7. Len(sent') = m /\ sent'[m] = entry /\ \A i \in 1..Len(sent) : sent'[i] = sent[i]
  BY <1>1, <1>2, <1>5, AppendProperties
<1>8. /\ t \in Seq(Byte) /\ Len(t) = Len(bytes)
      /\ \A i \in 1..Len(bytes) : t[i] = [msg |-> m, at |-> i, value |-> bytes[i]]
  BY <1>3, <1>4, TaggedType
<1> HIDE DEF t
<1>9. Len(bytes) \in Nat BY <1>4, LenProperties
<1>10. ASSUME NEW j \in 1..Len(bytes) PROVE t[j].msg = m /\ t[j].at = j /\ t[j].value = bytes[j]
  <2> DEFINE byte == [msg |-> m, at |-> j, value |-> bytes[j]]
  <2>1. t[j] = byte BY <1>8
  <2>2. byte.msg = m /\ byte.at = j /\ byte.value = bytes[j] OBVIOUS
  <2> HIDE DEF byte
  <2> QED BY <2>1, <2>2
<1>11. Grows(sent, sent', m, bytes, t) BY <1>2, <1>6, <1>7, <1>8, <1>9, <1>10 DEF Grows
<1> QED BY <1>1, <1>4, <1>8, <1>11

\* What was understood stays understood: the history of data events only grows.
LEMMA MeansOn ==
  ASSUME chopped => chopped'
  PROVE  \A asked, got : Means(asked, got) => Means(asked, got)'
BY DEF Means

\* So it does when messages are sent.
LEMMA UnderstoodOn ==
  ASSUME StreamInv, Understood, chopped => chopped',
         \A k \in 1..Len(sent) : sent'[k] = sent[k],
         NEW i \in 1..Len(parsed), NEW entry, entry = parsed[i], entry = parsed'[i]
  PROVE  UnderstoodFrom(parsed[i])'
<1> DEFINE m == entry.taken[1].msg
<1>1. CASE ~(entry.taken[1].at = 1 /\ Owners(entry.taken) = {m})
  BY <1>1 DEF UnderstoodFrom, Owners
<1>2. CASE entry.taken[1].at = 1 /\ Owners(entry.taken) = {m}
  <2>1. Means(sent[m].body, entry.frame.body) BY <1>2 DEF Understood, UnderstoodFrom
  <2>2. m \in 1..Len(sent)
    <3>1. m \in Owners(entry.taken) BY <1>2
    <3> QED BY <3>1 DEF StreamInv, OwnerInv
  <2>3. PICK asked, got : asked = sent[m].body /\ asked = sent'[m].body /\ got = entry.frame.body
    BY <2>2
  <2>4. Means(asked, got) BY <2>1, <2>3
  <2>5. Means(asked, got)' BY <2>4, MeansOn
  <2>6. Means(sent[m].body, entry.frame.body)' BY <2>3, <2>5 DEF Means
  <2> QED BY <2>6 DEF UnderstoodFrom
<1> QED BY <1>1, <1>2

\* A message is sent.
LEMMA SendSense ==
  ASSUME StreamInv, SenseInv, NEW body \in Messages[reader], NEW memory \in Memory, Send(body, memory)
  PROVE  SenseInv'
<1> DEFINE m == Len(sent) + 1
<1>1. UNCHANGED <<reader, conn, buffer, parsing, parsed, chopped, stale, lost>> BY DEF Send
<1>2. PICK t \in Seq(Byte), bytes \in Seq(Octet) : Grows(sent, sent', m, bytes, t) /\ wire' = wire \o t
  BY SendGrows
<1>3. /\ wire \in Seq(Byte) /\ buffer \in Seq(Byte) /\ Stream \in Seq(Byte)
      /\ Len(wire) \in Nat /\ Len(buffer) \in Nat /\ Len(sent) \in Nat
  BY StreamForm
<1>4. /\ \A k \in 1..Len(sent) : sent'[k] = sent[k]
      /\ sent'[m].bytes = bytes /\ Len(bytes) \in Nat /\ Len(t) = Len(bytes)
      /\ \A j \in 1..Len(bytes) : t[j].msg = m /\ t[j].at = j
  BY <1>2 DEF Grows
<1>5. \A i \in 1..Len(Stream) : Stream[i].msg \in 1..Len(sent) BY DEF SenseInv, Chained, OfMessage
<1>6. Chained(Stream', sent')
  <2>1. (buffer \o wire) \o t = buffer \o (wire \o t)
    <3>1. wire \in Seq(Byte) /\ buffer \in Seq(Byte) /\ t \in Seq(Byte) BY <1>3
    <3> QED BY <3>1, ConcatAssociative
  <2>2. Stream' = Stream \o t BY <1>1, <1>2, <2>1 DEF Stream
  <2>3. Chained(Stream, sent) BY DEF SenseInv
  <2>4. Chained(Stream \o t, sent')
    <3>1. Stream \in Seq(Byte) /\ t \in Seq(Byte) BY <1>3
    <3>2. Grows(sent, sent', m, bytes, t) BY <1>2
    <3> QED BY <2>3, <3>1, <3>2, ChainedMore
  <2> QED BY <2>2, <2>4
<1>7. Continued'
  <2>1. /\ Len(wire') = Len(wire) + Len(t)
        /\ \A i \in 1..Len(wire) : i \in 1..Len(wire') /\ wire'[i] = wire[i]
        /\ \A j \in 1..Len(t) : Len(wire) + j \in 1..Len(wire') /\ wire'[Len(wire) + j] = t[j]
        /\ \A i \in 1..Len(wire') : i \in 1..Len(wire) \/ \E j \in 1..Len(t) : i = Len(wire) + j
    <3> DEFINE wt == wire \o t
    <3>1. /\ wt \in Seq(Byte) /\ Len(wt) = Len(wire) + Len(t)
          /\ \A i \in 1..Len(wire) : i \in 1..Len(wt) /\ wt[i] = wire[i]
          /\ \A j \in 1..Len(t) : Len(wire) + j \in 1..Len(wt) /\ wt[Len(wire) + j] = t[j]
          /\ \A i \in 1..Len(wt) : i \in 1..Len(wire) \/ \E j \in 1..Len(t) : i = Len(wire) + j
      BY <1>2, <1>3, ConcatType
    <3>2. wire' = wt BY <1>2
    <3> HIDE DEF wt
    <3> QED BY <3>1, <3>2
  <2>2. ASSUME NEW i \in 1..Len(wire'), wire'[i].at < Len(sent'[wire'[i].msg].bytes)
        PROVE  i < Len(wire') /\ wire'[i + 1].msg = wire'[i].msg
    <3>1. CASE i \in 1..Len(wire)
      <4>1. Stream[Len(buffer) + i] = wire[i] /\ Len(buffer) + i \in 1..Len(Stream) BY <3>1, StreamForm
      <4>2. wire[i].msg \in 1..Len(sent) /\ wire'[i] = wire[i] BY <1>5, <2>1, <3>1, <4>1
      <4>3. i < Len(wire) /\ wire[i + 1].msg = wire[i].msg
        BY <1>4, <2>2, <3>1, <4>2 DEF SenseInv, Continued
      <4>4. i + 1 \in 1..Len(wire) BY <1>3, <4>3
      <4> QED BY <1>3, <1>4, <2>1, <4>2, <4>3, <4>4
    <3>2. CASE \E j \in 1..Len(t) : i = Len(wire) + j
      <4>1. PICK j \in 1..Len(bytes) : i = Len(wire) + j BY <1>4, <3>2
      <4>2. wire'[i].msg = m /\ wire'[i].at = j BY <1>4, <2>1, <4>1
      <4>3. j < Len(bytes) BY <1>4, <2>2, <4>2
      <4>4. j + 1 \in 1..Len(bytes) /\ Len(wire) + (j + 1) = i + 1 BY <1>3, <1>4, <4>1, <4>3
      <4>5. wire'[i + 1].msg = m
        <5>1. wire'[Len(wire) + (j + 1)] = t[j + 1] BY <1>4, <2>1, <4>4
        <5>2. t[j + 1].msg = m BY <1>4, <4>4
        <5> QED BY <4>4, <5>1, <5>2
      <4>6. i < Len(wire')
        <5>1. PICK n \in Nat : n = Len(t) /\ n = Len(bytes) BY <1>4
        <5>2. Len(wire') = Len(wire) + n /\ i = Len(wire) + j /\ j < n BY <2>1, <4>1, <4>3, <5>1
        <5> QED BY <1>3, <4>1, <5>1, <5>2
      <4> QED BY <4>2, <4>5, <4>6
    <3> QED BY <2>1, <3>1, <3>2
  <2> QED BY <2>2 DEF Continued
<1>8. SoundEdge'
  <2> DEFINE byte == buffer[Len(buffer)]
  <2>1. Len(buffer) # 0 => sent'[byte.msg] = sent[byte.msg]
    <3> SUFFICES ASSUME Len(buffer) # 0 PROVE byte.msg \in 1..Len(sent) BY <1>4
    <3>1. Len(buffer) \in 1..Len(buffer) BY <1>3
    <3>2. Len(buffer) \in 1..Len(Stream) /\ Stream[Len(buffer)] = byte BY <3>1, StreamForm
    <3> QED BY <1>5, <3>2
  <2> QED BY <1>1, <2>1 DEF SenseInv, SoundEdge, ParsesEarly
<1>9. Understood'
  <2>1. \A i \in 1..Len(parsed) : UnderstoodFrom(parsed[i])'
    <3> SUFFICES ASSUME NEW i \in 1..Len(parsed) PROVE UnderstoodFrom(parsed[i])' OBVIOUS
    <3>1. PICK entry : entry = parsed[i] /\ entry = parsed'[i] BY <1>1
    <3> QED BY <1>1, <1>4, <3>1, UnderstoodOn DEF SenseInv
  <2> QED BY <1>1, <2>1 DEF Understood
<1> QED BY <1>6, <1>7, <1>8, <1>9 DEF SenseInv

\* s ends with the last element of t.
LastOf(s, t) == Len(t) # 0 => Len(s) # 0 /\ s[Len(s)] = t[Len(t)]

\* So does what t is put behind.
LEMMA LastOfConcat ==
  ASSUME NEW S, NEW s \in Seq(S), NEW t \in Seq(S)
  PROVE  LastOf(s \o t, t)
<1> DEFINE st == s \o t
<1>1. /\ st \in Seq(S) /\ Len(st) = Len(s) + Len(t)
      /\ \A i \in 1..Len(s) : i \in 1..Len(st) /\ st[i] = s[i]
      /\ \A j \in 1..Len(t) : Len(s) + j \in 1..Len(st) /\ st[Len(s) + j] = t[j]
      /\ \A i \in 1..Len(st) : i \in 1..Len(s) \/ \E j \in 1..Len(t) : i = Len(s) + j
  BY ConcatType
<1> HIDE DEF st
<1>2. Len(s) \in Nat /\ Len(t) \in Nat BY LenProperties
<1>3. Len(t) # 0 => Len(t) \in 1..Len(t) /\ Len(st) # 0 BY <1>1, <1>2
<1> QED BY <1>1, <1>3 DEF LastOf, st

\* A chunk arrives.
LEMMA DataEventSense ==
  ASSUME StreamInv, SenseInv, NEW k \in 1..Len(wire), DataEvent(k)
  PROVE  SenseInv'
<1>1. /\ buffer' = buffer \o SubSeq(wire, 1, k) /\ wire' = SubSeq(wire, k + 1, Len(wire))
      /\ UNCHANGED <<reader, conn, sent, parsed, stale, lost>>
      /\ chopped' = (chopped \/ ( /\ k < Len(wire) /\ wire[k].msg = wire[k + 1].msg
                                  /\ ParsesEarly(sent[wire[k].msg].body, wire[k].at)))
  BY DEF DataEvent
<1>2. buffer \in Seq(Byte) /\ wire \in Seq(Byte) /\ Len(buffer) \in Nat /\ Len(wire) \in Nat
  BY StreamForm
<1>3. Stream' = Stream
  <2>1. (buffer \o SubSeq(wire, 1, k)) \o SubSeq(wire, k + 1, Len(wire)) = buffer \o wire
    BY <1>2, Divided
  <2> QED BY <1>1, <2>1 DEF Stream
<1>4. /\ Len(wire') = IF k <= Len(wire) THEN Len(wire) - k ELSE 0
      /\ \A i \in 1..Len(wire') : k + i \in 1..Len(wire) /\ wire'[i] = wire[k + i]
  <2>1. k \in Nat /\ wire \in Seq(Byte) BY <1>2
  <2> QED BY <1>1, <2>1, RestType
<1>5. Continued'
  <2>1. ASSUME NEW i \in 1..Len(wire'), wire'[i].at < Len(sent[wire'[i].msg].bytes)
        PROVE  i < Len(wire') /\ wire'[i + 1].msg = wire'[i].msg
    <3>1. Len(wire') = Len(wire) - k /\ Len(wire') \in Nat BY <1>2, <1>4
    <3>2. k + i \in 1..Len(wire) /\ wire'[i] = wire[k + i] BY <1>4
    <3>3. k + i < Len(wire) /\ wire[(k + i) + 1].msg = wire[k + i].msg
      BY <2>1, <3>2 DEF SenseInv, Continued
    <3>4. i + 1 \in 1..Len(wire') /\ k + (i + 1) = (k + i) + 1 BY <1>2, <3>1, <3>3
    <3>5. wire'[i + 1] = wire[(k + i) + 1] BY <1>4, <3>4
    <3> QED BY <1>2, <3>1, <3>2, <3>3, <3>5
  <2> QED BY <1>1, <2>1 DEF Continued
<1>6. Len(buffer') # 0 /\ buffer'[Len(buffer')] = wire[k]
  <2> DEFINE chunk == Part(wire, 1, k)
  <2>1. SubSeq(wire, 1, k) = chunk BY <1>2, ChunkIsPart
  <2>2. chunk \in Seq(Byte) /\ IsFront(chunk, wire, k)
    <3>1. k \in Nat /\ wire \in Seq(Byte) BY <1>2
    <3> QED BY <3>1, FirstBytes
  <2> HIDE DEF chunk
  <2>3. Len(chunk) = k BY <1>2, <2>2 DEF IsFront
  <2>4. chunk[k] = wire[k]
    <3>1. k \in 1..Len(chunk) BY <1>2, <2>3
    <3> QED BY <2>2, <3>1 DEF IsFront
  <2>5. buffer \in Seq(Byte) /\ chunk \in Seq(Byte) BY <1>2, <2>2
  <2>6. LastOf(buffer \o chunk, chunk) BY <2>5, LastOfConcat
  <2>7. buffer' = buffer \o chunk BY <1>1, <2>1
  <2>8. k \in Nat /\ k # 0 BY <1>2
  <2> QED BY <2>3, <2>4, <2>6, <2>7, <2>8 DEF LastOf
<1>7. SoundEdge'
  <2> SUFFICES ASSUME ~chopped', wire[k].at < Len(sent[wire[k].msg].bytes)
               PROVE  ~ParsesEarly(sent[wire[k].msg].body, wire[k].at)
    BY <1>1, <1>6 DEF SoundEdge, ParsesEarly
  <2>1. k < Len(wire) /\ wire[k + 1].msg = wire[k].msg BY DEF SenseInv, Continued
  <2> QED BY <1>1, <2>1
<1>8. Understood'
  <2>1. \A i \in 1..Len(parsed) : UnderstoodFrom(parsed[i])'
    <3> SUFFICES ASSUME NEW i \in 1..Len(parsed) PROVE UnderstoodFrom(parsed[i])' OBVIOUS
    <3>1. PICK entry : entry = parsed[i] /\ entry = parsed'[i] BY <1>1
    <3> QED BY <1>1, <3>1, UnderstoodOn DEF SenseInv
  <2> QED BY <1>1, <2>1 DEF Understood
<1>9. Chained(Stream', sent') BY <1>1, <1>3 DEF SenseInv
<1> QED BY <1>5, <1>7, <1>8, <1>9 DEF SenseInv

\* The connection is replaced.
LEMMA ReconnectSense ==
  ASSUME StreamInv, SenseInv, Reconnect
  PROVE  SenseInv'
<1>1. /\ wire' = <<>> /\ buffer' = IF reader = "tcpServer" THEN <<>> ELSE buffer
      /\ UNCHANGED <<reader, sent, parsing, parsed, chopped>>
  BY DEF Reconnect
<1>2. /\ buffer \in Seq(Byte) /\ Len(buffer) \in Nat /\ Len(Stream) \in Nat
      /\ \A i \in 1..Len(buffer) : i \in 1..Len(Stream) /\ Stream[i] = buffer[i]
  BY StreamForm, LenProperties
<1>3. <<>> \in Seq(Byte) /\ Len(<<>>) = 0 BY EmptySeq
<1>4. Stream' = buffer' /\ buffer' \in Seq(Byte)
  <2>1. buffer' \in Seq(Byte) BY <1>1, <1>2, <1>3
  <2>2. buffer' \o <<>> = buffer' BY <2>1, ConcatEmptySeq
  <2> QED BY <1>1, <2>1, <2>2 DEF Stream
<1>5. Chained(buffer, sent)
  <2>1. \A i \in 1..Len(buffer) : 0 + i \in 1..Len(Stream) /\ buffer[i] = Stream[0 + i] BY <1>2
  <2>2. PICK d \in Nat : d = 0 OBVIOUS
  <2>3. \A i \in 1..Len(buffer) : d + i \in 1..Len(Stream) /\ buffer[i] = Stream[d + i] BY <2>1, <2>2
  <2>4. Chained(Stream, sent) BY DEF SenseInv
  <2> QED BY <1>2, <2>3, <2>4, ChainedPart
<1>6. Chained(Stream', sent')
  <2>1. CASE buffer' = <<>> BY <1>1, <1>3, <1>4, <2>1 DEF Chained
  <2>2. CASE buffer' = buffer BY <1>1, <1>4, <1>5, <2>2
  <2> QED BY <1>1, <2>1, <2>2
<1>7. Continued' BY <1>1, <1>3 DEF Continued
<1>8. SoundEdge'
  <2>1. CASE buffer' = <<>> BY <1>3, <2>1 DEF SoundEdge
  <2>2. CASE buffer' = buffer BY <1>1, <2>2 DEF SenseInv, SoundEdge, ParsesEarly
  <2> QED BY <1>1, <2>1, <2>2
<1>9. Understood'
  <2>1. \A i \in 1..Len(parsed) : UnderstoodFrom(parsed[i])'
    <3> SUFFICES ASSUME NEW i \in 1..Len(parsed) PROVE UnderstoodFrom(parsed[i])' OBVIOUS
    <3>1. PICK entry : entry = parsed[i] /\ entry = parsed'[i] BY <1>1
    <3> QED BY <1>1, <3>1, UnderstoodOn DEF SenseInv
  <2> QED BY <1>1, <2>1 DEF Understood
<1> QED BY <1>6, <1>7, <1>8, <1>9 DEF SenseInv

\* What is read of one message, from its first byte on, is understood.
LEMMA FrontUnderstood ==
  ASSUME StreamInv, SentAsEncoded, SenseInv, InFront # Null, NEW taken, NEW m
  PROVE  /\ taken = Part(buffer, 1, InFront.consumed)
         /\ taken[1].at = 1 /\ m = taken[1].msg /\ Owners(taken) = {m}
         => Means(sent[m].body, InFront.body)
<1> DEFINE b == Values(buffer)
<1>1. /\ buffer \in Seq(Byte) /\ Stream \in Seq(Byte) /\ Len(buffer) \in Nat /\ Len(Stream) \in Nat
      /\ Len(sent) \in Nat /\ \A i \in 1..Len(buffer) : i \in 1..Len(Stream) /\ Stream[i] = buffer[i]
  BY StreamForm, LenProperties
<1>2. /\ b \in Seq(Octet) /\ Len(b) = Len(buffer)
      /\ \A i \in 1..Len(buffer) : b[i] = buffer[i].value
  BY <1>1, ValuesType
<1>3. InFront = Parse(b) /\ reader \in Readers BY DEF InFront, StreamInv, StreamTypes
<1> HIDE DEF b
<1>4. PICK n \in Nat : n = InFront.consumed /\ n >= 5 BY <1>2, <1>3, FrameType
<1>5. /\ Part(buffer, 1, n) \in Seq(Byte) /\ IsFront(Part(buffer, 1, n), buffer, n)
      /\ IsFront(Part(b, 1, n), b, n)
  <2>1. buffer \in Seq(Byte) /\ b \in Seq(Octet) BY <1>1, <1>2
  <2>2. Part(buffer, 1, n) \in Seq(Byte) BY <2>1, OwnersOfPart
  <2>3. IsFront(Part(buffer, 1, n), buffer, n) BY <2>1, FirstBytes
  <2>4. IsFront(Part(b, 1, n), b, n) BY <2>1, FirstBytes
  <2> QED BY <2>2, <2>3, <2>4
<1> SUFFICES ASSUME taken = Part(buffer, 1, n), taken[1].at = 1, m = taken[1].msg, Owners(taken) = {m}
             PROVE  Means(sent[m].body, InFront.body)
  BY <1>4
<1>6. /\ taken \in Seq(Byte) /\ Len(taken) = IF n <= Len(buffer) THEN n ELSE Len(buffer)
      /\ \A i \in 1..Len(taken) : i \in 1..Len(buffer) /\ taken[i] = buffer[i]
  BY <1>5 DEF IsFront
<1>7. PICK t \in Nat : t = Len(taken) BY <1>1, <1>6
<1>8. \A i \in 1..t : i \in 1..Len(buffer) /\ taken[i] = buffer[i] BY <1>6, <1>7
<1>9. t = Len(Part(b, 1, n)) BY <1>2, <1>5, <1>6, <1>7 DEF IsFront
<1>10. t >= 1 /\ t <= Len(buffer)
  <2>1. t >= 1
    <3>1. t # 0
      <4>1. m \in Owners(taken) OBVIOUS
      <4>2. PICK i \in 1..Len(taken) : taken[i].msg = m BY <1>6, <4>1, OwnersByIndex
      <4> QED BY <1>7, <4>2
    <3> QED BY <3>1
  <2>2. t \in 1..t BY <2>1
  <2> QED BY <1>1, <1>8, <2>1, <2>2
<1>11. \A i \in 1..t : taken[i].msg = m BY <1>6, <1>7, OwnersByIndex
<1>12. \A i \in 1..t : Stream[i] = taken[i] /\ i \in 1..Len(Stream) BY <1>1, <1>8
<1> DEFINE e == sent[m].bytes
<1>13. m \in 1..Len(sent) /\ \A i \in 1..t : taken[i].at = i /\ i \in 1..Len(e) /\ taken[i].value = e[i]
  <2>1. 1 \in 1..t /\ t \in 1..t BY <1>10
  <2>2. Stream[1] = taken[1] /\ t \in 1..Len(Stream) BY <1>12, <2>1
  <2>3. Stream[1].at = 1 /\ Stream[1].msg = m BY <2>2
  <2>4. \A i \in 1..t : Stream[i].msg = Stream[1].msg BY <1>11, <1>12, <2>3
  <2>5. Chained(Stream, sent) BY DEF SenseInv
  <2>6. /\ Stream[1].msg \in 1..Len(sent)
        /\ \A i \in 1..t : /\ Stream[i].at = i /\ i \in 1..Len(sent[Stream[1].msg].bytes)
                           /\ Stream[i].value = sent[Stream[1].msg].bytes[i]
    BY <1>1, <2>2, <2>3, <2>4, <2>5, ChainedFront
  <2> QED BY <1>12, <2>3, <2>6
<1>14. e \in Seq(Octet) /\ Len(e) \in Nat BY <1>13, StreamForm
<1>15. PICK memory \in Memory : e = Encoded(reader, m, sent[m].body, memory)
  BY <1>13 DEF SentAsEncoded
<1>16. sent[m].body \in Messages[reader] /\ m \in 1..MaxMessages
  <2>1. sent[m] \in Message BY <1>13, ElementOfSeq DEF StreamInv, StreamTypes
  <2>2. m \in 1..MaxMessages BY <1>1, <1>13, StreamAssumption DEF StreamInv, StreamTypes
  <2> QED BY <2>1, <2>2 DEF Message
<1> HIDE DEF e
<1>17. SaysOf(e, sent[m].body, b, t) BY <1>2, <1>3, <1>15, <1>16, EncodedSays
<1>18. t <= Len(e) /\ \A i \in 1..t : b[i] = e[i]
  <2>1. t \in 1..t BY <1>10
  <2>2. t \in 1..Len(e) BY <1>13, <2>1
  <2> QED BY <1>2, <1>8, <1>13, <1>14, <2>2
<1>19. t = Len(b) /\ Len(b) < Len(e) /\ ParsesEarly(sent[m].body, Len(b)) => chopped
  <2> SUFFICES ASSUME t = Len(b), Len(b) < Len(e), ParsesEarly(sent[m].body, Len(b)), ~chopped
               PROVE  FALSE
    OBVIOUS
  <2>1. t \in 1..t /\ t = Len(buffer) BY <1>2, <1>10
  <2>2. buffer[Len(buffer)].msg = m /\ buffer[Len(buffer)].at = t BY <1>8, <1>11, <1>13, <2>1
  <2>3. Len(buffer) # 0 BY <1>10, <2>1
  <2> QED BY <1>2, <2>1, <2>2, <2>3 DEF SenseInv, SoundEdge, e
<1> QED BY <1>3, <1>4, <1>9, <1>17, <1>18, <1>19 DEF SaysOf

\* A frame is taken off the buffer.
LEMMA ParseOneSense ==
  ASSUME StreamInv, SentAsEncoded, SenseInv, ParseOne, StreamInv'
  PROVE  SenseInv'
<1> DEFINE n == InFront.consumed
           taken == Part(buffer, 1, n)
           new == [taken |-> taken, frame |-> InFront]
<1>1. /\ InFront # Null /\ parsed' = Append(parsed, new) /\ buffer' = SubSeq(buffer, n + 1, Len(buffer))
      /\ UNCHANGED <<reader, conn, wire, sent, parsing, chopped, stale, lost>>
  BY DEF ParseOne
<1>2. /\ buffer \in Seq(Byte) /\ wire \in Seq(Byte) /\ Stream \in Seq(Byte)
      /\ Len(buffer) \in Nat /\ Len(wire) \in Nat /\ Len(Stream) = Len(buffer) + Len(wire)
      /\ \A i \in 1..Len(buffer) : i \in 1..Len(Stream) /\ Stream[i] = buffer[i]
      /\ \A j \in 1..Len(wire) : Len(buffer) + j \in 1..Len(Stream) /\ Stream[Len(buffer) + j] = wire[j]
      /\ Len(parsed) \in Nat
  BY StreamForm
<1>3. n \in Nat
  <2>1. Values(buffer) \in Seq(Octet) BY <1>2, ValuesType
  <2>2. reader \in Readers BY DEF StreamInv, StreamTypes
  <2> QED BY <1>1, <2>1, <2>2, FrameType DEF InFront
<1>4. new.taken = taken /\ new.frame = InFront OBVIOUS
<1>5. /\ Len(parsed') = Len(parsed) + 1 /\ parsed'[Len(parsed) + 1] = new
      /\ \A i \in 1..Len(parsed) : parsed'[i] = parsed[i]
  <2>1. \E P : parsed \in Seq(P) /\ new \in P
    <3> DEFINE Q == [taken : Seq(Byte), frame : Frames] \cup {new}
    <3>1. parsed \in Seq([taken : Seq(Byte), frame : Frames]) BY DEF StreamInv, StreamTypes
    <3> HIDE DEF new
    <3>2. parsed \in Seq(Q) BY <3>1, SeqMonotonic
    <3> QED BY <3>2
  <2>2. PICK P : parsed \in Seq(P) /\ new \in P BY <2>1
  <2> HIDE DEF new
  <2> QED BY <1>1, <2>2, AppendProperties
<1> HIDE DEF n
<1>6. /\ buffer' \in Seq(Byte) /\ Len(buffer') = IF n <= Len(buffer) THEN Len(buffer) - n ELSE 0
      /\ \A i \in 1..Len(buffer') : n + i \in 1..Len(buffer) /\ buffer'[i] = buffer[n + i]
  <2>1. n \in Nat /\ buffer \in Seq(Byte) BY <1>2, <1>3
  <2> QED BY <1>1, <2>1, RestType
<1>7. Chained(Stream', sent')
  <2> DEFINE st == buffer' \o wire
  <2>1. /\ st \in Seq(Byte) /\ Len(st) = Len(buffer') + Len(wire)
        /\ \A i \in 1..Len(buffer') : i \in 1..Len(st) /\ st[i] = buffer'[i]
        /\ \A j \in 1..Len(wire) : Len(buffer') + j \in 1..Len(st) /\ st[Len(buffer') + j] = wire[j]
        /\ \A i \in 1..Len(st) : i \in 1..Len(buffer') \/ \E j \in 1..Len(wire) : i = Len(buffer') + j
    <3>1. buffer' \in Seq(Byte) /\ wire \in Seq(Byte) BY <1>2, <1>6
    <3> QED BY <3>1, ConcatType
  <2>2. Stream' = st BY <1>1 DEF Stream
  <2> HIDE DEF st
  <2>3. PICK d \in Nat : d + Len(buffer') = Len(buffer) /\ (Len(buffer') # 0 => d = n)
    <3>1. CASE n <= Len(buffer)
      <4>1. Len(buffer') = Len(buffer) - n BY <1>6, <3>1
      <4>2. n + Len(buffer') = Len(buffer) BY <1>2, <1>3, <4>1
      <4> QED BY <1>3, <4>2
    <3>2. CASE ~(n <= Len(buffer))
      <4>1. Len(buffer') = 0 BY <1>6, <3>2
      <4>2. Len(buffer) + Len(buffer') = Len(buffer) BY <1>2, <4>1
      <4> QED BY <1>2, <4>1, <4>2
    <3> QED BY <3>1, <3>2
  <2>4. ASSUME NEW i \in 1..Len(st) PROVE d + i \in 1..Len(Stream) /\ st[i] = Stream[d + i]
    <3>1. CASE i \in 1..Len(buffer')
      <4>1. d = n BY <2>3, <3>1
      <4> QED BY <1>2, <1>6, <2>1, <3>1, <4>1
    <3>2. CASE \E j \in 1..Len(wire) : i = Len(buffer') + j
      <4>1. PICK j \in 1..Len(wire) : i = Len(buffer') + j BY <3>2
      <4>2. Len(buffer') \in Nat BY <1>6, LenProperties
      <4>3. d + i = Len(buffer) + j BY <2>3, <4>1, <4>2
      <4> QED BY <1>2, <2>1, <4>1, <4>3
    <3> QED BY <2>1, <3>1, <3>2
  <2>5. Len(st) \in Nat /\ Len(Stream) \in Nat BY <1>2, <2>1, LenProperties
  <2>6. Chained(Stream, sent) BY DEF SenseInv
  <2>7. Chained(st, sent) BY <2>4, <2>5, <2>6, ChainedPart
  <2> QED BY <1>1, <2>2, <2>7
<1>8. Continued' BY <1>1 DEF SenseInv, Continued
<1>9. SoundEdge'
  <2>1. CASE Len(buffer') = 0 BY <2>1 DEF SoundEdge
  <2>2. CASE Len(buffer') # 0
    <3>1. Len(buffer') \in Nat BY <1>6, LenProperties
    <3>2. n <= Len(buffer) /\ n + Len(buffer') = Len(buffer) /\ Len(buffer) # 0
      BY <1>2, <1>3, <1>6, <2>2, <3>1
    <3>3. Len(buffer') \in 1..Len(buffer') BY <2>2, <3>1
    <3>4. buffer'[Len(buffer')] = buffer[Len(buffer)] BY <1>6, <3>2, <3>3
    <3> QED BY <1>1, <3>2, <3>4 DEF SenseInv, SoundEdge, ParsesEarly
  <2> QED BY <2>1, <2>2
<1>10. Understood'
  <2>1. ASSUME NEW i \in 1..Len(parsed') PROVE UnderstoodFrom(parsed[i])'
    <3>1. CASE i \in 1..Len(parsed)
      <4>1. PICK entry : entry = parsed[i] /\ entry = parsed'[i] BY <1>5, <3>1
      <4> QED BY <1>1, <3>1, <4>1, UnderstoodOn DEF SenseInv
    <3>2. CASE i = Len(parsed) + 1
      <4>1. parsed'[i] = new BY <1>5, <3>2
      <4>2. PICK k, got, m : k = taken /\ got = InFront.body /\ m = k[1].msg OBVIOUS
      <4>3. parsed'[i].taken = k /\ parsed'[i].frame.body = got BY <1>4, <4>1, <4>2
      <4>4. k[1].at = 1 /\ Owners(k) = {m} => Means(sent[m].body, got)
        <5> SUFFICES ASSUME k[1].at = 1, Owners(k) = {m} PROVE Means(sent[m].body, got) OBVIOUS
        <5>1. k = Part(buffer, 1, InFront.consumed) BY <4>2 DEF n
        <5>2. Means(sent[m].body, InFront.body) BY <1>1, <4>2, <5>1, FrontUnderstood
        <5> QED BY <4>2, <5>2
      <4>5. Means(sent[m].body, got) => Means(sent[m].body, got)' BY <1>1 DEF Means
      <4> QED BY <4>2, <4>3, <4>4, <4>5 DEF UnderstoodFrom
    <3> QED BY <1>2, <1>5, <3>1, <3>2
  <2> QED BY <2>1 DEF Understood
<1> QED BY <1>7, <1>8, <1>9, <1>10 DEF SenseInv

\* The invariant is inductive, for every reader.
LEMMA SensePreserved ==
  ASSUME StreamInv, SentAsEncoded, SenseInv, [Next]_vars, StreamInv'
  PROVE  SenseInv'
<1>1. ASSUME NEW body \in Messages[reader], NEW memory \in Memory, Send(body, memory)
      PROVE  SenseInv'
  BY <1>1, SendSense
<1>2. ASSUME NEW k \in 1..Len(wire), DataEvent(k) PROVE SenseInv'
  BY <1>2, DataEventSense
<1>3. CASE ParseOne BY <1>3, ParseOneSense
<1>4. CASE WaitForMore \/ UNCHANGED vars
  <2>1. UNCHANGED <<reader, wire, sent, buffer, parsed, chopped>>
    BY <1>4 DEF WaitForMore, vars
  <2>2. Stream' = Stream BY <2>1 DEF Stream
  <2>3. Continued' /\ SoundEdge' BY <2>1 DEF SenseInv, Continued, SoundEdge, ParsesEarly
  <2>4. \A i \in 1..Len(parsed) : UnderstoodFrom(parsed[i])'
    <3> SUFFICES ASSUME NEW i \in 1..Len(parsed) PROVE UnderstoodFrom(parsed[i])' OBVIOUS
    <3>1. PICK entry : entry = parsed[i] /\ entry = parsed'[i] BY <2>1
    <3> QED BY <2>1, <3>1, UnderstoodOn DEF SenseInv
  <2> QED BY <2>1, <2>2, <2>3, <2>4 DEF SenseInv, Understood
<1>5. CASE Reconnect BY <1>5, ReconnectSense
<1> QED BY <1>1, <1>2, <1>3, <1>4, <1>5 DEF Next

\* It holds of an empty stream.
LEMMA SenseStarts == Init => SenseInv
<1> SUFFICES ASSUME Init PROVE SenseInv OBVIOUS
<1>1. wire = <<>> /\ buffer = <<>> /\ Len(wire) = 0 /\ Len(buffer) = 0 /\ Len(parsed) = 0
  BY EmptySeq DEF Init
<1>2. Stream = <<>> /\ Len(Stream) = 0
  <2>1. <<>> \in Seq(Byte) /\ Len(<<>>) = 0 BY EmptySeq
  <2>2. <<>> \o <<>> = <<>> BY <2>1, ConcatEmptySeq
  <2> QED BY <1>1, <2>1, <2>2 DEF Stream
<1> QED BY <1>1, <1>2 DEF SenseInv, Chained, Continued, SoundEdge, Understood

\* However the stream is cut, torn or taken up again, what any of the readers
\* takes for a message that begins where one begins, and holds bytes of that one
\* only, means what its sender asked for, cut short at worst.
THEOREM StreamValuesAsAsked == Spec => []ValuesAsAsked
<1>1. StreamInv /\ SenseInv => ValuesAsAsked
  <2>1. StreamInv => DOMAIN parsed = 1..Len(parsed) BY LenProperties DEF StreamInv, StreamTypes
  <2> QED BY <2>1 DEF SenseInv, Understood, UnderstoodFrom, ValuesAsAsked
<1>2. Init => SenseInv BY SenseStarts
<1>3. (StreamInv /\ WholeInv) /\ (StreamInv /\ WholeInv)' /\ SenseInv /\ [Next]_vars => SenseInv'
  <2>1. WholeInv => SentAsEncoded BY DEF WholeInv
  <2> QED BY <2>1, SensePreserved
<1> QED BY <1>1, <1>2, <1>3, TcpStreamInvariant, PTL DEF Spec
=============================================================================
