----------------------- MODULE RtuRequestStreamProofs -----------------------
(* The RTU server's parser, proved for every set of frames, bursts and       *)
(* chunks and every MaxAdu: its types, the bound on its buffer, what a       *)
(* device identification does to it, the order of what it accepts, and what  *)
(* makes it lose a frame.                                                    *)
EXTENDS RtuRequestStream, SequenceTheorems, TLAPS

-----------------------------------------------------------------------------
(* Sequences.                                                                *)

\* What is left of a sequence when its first n elements are taken off.
LEMMA RestOfSeq ==
  ASSUME NEW S, NEW s \in Seq(S), NEW n \in 0..Len(s)
  PROVE  /\ SubSeq(s, n + 1, Len(s)) \in Seq(S)
         /\ Len(SubSeq(s, n + 1, Len(s))) = Len(s) - n
         /\ \A i \in 1..(Len(s) - n) : SubSeq(s, n + 1, Len(s))[i] = s[i + n]
<1>1. Len(s) \in Nat BY LenProperties
<1>2. \A i \in (n + 1)..Len(s) : s[i] \in S BY <1>1, ElementOfSeq
<1>3. /\ SubSeq(s, n + 1, Len(s)) \in Seq(S)
      /\ Len(SubSeq(s, n + 1, Len(s))) = IF n + 1 <= Len(s) THEN Len(s) - (n + 1) + 1 ELSE 0
      /\ \A i \in 1..(Len(s) - (n + 1) + 1) :
           SubSeq(s, n + 1, Len(s))[i] = s[(n + 1) + i - 1]
  BY <1>1, <1>2, SubSeqProperties
<1>4. \A i \in 1..(Len(s) - n) : (n + 1) + i - 1 = i + n BY <1>1
<1> QED BY <1>1, <1>3, <1>4

\* The first n elements of a sequence.
LEMMA FrontOfSeq ==
  ASSUME NEW S, NEW s \in Seq(S), NEW n \in 0..Len(s)
  PROVE  /\ SubSeq(s, 1, n) \in Seq(S) /\ Len(SubSeq(s, 1, n)) = n
         /\ \A i \in 1..n : SubSeq(s, 1, n)[i] = s[i]
<1>1. Len(s) \in Nat BY LenProperties
<1>2. \A i \in 1..n : s[i] \in S BY <1>1, ElementOfSeq
<1>3. /\ SubSeq(s, 1, n) \in Seq(S)
      /\ Len(SubSeq(s, 1, n)) = IF 1 <= n THEN n - 1 + 1 ELSE 0
      /\ \A i \in 1..(n - 1 + 1) : SubSeq(s, 1, n)[i] = s[1 + i - 1]
  BY <1>1, <1>2, SubSeqProperties
<1> QED BY <1>1, <1>3

\* Cutting a sequence in two loses nothing.
LEMMA Cut ==
  ASSUME NEW S, NEW s \in Seq(S), NEW t \in Seq(S), NEW n \in 0..Len(t)
  PROVE  (s \o SubSeq(t, 1, n)) \o SubSeq(t, n + 1, Len(t)) = s \o t
<1>1. Len(t) \in Nat BY LenProperties
<1> DEFINE a == SubSeq(t, 1, n)
           b == SubSeq(t, n + 1, Len(t))
<1>2. a \in Seq(S) /\ Len(a) = n /\ \A i \in 1..n : a[i] = t[i] BY FrontOfSeq
<1>3. /\ b \in Seq(S) /\ Len(b) = Len(t) - n
      /\ \A i \in 1..(Len(t) - n) : b[i] = t[i + n]
  BY RestOfSeq
<1> HIDE DEF a, b
<1>4. /\ a \o b \in Seq(S) /\ Len(a \o b) = Len(a) + Len(b)
      /\ \A i \in 1..(Len(a) + Len(b)) :
           (a \o b)[i] = IF i <= Len(a) THEN a[i] ELSE b[i - Len(a)]
  BY <1>2, <1>3, ConcatProperties
<1>5. a \o b = t
  <2> DEFINE c == a \o b
  <2>0. \A i \in 1..(Len(a) + Len(b)) : c[i] = IF i <= Len(a) THEN a[i] ELSE b[i - Len(a)]
    BY <1>4
  <2>1. c \in Seq(S) /\ Len(c) = Len(t) BY <1>1, <1>2, <1>3, <1>4
  <2> HIDE DEF c
  <2>2. \A i \in 1..Len(t) : c[i] = t[i]
    <3> TAKE i \in 1..Len(t)
    <3>1. CASE i <= n
      <4>1. i \in 1..n /\ i \in 1..(Len(a) + Len(b)) /\ i <= Len(a) BY <3>1, <1>1, <1>2, <1>3
      <4> QED BY <4>1, <1>2, <2>0
    <3>2. CASE n < i
      <4>1. PICK j \in 1..(Len(t) - n) : j = i - n BY <3>2, <1>1
      <4>2. i \in 1..(Len(a) + Len(b)) /\ ~(i <= Len(a)) BY <3>2, <1>1, <1>2, <1>3
      <4>3. c[i] = b[j] BY <4>1, <4>2, <1>2, <2>0
      <4>4. j + n = i BY <4>1, <1>1
      <4>5. b[j] = t[i] BY <4>4, <1>3
      <4> QED BY <4>3, <4>5
    <3> QED BY <3>1, <3>2, <1>1
  <2>3. c = t BY <2>1, <2>2, SeqEqual
  <2> QED BY <2>3 DEF c
<1>6. (s \o a) \o b = s \o (a \o b) BY <1>2, <1>3, ConcatAssociative
<1> QED BY <1>5, <1>6 DEF a, b

\* The elements of a sequence with one more in front.
LEMMA RangeOfCons ==
  ASSUME NEW S, NEW s \in Seq(S), NEW e \in S
  PROVE  /\ <<e>> \o s \in Seq(S) /\ Range(<<e>> \o s) = {e} \cup Range(s)
         /\ Len(<<e>> \o s) = Len(s) + 1 /\ Tail(<<e>> \o s) = s /\ Head(<<e>> \o s) = e
<1> DEFINE one == <<e>>
<1>0. one \in Seq(S) /\ Len(one) = 1 /\ one[1] = e OBVIOUS
<1> HIDE DEF one
<1>1. Range(one) = {e}
  <2>1. Range(one) = {one[i] : i \in 1..1} BY <1>0, RangeEquality
  <2> QED BY <1>0, <2>1
<1>2. Len(s) \in Nat BY LenProperties
<1>3. /\ one \o s \in Seq(S) /\ Len(one \o s) = Len(s) + 1
      /\ \A i \in 1..(1 + Len(s)) : (one \o s)[i] = IF i <= 1 THEN one[i] ELSE s[i - 1]
  BY <1>0, <1>2, ConcatProperties
<1>4. Range(one \o s) = {e} \cup Range(s) BY <1>0, <1>1, RangeConcatenation
<1>5. one \o s # <<>> BY <1>2, <1>3
<1>6. /\ Tail(one \o s) \in Seq(S) /\ Len(Tail(one \o s)) = Len(s)
      /\ \A i \in 1..Len(s) : Tail(one \o s)[i] = (one \o s)[i + 1]
  BY <1>2, <1>3, <1>5, HeadTailProperties
<1>7. Tail(one \o s) = s BY <1>2, <1>3, <1>6, SeqEqual
<1>8. Head(one \o s) = e
  <2>1. 1 \in 1..(1 + Len(s)) /\ Head(one \o s) = (one \o s)[1] BY <1>2, <1>3, <1>5
  <2> QED BY <2>1, <1>0, <1>3
<1> QED BY <1>3, <1>4, <1>7, <1>8 DEF one

\* The head and the other elements of a sequence.
LEMMA RangeOfTail ==
  ASSUME NEW S, NEW s \in Seq(S), s # <<>>
  PROVE  /\ Head(s) \in S /\ Tail(s) \in Seq(S) /\ Len(Tail(s)) < Len(s)
         /\ Range(s) = {Head(s)} \cup Range(Tail(s))
<1>1. /\ Head(s) \in S /\ Tail(s) \in Seq(S) /\ Len(Tail(s)) = Len(s) - 1
      /\ \A i \in 1..Len(Tail(s)) : Tail(s)[i] = s[i + 1]
  BY HeadTailProperties
<1>2. Len(s) \in Nat \ {0} /\ Head(s) = s[1] BY EmptySeq
<1>3. /\ Range(s) = {s[i] : i \in 1..Len(s)}
      /\ Range(Tail(s)) = {Tail(s)[i] : i \in 1..Len(Tail(s))}
  BY <1>1, RangeEquality
<1>4. \A i \in 1..Len(s) : i = 1 \/ (i - 1 \in 1..Len(Tail(s)) /\ s[i] = Tail(s)[i - 1])
  BY <1>1, <1>2
<1>5. \A i \in 1..Len(Tail(s)) : i + 1 \in 1..Len(s) BY <1>1, <1>2
<1> DEFINE rest == Tail(s)
<1>6. Range(s) = {Head(s)} \cup Range(Tail(s))
  <2>1. ASSUME NEW i \in 1..Len(s) PROVE s[i] \in {Head(s)} \cup Range(rest)
    <3>1. CASE i = 1 BY <3>1, <1>2
    <3>2. CASE i # 1
      <4>1. PICK j : j = i - 1 OBVIOUS
      <4>2. j \in 1..Len(rest) /\ s[i] = rest[j] BY <3>2, <4>1, <1>4
      <4> QED BY <4>2, <1>3
    <3> QED BY <3>1, <3>2
  <2>2. Range(Tail(s)) \subseteq Range(s) BY <1>1, <1>3, <1>5
  <2>3. Head(s) \in Range(s) BY <1>2, <1>3
  <2>4. Range(s) \subseteq {Head(s)} \cup Range(Tail(s)) BY <2>1, <1>3 DEF rest
  <2> QED BY <2>2, <2>3, <2>4
<1> QED BY <1>1, <1>2, <1>6

-----------------------------------------------------------------------------
(* Types.                                                                    *)

\* The fields of a byte are numbers.
LEMMA ByteType ==
  ASSUME NEW x \in Byte
  PROVE  x.frame \in Nat /\ x.at \in Nat /\ x.claim \in Nat
<1>1. MaxAdu \in Nat /\ MaxFrames \in Nat BY FrameAssumption, LenProperties DEF MaxFrames
<1>2. x.frame \in 0..MaxFrames /\ x.at \in 0..MaxAdu /\ x.claim \in Nat BY DEF Byte
<1> QED BY <1>1, <1>2

\* Each frame has at least three bytes.
LEMMA FrameLength ==
  ASSUME NEW f \in 1..MaxFrames
  PROVE  /\ Len(Frames[f]) \in Nat /\ Len(Frames[f]) >= 3 /\ Len(Frames[f]) <= MaxAdu
         /\ Frames[f][2] = Len(Frames[f]) /\ f \in DOMAIN Frames
<1>1. DOMAIN Frames = 1..MaxFrames BY FrameAssumption, LenProperties DEF MaxFrames
<1>2. Len(Frames[f]) \in 3..MaxAdu /\ Frames[f][2] = Len(Frames[f]) /\ MaxAdu \in Nat
  BY <1>1, FrameAssumption
<1> QED BY <1>1, <1>2

\* A frame on the wire is a sequence of bytes.
LEMMA FrameBytesType ==
  ASSUME NEW f \in 1..MaxFrames
  PROVE  /\ FrameBytes(f) \in Seq(Byte) /\ Len(FrameBytes(f)) = Len(Frames[f])
         /\ \A i \in 1..Len(Frames[f]) : /\ FrameBytes(f)[i].frame = f /\ FrameBytes(f)[i].at = i
                                         /\ FrameBytes(f)[i].claim = Frames[f][i]
<1>1. /\ Frames[f] \in Seq(Nat) /\ Len(Frames[f]) \in 3..MaxAdu
      /\ DOMAIN Frames[f] = 1..Len(Frames[f]) /\ f \in DOMAIN Frames
  BY FrameAssumption, LenProperties, ElementOfSeq DEF MaxFrames
<1>2. \A i \in 1..Len(Frames[f]) :
        [frame |-> f, at |-> i, claim |-> Frames[f][i]] \in Byte
  BY <1>1, ElementOfSeq, FrameAssumption DEF Byte
<1>3. FrameBytes(f) \in [1..Len(Frames[f]) -> Byte] BY <1>1, <1>2 DEF FrameBytes
<1>4. \A i \in 1..Len(Frames[f]) : /\ FrameBytes(f)[i].frame = f /\ FrameBytes(f)[i].at = i
                                   /\ FrameBytes(f)[i].claim = Frames[f][i]
  BY <1>1 DEF FrameBytes
<1> QED BY <1>1, <1>3, <1>4

\* So is interference.
LEMMA InterferenceType ==
  ASSUME NEW b \in Bursts
  PROVE  /\ Interference(b) \in Seq(Byte) /\ Len(Interference(b)) = Len(b)
         /\ \A i \in 1..Len(b) : Interference(b)[i].frame = 0
<1>1. b \in Seq(Nat) /\ Len(b) \in Nat BY StreamAssumption, LenProperties
<1>2. \A i \in 1..Len(b) : [frame |-> 0, at |-> 0, claim |-> b[i]] \in Byte
  BY <1>1, ElementOfSeq, FrameAssumption, LenProperties DEF Byte, MaxFrames
<1>3. /\ Interference(b) \in [1..Len(b) -> Byte]
      /\ \A i \in 1..Len(b) : Interference(b)[i].frame = 0
  BY <1>2 DEF Interference
<1> QED BY <1>1, <1>3

\* What the parser reads off its buffer.
LEMMA AnnouncedType ==
  ASSUME buffer \in Seq(Byte)
  PROVE  /\ Announced \in Nat /\ Len(buffer) \in Nat
         /\ HasRequest => Announced \in 1..Len(buffer)
<1>1. Len(buffer) \in Nat BY LenProperties
<1>2. Len(buffer) >= 2 => buffer[2] \in Byte BY <1>1, ElementOfSeq
<1> QED BY <1>1, <1>2 DEF Announced, HasRequest, Byte

\* An intact frame carries the number of a frame, in each of its bytes.
LEMMA IntactFrame ==
  ASSUME buffer \in Seq(Byte), HasRequest, ~Corrupted
  PROVE  /\ buffer[1].frame \in 1..MaxFrames
         /\ Announced = Len(Frames[buffer[1].frame])
         /\ \A i \in 1..Announced : buffer[i].at = i /\ buffer[i].frame = buffer[1].frame
<1>1. PICK f \in DOMAIN Frames : Intact(f) BY DEF Corrupted
<1>2. DOMAIN Frames = 1..MaxFrames BY FrameAssumption, LenProperties DEF MaxFrames
<1>3. Announced \in 1..Len(buffer) /\ Len(buffer) \in Nat BY AnnouncedType
<1> QED BY <1>1, <1>2, <1>3 DEF Intact

\* Taking bytes off the buffer, one or all that were announced.
LEMMA DropType ==
  ASSUME buffer \in Seq(Byte), NEW n \in 0..Len(buffer)
  PROVE  Drop(n) \in Seq(Byte)
BY RestOfSeq DEF Drop

\* The actions outside the parser's loops keep the types.
LEMMA LineType ==
  ASSUME TypeOK,
         SendFrame \/ (\E b \in Bursts : Interfere(b)) \/ (\E k \in Chunks : DataEvent(k))
  PROVE  TypeOK'
<1> USE DEF TypeOK
<1>1. CASE SendFrame
  <2>1. sent' \in 1..MaxFrames
    BY <1>1, FrameAssumption, EmptySeq DEF SendFrame, MaxFrames
  <2>2. FrameBytes(sent') \in Seq(Byte) BY <2>1, FrameBytesType
  <2>3. wire' \in Seq(Byte) BY <1>1, <2>2, ConcatProperties DEF SendFrame
  <2> QED BY <1>1, <2>1, <2>3 DEF SendFrame
<1>2. ASSUME NEW b \in Bursts, Interfere(b) PROVE TypeOK'
  <2>1. Interference(b) \in Seq(Byte) BY InterferenceType
  <2>2. wire' \in Seq(Byte) BY <1>2, <2>1, ConcatProperties DEF Interfere
  <2>3. bursts' \in 0..MaxBursts BY <1>2, StreamAssumption DEF Interfere
  <2> QED BY <1>2, <2>2, <2>3 DEF Interfere
<1>3. ASSUME NEW k \in Chunks, DataEvent(k) PROVE TypeOK'
  <2>1. k \in 0..Len(wire) BY <1>3, StreamAssumption, LenProperties DEF DataEvent
  <2>2. SubSeq(wire, 1, k) \in Seq(Byte) BY <2>1, FrontOfSeq
  <2>3. buffer' \in Seq(Byte) BY <1>3, <2>2, ConcatProperties DEF DataEvent
  <2>4. wire' \in Seq(Byte) BY <1>3, <2>1, RestOfSeq DEF DataEvent
  <2>5. split' \in BOOLEAN BY <1>3 DEF DataEvent
  <2> QED BY <1>3, <2>3, <2>4, <2>5 DEF DataEvent
<1> QED BY <1>1, <1>2, <1>3

\* So do the two loops.
LEMMA LoopType ==
  ASSUME TypeOK, Loop
  PROVE  TypeOK'
<1> USE DEF TypeOK
<1>1. CASE WaitForMore \/ DescribeThrows
  BY <1>1 DEF WaitForMore, DescribeThrows, Parsing
<1>2. CASE DropGarbage
  BY <1>2, RangeOfTail DEF DropGarbage, Parsing
<1>3. CASE SkipCorrupted
  <2>1. Announced \in 1..Len(buffer) /\ Len(buffer) \in Nat
    BY <1>3, AnnouncedType DEF SkipCorrupted
  <2>2. buffer # <<>> BY <2>1
  <2>3. Drop(Announced) \in Seq(Byte) /\ Tail(buffer) \in Seq(Byte)
    BY <2>1, <2>2, DropType, RangeOfTail
  <2> QED BY <1>3, <2>3 DEF SkipCorrupted, Parsing
<1>4. CASE Accept
  <2>1. Announced \in 1..Len(buffer) /\ Len(buffer) \in Nat /\ buffer[1].frame \in 1..MaxFrames
    BY <1>4, AnnouncedType, IntactFrame DEF Accept
  <2>2. Drop(Announced) \in Seq(Byte) BY <2>1, DropType
  <2>3. requests' \in Seq(1..MaxFrames) BY <1>4, <2>1, RangeOfCons DEF Accept
  <2> QED BY <1>4, <2>2, <2>3 DEF Accept, Parsing
<1>5. CASE HandleRequest \/ HandlerThrows
  <2>1. requests # <<>> /\ requests' = Tail(requests) /\ handled' = handled \cup {Head(requests)}
    BY <1>5 DEF HandleRequest, HandlerThrows
  <2>2. Head(requests) \in 1..MaxFrames /\ Tail(requests) \in Seq(1..MaxFrames)
    BY <2>1, RangeOfTail
  <2> QED BY <1>5, <2>1, <2>2 DEF HandleRequest, HandlerThrows, Handling
<1>6. CASE NothingLeft
  BY <1>6 DEF NothingLeft, Handling
<1> QED BY <1>1, <1>2, <1>3, <1>4, <1>5, <1>6 DEF Loop

\* The variables always have their types.
THEOREM StreamTypeCorrect == Spec => []TypeOK
<1>1. Init => TypeOK
  <2> SUFFICES ASSUME Init PROVE TypeOK OBVIOUS
  <2>1. MaxFrames \in Nat BY FrameAssumption, LenProperties DEF MaxFrames
  <2>2. wire \in Seq(Byte) /\ buffer \in Seq(Byte) BY EmptySeq DEF Init
  <2>3. requests \in Seq(1..MaxFrames) /\ handled \subseteq 1..MaxFrames BY EmptySeq DEF Init
  <2>4. sent \in 0..MaxFrames /\ bursts \in 0..MaxBursts BY <2>1, StreamAssumption DEF Init
  <2>5. resyncing \in BOOLEAN /\ split \in BOOLEAN /\ phase = "idle" BY DEF Init
  <2> QED BY <2>2, <2>3, <2>4, <2>5 DEF TypeOK
<1>2. TypeOK /\ [Next]_vars => TypeOK'
  <2> SUFFICES ASSUME TypeOK, [Next]_vars PROVE TypeOK' OBVIOUS
  <2>1. CASE Next BY <2>1, LineType, LoopType DEF Next
  <2>2. CASE UNCHANGED vars BY <2>2 DEF vars, TypeOK
  <2> QED BY <2>1, <2>2
<1> QED BY <1>1, <1>2, PTL DEF Spec

-----------------------------------------------------------------------------
(* The buffer.                                                               *)

\* Where the loop of handle() ends, what it leaves is short or throws; while
\* the requests are handled it does not throw.
BufferInv ==
  /\ phase = "idle" => Throws \/ Len(buffer) <= MaxAdu
  /\ phase = "handling" => ~Throws /\ Len(buffer) <= MaxAdu

\* Whether the front of the buffer throws depends on the buffer alone.
LEMMA SameBuffer ==
  ASSUME buffer' = buffer
  PROVE  Throws' = Throws /\ Len(buffer)' = Len(buffer)
BY DEF Throws, HasRequest, Announced

\* Every step keeps that.
LEMMA BufferStep ==
  ASSUME TypeOK, BufferInv, [Next]_vars
  PROVE  BufferInv'
<1>1. CASE SendFrame \/ (\E b \in Bursts : Interfere(b)) \/ UNCHANGED vars
  <2>1. buffer' = buffer /\ phase' = phase BY <1>1 DEF SendFrame, Interfere, vars
  <2> QED BY <2>1, SameBuffer DEF BufferInv
<1>2. CASE \E k \in Chunks : DataEvent(k)
  BY <1>2 DEF DataEvent, BufferInv
<1>3. CASE WaitForMore
  <2>1. ~Throws /\ Len(buffer) <= MaxAdu /\ buffer' = buffer /\ phase' = "handling"
    BY <1>3, EmptySeq, FrameAssumption DEF WaitForMore, PlausibleFrameStart, Throws
  <2> QED BY <2>1, SameBuffer DEF BufferInv
<1>4. CASE DescribeThrows
  <2>1. Throws /\ buffer' = buffer /\ phase' = "idle" BY <1>4 DEF DescribeThrows
  <2> QED BY <2>1, SameBuffer DEF BufferInv
<1>5. CASE DropGarbage \/ SkipCorrupted \/ Accept
  <2>1. phase' = "parsing" BY <1>5 DEF DropGarbage, SkipCorrupted, Accept, Parsing
  <2> QED BY <2>1 DEF BufferInv
<1>6. CASE HandleRequest \/ HandlerThrows \/ NothingLeft
  <2>1. phase = "handling" /\ buffer' = buffer /\ phase' \in {"handling", "idle"}
    BY <1>6 DEF HandleRequest, HandlerThrows, NothingLeft, Handling
  <2> QED BY <2>1, SameBuffer DEF BufferInv
<1> QED BY <1>1, <1>2, <1>3, <1>4, <1>5, <1>6 DEF Next, Loop

\* BufferInv holds in every state.
LEMMA BufferInvariant == Spec => [](TypeOK /\ BufferInv)
<1>1. Init => BufferInv
  BY EmptySeq, FrameAssumption DEF Init, BufferInv
<1>2. TypeOK /\ BufferInv /\ [Next]_vars => BufferInv' BY BufferStep
<1> QED BY <1>1, <1>2, StreamTypeCorrect, PTL DEF Spec

\* Between data events the buffer holds no more than one frame, or stands at a
\* device identification.
THEOREM StreamBufferBounded == Spec => []BufferBounded
<1>1. BufferInv => BufferBounded BY DEF BufferInv, BufferBounded
<1> QED BY <1>1, BufferInvariant, PTL

-----------------------------------------------------------------------------
(* The order of what is accepted, for a master that sends each frame once.   *)

\* In a stream of bytes with the frames up to n on it, of which those in A are
\* accepted: the bytes of frames are in the order of sending, and belong to
\* frames that are not accepted yet, nor is any later one.
Before(a, b) == a.frame < b.frame \/ (a.frame = b.frame /\ a.at < b.at)
InOrder(s, n, A) ==
  /\ A \subseteq 1..n
  /\ \A i, j \in 1..Len(s) :
       i < j /\ s[i].frame # 0 /\ s[j].frame # 0 => Before(s[i], s[j])
  /\ \A i \in 1..Len(s) : s[i].frame # 0 =>
       /\ s[i].frame <= n /\ s[i].at <= Len(Frames[s[i].frame])
       /\ \A g \in A : g < s[i].frame

Stream == buffer \o wire
Done == handled \cup Range(requests)
OrderInv == InOrder(Stream, sent, Done)

\* Bytes taken off the front leave the others in order.
LEMMA InOrderRest ==
  ASSUME NEW s \in Seq(Byte), NEW n, NEW A, NEW k \in 0..Len(s), InOrder(s, n, A)
  PROVE  InOrder(SubSeq(s, k + 1, Len(s)), n, A)
<1> DEFINE t == SubSeq(s, k + 1, Len(s))
<1>1. Len(s) \in Nat BY LenProperties
<1>2. Len(t) = Len(s) - k /\ \A i \in 1..Len(t) : t[i] = s[i + k] BY RestOfSeq
<1> HIDE DEF t
<1>3. \A i \in 1..Len(t) : i + k \in 1..Len(s) BY <1>1, <1>2
<1>4. \A i, j \in 1..Len(t) : i < j => i + k < j + k BY <1>1, <1>2
<1>5. InOrder(t, n, A) BY <1>2, <1>3, <1>4 DEF InOrder
<1> QED BY <1>5 DEF t

\* Interference at the end changes no order.
LEMMA InOrderInterference ==
  ASSUME NEW s \in Seq(Byte), NEW n, NEW A, NEW b \in Bursts, InOrder(s, n, A)
  PROVE  InOrder(s \o Interference(b), n, A)
<1> DEFINE t == s \o Interference(b)
<1>1. /\ Interference(b) \in Seq(Byte)
      /\ \A i \in 1..Len(Interference(b)) : Interference(b)[i].frame = 0
  BY InterferenceType
<1>2. Len(s) \in Nat /\ Len(Interference(b)) \in Nat BY <1>1, LenProperties
<1>3. /\ Len(t) = Len(s) + Len(Interference(b))
      /\ \A i \in 1..Len(t) : t[i] = IF i <= Len(s) THEN s[i] ELSE Interference(b)[i - Len(s)]
  BY <1>1, ConcatProperties
<1> HIDE DEF t
<1>4. \A i \in 1..Len(t) : t[i].frame # 0 => i \in 1..Len(s) /\ t[i] = s[i]
  <2> SUFFICES ASSUME NEW i \in 1..Len(t), t[i].frame # 0 PROVE i \in 1..Len(s) /\ t[i] = s[i]
    OBVIOUS
  <2>1. CASE i <= Len(s) BY <2>1, <1>2, <1>3
  <2>2. CASE ~(i <= Len(s))
    <3>1. i - Len(s) \in 1..Len(Interference(b)) BY <2>2, <1>2, <1>3
    <3> QED BY <3>1, <2>2, <1>1, <1>3
  <2> QED BY <2>1, <2>2
<1>5. InOrder(t, n, A) BY <1>4 DEF InOrder
<1> QED BY <1>5 DEF t

\* Nor does the next frame.
LEMMA InOrderFrame ==
  ASSUME NEW s \in Seq(Byte), NEW n \in Nat, NEW A, n + 1 \in 1..MaxFrames, InOrder(s, n, A)
  PROVE  InOrder(s \o FrameBytes(n + 1), n + 1, A)
<1> DEFINE m == n + 1
           u == FrameBytes(m)
           t == s \o u
<1>1. /\ u \in Seq(Byte) /\ Len(u) = Len(Frames[m])
      /\ \A i \in 1..Len(Frames[m]) : u[i].frame = m /\ u[i].at = i
  BY FrameBytesType
<1>2. Len(s) \in Nat /\ Len(u) \in Nat BY <1>1, LenProperties
<1>3. /\ t \in Seq(Byte) /\ Len(t) = Len(s) + Len(u)
      /\ \A i \in 1..Len(t) : t[i] = IF i <= Len(s) THEN s[i] ELSE u[i - Len(s)]
  BY <1>1, ConcatProperties
<1> HIDE DEF t, u
<1>4. \A i \in 1..Len(t) : i <= Len(s) => i \in 1..Len(s) /\ t[i] = s[i] BY <1>2, <1>3
<1>5. \A i \in 1..Len(t) : ~(i <= Len(s)) =>
        /\ t[i].frame = m /\ t[i].at = i - Len(s)
        /\ t[i].at <= Len(Frames[m])
  <2> SUFFICES ASSUME NEW i \in 1..Len(t), ~(i <= Len(s))
               PROVE  t[i].frame = m /\ t[i].at = i - Len(s) /\ t[i].at <= Len(Frames[m])
    OBVIOUS
  <2>1. PICK j \in 1..Len(u) : j = i - Len(s) BY <1>2, <1>3
  <2>2. t[i] = u[j] BY <2>1, <1>3
  <2> QED BY <2>1, <2>2, <1>1, <1>2
<1>6. A \subseteq 1..n /\ A \subseteq 1..m BY DEF InOrder
<1>7. ASSUME NEW i \in 1..Len(t), NEW j \in 1..Len(t), i < j, t[i].frame # 0, t[j].frame # 0
      PROVE  Before(t[i], t[j])
  <2>1. CASE j <= Len(s) BY <2>1, <1>2, <1>3, <1>4, <1>7 DEF InOrder
  <2>2. CASE i <= Len(s) /\ ~(j <= Len(s))
    <3>1. t[i].frame <= n /\ t[i] \in Byte
      BY <2>2, <1>3, <1>4, <1>7, ElementOfSeq DEF InOrder
    <3>2. t[i].frame \in Nat BY <3>1 DEF Byte
    <3>3. t[j].frame = n + 1 BY <2>2, <1>5
    <3>4. t[i].frame < n + 1 BY <3>1, <3>2
    <3> QED BY <3>3, <3>4 DEF Before
  <2>3. CASE ~(i <= Len(s)) /\ ~(j <= Len(s))
    BY <2>3, <1>2, <1>3, <1>5, <1>7 DEF Before
  <2> QED BY <2>1, <2>2, <2>3, <1>2, <1>3, <1>7
<1>8. ASSUME NEW i \in 1..Len(t), t[i].frame # 0
      PROVE  /\ t[i].frame <= m /\ t[i].at <= Len(Frames[t[i].frame])
             /\ \A g \in A : g < t[i].frame
  <2>1. CASE i <= Len(s)
    <3>1. /\ t[i].frame <= n /\ t[i].at <= Len(Frames[t[i].frame])
          /\ \A g \in A : g < t[i].frame
      BY <2>1, <1>4, <1>8 DEF InOrder
    <3>2. t[i] \in Byte BY <1>3, ElementOfSeq
    <3>3. t[i].frame \in Nat BY <3>2 DEF Byte
    <3> QED BY <3>1, <3>3
  <2>2. CASE ~(i <= Len(s)) BY <2>2, <1>5, <1>6
  <2> QED BY <2>1, <2>2
<1>9. InOrder(t, m, A) BY <1>6, <1>7, <1>8 DEF InOrder
<1> QED BY <1>9 DEF t, u

\* Once the first k bytes have been accepted as frame f, f counts as accepted.
LEMMA InOrderAccepted ==
  ASSUME NEW s \in Seq(Byte), NEW n \in Nat, NEW A, NEW k \in 1..Len(s), NEW f \in 1..MaxFrames,
         InOrder(s, n, A), s[1].frame = f, s[k].frame = f, s[k].at >= Len(Frames[f])
  PROVE  /\ \A g \in A : g < f
         /\ InOrder(SubSeq(s, k + 1, Len(s)), n, A \cup {f})
<1> DEFINE t == SubSeq(s, k + 1, Len(s))
<1>1. Len(s) \in Nat /\ 1 \in 1..Len(s) /\ k \in 0..Len(s) BY LenProperties
<1>2. Len(t) = Len(s) - k /\ \A i \in 1..(Len(s) - k) : t[i] = s[i + k] BY <1>1, RestOfSeq
<1>3. InOrder(t, n, A) BY <1>1, InOrderRest
<1> HIDE DEF t
<1>4. f # 0 /\ f <= n /\ \A g \in A : g < f BY <1>1 DEF InOrder
<1>5. A \cup {f} \subseteq 1..n
  <2>1. A \subseteq 1..n BY DEF InOrder
  <2>2. f \in 1..n BY <1>4
  <2> QED BY <2>1, <2>2
<1>6. ASSUME NEW i \in 1..Len(t), t[i].frame # 0 PROVE f < t[i].frame
  <2>1. PICK j \in 1..Len(s) : j = i + k BY <1>1, <1>2
  <2>2. t[i] = s[j] /\ k < j BY <2>1, <1>1, <1>2
  <2>3. Before(s[k], s[j]) BY <2>2, <1>4, <1>6 DEF InOrder
  <2>4. s[j].at <= Len(Frames[s[j].frame]) BY <2>2, <1>6 DEF InOrder
  <2>5. s[j] \in Byte /\ s[k] \in Byte BY ElementOfSeq
  <2>6. s[j].frame # f
    <3> SUFFICES ASSUME s[j].frame = f PROVE FALSE OBVIOUS
    <3>1. s[k].at < s[j].at /\ s[j].at <= Len(Frames[f]) BY <2>3, <2>4, <2>5 DEF Before, Byte
    <3>2. Len(Frames[f]) \in Nat BY FrameLength
    <3>3. s[k].at \in Nat /\ s[j].at \in Nat BY <2>5, ByteType
    <3>4. PICK a \in Nat, b \in Nat, l \in Nat : a = s[k].at /\ b = s[j].at /\ l = Len(Frames[f])
      BY <3>2, <3>3
    <3>5. a < b /\ b <= l /\ a >= l BY <3>1, <3>4
    <3> QED BY <3>5
  <2> QED BY <2>2, <2>3, <2>6 DEF Before
<1>7. InOrder(t, n, A \cup {f}) BY <1>3, <1>5, <1>6 DEF InOrder
<1> QED BY <1>4, <1>7 DEF t

\* What is taken off the buffer is taken off the stream.
LEMMA StreamRest ==
  ASSUME TypeOK, NEW k \in 0..Len(buffer)
  PROVE  /\ Stream \in Seq(Byte) /\ k \in 0..Len(Stream)
         /\ SubSeq(buffer, k + 1, Len(buffer)) \o wire = SubSeq(Stream, k + 1, Len(Stream))
         /\ \A i \in 1..Len(buffer) : i \in 1..Len(Stream) /\ Stream[i] = buffer[i]
<1> DEFINE b == SubSeq(buffer, k + 1, Len(buffer))
           s == Stream
           c == b \o wire
           t == SubSeq(s, k + 1, Len(s))
<1>1. /\ buffer \in Seq(Byte) /\ wire \in Seq(Byte)
      /\ Len(buffer) \in Nat /\ Len(wire) \in Nat
  BY LenProperties DEF TypeOK
<1>2. /\ s \in Seq(Byte) /\ Len(s) = Len(buffer) + Len(wire)
      /\ \A i \in 1..Len(s) : s[i] = IF i <= Len(buffer) THEN buffer[i] ELSE wire[i - Len(buffer)]
  BY <1>1, ConcatProperties DEF Stream
<1> HIDE DEF s
<1>3. k \in 0..Len(s) BY <1>1, <1>2
<1>4. /\ b \in Seq(Byte) /\ Len(b) = Len(buffer) - k
      /\ \A i \in 1..(Len(buffer) - k) : b[i] = buffer[i + k]
  BY <1>1, RestOfSeq
<1>5. /\ t \in Seq(Byte) /\ Len(t) = Len(s) - k
      /\ \A i \in 1..(Len(s) - k) : t[i] = s[i + k]
  BY <1>2, <1>3, RestOfSeq
<1> HIDE DEF b, t
<1>6. /\ c \in Seq(Byte) /\ Len(c) = Len(b) + Len(wire)
      /\ \A i \in 1..(Len(b) + Len(wire)) : c[i] = IF i <= Len(b) THEN b[i] ELSE wire[i - Len(b)]
  BY <1>1, <1>4, ConcatProperties
<1> HIDE DEF c
<1>7. Len(c) = Len(t) BY <1>1, <1>2, <1>4, <1>5, <1>6
<1>8. ASSUME NEW i \in 1..Len(c) PROVE c[i] = t[i]
  <2>1. PICK j \in 1..Len(s) : j = i + k BY <1>1, <1>2, <1>5, <1>7
  <2>2. i \in 1..(Len(s) - k) /\ t[i] = s[j] BY <2>1, <1>1, <1>5, <1>7
  <2>3. CASE i <= Len(b)
    <3>1. i \in 1..(Len(buffer) - k) /\ j <= Len(buffer) BY <2>1, <2>3, <1>1, <1>4
    <3> QED BY <3>1, <2>1, <2>2, <2>3, <1>1, <1>2, <1>4, <1>6
  <2>4. CASE ~(i <= Len(b))
    <3>1. ~(j <= Len(buffer)) /\ i - Len(b) = j - Len(buffer) BY <2>1, <2>4, <1>1, <1>4
    <3>2. c[i] = wire[i - Len(b)] BY <2>4, <1>6
    <3>3. s[j] = wire[j - Len(buffer)] BY <3>1, <1>2
    <3> QED BY <3>1, <3>2, <3>3, <2>2
  <2> QED BY <2>3, <2>4
<1>9. c = t BY <1>5, <1>6, <1>7, <1>8, SeqEqual
<1>10. \A i \in 1..Len(buffer) : i \in 1..Len(s) /\ s[i] = buffer[i] BY <1>1, <1>2
<1> QED BY <1>2, <1>3, <1>9, <1>10 DEF s, t, c, b

\* Every step keeps the order; accepting a frame says which one comes next.
LEMMA OrderStep ==
  ASSUME ~Endless, TypeOK, OrderInv, [Next]_vars
  PROVE  /\ OrderInv'
         /\ Len(requests') > Len(requests) =>
              /\ Tail(requests') = requests
              /\ \A g \in Done : g < Head(requests')
<1>1. /\ buffer \in Seq(Byte) /\ wire \in Seq(Byte) /\ requests \in Seq(1..MaxFrames)
      /\ sent \in Nat /\ Len(requests) \in Nat /\ Len(buffer) \in Nat
  BY LenProperties DEF TypeOK
<1>2. Stream \in Seq(Byte) BY <1>1, ConcatProperties DEF Stream
<1>3. CASE SendFrame
  <2> DEFINE u == FrameBytes(sent + 1)
  <2>0. MaxFrames \in Nat BY FrameAssumption, LenProperties DEF MaxFrames
  <2>1. sent' = sent + 1 /\ sent + 1 \in 1..MaxFrames
    BY <1>1, <1>3, <2>0 DEF SendFrame, TypeOK
  <2>2. u \in Seq(Byte) BY <2>1, FrameBytesType
  <2>3. wire' = wire \o u /\ buffer' = buffer BY <1>3, <2>1 DEF SendFrame
  <2>4. Stream' = Stream \o u
    <3> HIDE DEF u
    <3>1. (buffer \o wire) \o u = buffer \o (wire \o u) BY <1>1, <2>2, ConcatAssociative
    <3> QED BY <3>1, <2>3 DEF Stream
  <2>5. Done' = Done /\ requests' = requests BY <1>3 DEF SendFrame, Done
  <2>6. InOrder(Stream \o FrameBytes(sent + 1), sent + 1, Done)
    BY <1>1, <1>2, <2>1, InOrderFrame DEF OrderInv
  <2> QED BY <1>1, <2>1, <2>4, <2>5, <2>6 DEF OrderInv
<1>4. ASSUME NEW b \in Bursts, Interfere(b)
      PROVE  OrderInv' /\ requests' = requests
  <2>1. wire' = wire \o Interference(b) /\ buffer' = buffer BY <1>4 DEF Interfere
  <2>2. Stream' = Stream \o Interference(b)
    BY <1>1, <2>1, InterferenceType, ConcatAssociative DEF Stream
  <2>3. Done' = Done /\ sent' = sent /\ requests' = requests BY <1>4 DEF Interfere, Done
  <2>4. InOrder(Stream \o Interference(b), sent, Done) BY <1>2, InOrderInterference DEF OrderInv
  <2> QED BY <2>2, <2>3, <2>4 DEF OrderInv
<1>5. ASSUME NEW k \in Chunks, DataEvent(k)
      PROVE  OrderInv' /\ requests' = requests
  <2>1. k \in 0..Len(wire) BY <1>1, <1>5, StreamAssumption, LenProperties DEF DataEvent
  <2>2. Stream' = Stream BY <1>1, <1>5, <2>1, Cut DEF DataEvent, Stream
  <2>3. Done' = Done /\ sent' = sent /\ requests' = requests BY <1>5 DEF DataEvent, Done
  <2> QED BY <2>2, <2>3 DEF OrderInv
<1>6. ASSUME NEW k \in 0..Len(buffer), buffer' = Drop(k), wire' = wire, sent' = sent, Done' = Done
      PROVE  OrderInv'
  <2>1. Stream' = SubSeq(Stream, k + 1, Len(Stream)) /\ k \in 0..Len(Stream)
    BY <1>6, StreamRest DEF Stream, Drop
  <2>2. InOrder(SubSeq(Stream, k + 1, Len(Stream)), sent, Done)
    BY <1>2, <2>1, InOrderRest DEF OrderInv
  <2> QED BY <1>6, <2>1, <2>2 DEF OrderInv
<1>7. CASE DropGarbage \/ SkipCorrupted
  <2>1. buffer # <<>> /\ (buffer' = Tail(buffer) \/ (HasRequest /\ buffer' = Drop(Announced)))
    BY <1>1, <1>7, AnnouncedType, EmptySeq DEF DropGarbage, SkipCorrupted
  <2>2. Tail(buffer) = Drop(1) /\ 1 \in 0..Len(buffer)
    BY <1>1, <2>1, TailIsSubSeq, EmptySeq, 1 + 1 = 2 DEF Drop
  <2>3. PICK k \in 0..Len(buffer) : buffer' = Drop(k)
    <3>1. HasRequest => Announced \in 0..Len(buffer) BY <1>1, AnnouncedType
    <3>2. CASE buffer' = Tail(buffer) BY <3>2, <2>2, Zenon
    <3>3. CASE HasRequest /\ buffer' = Drop(Announced) BY <3>1, <3>3, Zenon
    <3> QED BY <3>2, <3>3, <2>1
  <2>4. requests' = requests /\ wire' = wire /\ sent' = sent /\ Done' = Done
    BY <1>7 DEF DropGarbage, SkipCorrupted, Parsing, Done
  <2> QED BY <1>1, <1>6, <2>3, <2>4
<1>8. CASE Accept
  <2> DEFINE f == buffer[1].frame
             k == Announced
  <2>1. /\ f \in 1..MaxFrames /\ k = Len(Frames[f]) /\ k \in 1..Len(buffer) /\ k \in 0..Len(buffer)
        /\ \A i \in 1..k : buffer[i].at = i /\ buffer[i].frame = f
    BY <1>1, <1>8, AnnouncedType, IntactFrame DEF Accept
  <2>2. requests' = <<f>> \o requests /\ buffer' = Drop(k) /\ wire' = wire /\ sent' = sent
        /\ handled' = handled
    BY <1>8 DEF Accept, Parsing
  <2> HIDE DEF f, k
  <2>3. /\ Range(requests') = {f} \cup Range(requests) /\ Len(requests') = Len(requests) + 1
        /\ Tail(requests') = requests /\ Head(requests') = f
    <3>1. requests' = <<f>> \o requests BY <2>2
    <3>2. f \in 1..MaxFrames /\ requests \in Seq(1..MaxFrames) BY <1>1, <2>1
    <3>3. /\ Range(<<f>> \o requests) = {f} \cup Range(requests)
          /\ Len(<<f>> \o requests) = Len(requests) + 1
          /\ Tail(<<f>> \o requests) = requests /\ Head(<<f>> \o requests) = f
      BY <3>2, RangeOfCons, Zenon
    <3> QED BY <3>1, <3>3, Zenon
  <2>4. Done' = Done \cup {f} BY <2>2, <2>3 DEF Done
  <2>5. /\ k \in 0..Len(Stream)
        /\ SubSeq(buffer, k + 1, Len(buffer)) \o wire = SubSeq(Stream, k + 1, Len(Stream))
        /\ \A i \in 1..Len(buffer) : i \in 1..Len(Stream) /\ Stream[i] = buffer[i]
    BY <2>1, StreamRest
  <2>6. Stream' = SubSeq(Stream, k + 1, Len(Stream)) BY <2>2, <2>5 DEF Stream, Drop
  <2>7. 1 \in 1..Len(buffer) /\ 1 \in 1..k /\ k \in 1..k /\ k \in Nat BY <1>1, <2>1
  <2>8. /\ k \in 1..Len(Stream) /\ Stream[1].frame = f
        /\ Stream[k].frame = f /\ Stream[k].at >= Len(Frames[f])
    BY <2>1, <2>5, <2>7
  <2>9. /\ \A g \in Done : g < f
        /\ InOrder(SubSeq(Stream, k + 1, Len(Stream)), sent, Done \cup {f})
    BY <1>1, <1>2, <2>1, <2>8, InOrderAccepted DEF OrderInv
  <2> QED BY <2>2, <2>3, <2>4, <2>6, <2>9 DEF OrderInv
<1>9. CASE HandleRequest \/ HandlerThrows
  <2>1. /\ requests # <<>> /\ requests' = Tail(requests)
        /\ handled' = handled \cup {Head(requests)}
        /\ buffer' = buffer /\ wire' = wire /\ sent' = sent
    BY <1>9 DEF HandleRequest, HandlerThrows, Handling
  <2>2. Range(requests) = {Head(requests)} \cup Range(requests') /\ Len(requests') < Len(requests)
    BY <1>1, <2>1, RangeOfTail
  <2>3. requests' \in Seq(1..MaxFrames) /\ Len(requests') \in Nat
    BY <1>1, <2>1, RangeOfTail, LenProperties
  <2>4. Done' = Done BY <2>1, <2>2 DEF Done
  <2>5. OrderInv' BY <2>1, <2>4 DEF OrderInv, Stream
  <2> QED BY <1>1, <2>2, <2>3, <2>5
<1>10. CASE WaitForMore \/ DescribeThrows \/ NothingLeft \/ UNCHANGED vars
  <2>1. /\ requests' = requests /\ handled' = handled
        /\ buffer' = buffer /\ wire' = wire /\ sent' = sent
    BY <1>10 DEF WaitForMore, DescribeThrows, NothingLeft, Parsing, Handling, vars
  <2> QED BY <1>1, <2>1 DEF OrderInv, Stream, Done
<1> QED
  BY <1>1, <1>3, <1>4, <1>5, <1>7, <1>8, <1>9, <1>10 DEF Next, Loop

\* A master that sends each frame once has them accepted at most once and in
\* the order of sending, whatever interference the line adds.
THEOREM StreamAcceptedInOrder ==
  ASSUME ~Endless
  PROVE  Spec => AcceptedInOrder
<1> DEFINE Ordered == Len(requests') > Len(requests) =>
             /\ Tail(requests') = requests
             /\ \A g \in handled \cup Range(requests) : g < Head(requests')
<1>1. Init => OrderInv
  <2> SUFFICES ASSUME Init PROVE OrderInv OBVIOUS
  <2>1. buffer = <<>> /\ wire = <<>> /\ requests = <<>> /\ handled = {} /\ sent = 0 BY DEF Init
  <2>2. Stream = <<>> BY <2>1, EmptySeq, ConcatEmptySeq DEF Stream
  <2>3. Done = {} BY <2>1 DEF Done, Range
  <2>4. Len(Stream) = 0 BY <2>2
  <2> QED BY <2>3, <2>4 DEF OrderInv, InOrder
<1>2. TypeOK /\ OrderInv /\ [Next]_vars => OrderInv' /\ Ordered BY OrderStep DEF Done
<1> QED BY <1>1, <1>2, StreamTypeCorrect, PTL DEF Spec, AcceptedInOrder

-----------------------------------------------------------------------------
(* Without interference.                                                     *)

\* From place o + 1 on, s holds the bytes of frame f, all of them.
FrameAt(s, o, f) ==
  /\ o + Len(Frames[f]) <= Len(s)
  /\ \A j \in 1..Len(Frames[f]) :
       s[o + j].frame = f /\ s[o + j].at = j /\ s[o + j].claim = Frames[f][j]

\* s consists of whole frames, in the order of sending, up to frame n.
Whole(s) ==
  \A i \in 1..Len(s) :
    /\ s[i].frame \in 1..MaxFrames /\ s[i].at \in 1..i
    /\ s[i].at <= Len(Frames[s[i].frame])
    /\ FrameAt(s, i - s[i].at, s[i].frame)
Ascending(s, n) ==
  /\ \A i \in 1..Len(s) : s[i].frame <= n
  /\ \A i, j \in 1..Len(s) : i < j => s[i].frame <= s[j].frame

\* Whatever was sent waits in whole frames or was accepted, as long as there
\* is no interference and no data event ends behind the first byte of a frame.
AlignInv ==
  bursts = 0 /\ ~split =>
    /\ Whole(Stream) /\ Ascending(Stream, sent)
    /\ wire # <<>> => wire[1].at # 2
    /\ \A f \in 1..sent : f \in Done \/ \E i \in 1..Len(Stream) : Stream[i].frame = f

\* The loop of handle() leaves no request in the buffer, except one it cannot
\* describe.
IdleInv == phase # "parsing" => Throws \/ ~HasRequest

\* Whole frames begin with a whole frame.
LEMMA FirstFrame ==
  ASSUME NEW s \in Seq(Byte), Whole(s), s # <<>>
  PROVE  /\ 1 \in 1..Len(s) /\ s[1].frame \in 1..MaxFrames
         /\ Len(Frames[s[1].frame]) \in 1..Len(s)
         /\ \A j \in 1..Len(Frames[s[1].frame]) :
              /\ s[j].frame = s[1].frame /\ s[j].at = j
              /\ s[j].claim = Frames[s[1].frame][j]
<1>1. 1 \in 1..Len(s) /\ Len(s) \in Nat BY EmptySeq
<1> DEFINE f == s[1].frame
<1>2. f \in 1..MaxFrames /\ s[1].at = 1 /\ FrameAt(s, 1 - s[1].at, f) BY <1>1 DEF Whole
<1>3. FrameAt(s, 0, f) BY <1>2
<1> HIDE DEF f
<1>4. Len(Frames[f]) \in Nat /\ Len(Frames[f]) >= 3 BY <1>2, FrameLength
<1>5. \A j \in 1..Len(Frames[f]) : 0 + j = j BY <1>4
<1>6. /\ 0 + Len(Frames[f]) <= Len(s)
      /\ \A j \in 1..Len(Frames[f]) :
           s[j].frame = f /\ s[j].at = j /\ s[j].claim = Frames[f][j]
  BY <1>3, <1>5 DEF FrameAt
<1> QED BY <1>1, <1>2, <1>4, <1>6 DEF f

\* The frame around a byte behind the first frame lies behind the first frame.
LEMMA NextFrames ==
  ASSUME NEW s \in Seq(Byte), Whole(s), s # <<>>,
         NEW i \in 1..Len(s), i > Len(Frames[s[1].frame])
  PROVE  Len(Frames[s[1].frame]) <= i - s[i].at
<1> DEFINE k == Len(Frames[s[1].frame])
           o == i - s[i].at
           g == s[i].frame
<1>1. /\ k \in 1..Len(s) /\ Len(s) \in Nat
      /\ \A j \in 1..k : s[j].at = j /\ s[j].frame = s[1].frame
  BY FirstFrame, LenProperties
<1>2. /\ g \in 1..MaxFrames /\ s[i].at \in 1..i /\ s[i].at <= Len(Frames[g])
      /\ FrameAt(s, o, g)
  BY DEF Whole
<1>3. o \in Nat /\ i \in Nat BY <1>1, <1>2
<1>4. Len(Frames[g]) \in Nat /\ Len(Frames[g]) >= 3 BY <1>2, FrameLength
<1>5. s[o + 1].at = 1 /\ s[o + 1].frame = g BY <1>2, <1>4 DEF FrameAt
<1>6. k = Len(Frames[s[1].frame]) /\ o = i - s[i].at OBVIOUS
<1> DEFINE a == s[i].at
<1>7. o = i - a /\ a \in 1..i /\ a <= Len(Frames[g]) BY <1>2
<1> HIDE DEF k, o, g, a
<1>8. ASSUME o < k PROVE FALSE
  <2>1. o + 1 \in 1..k BY <1>1, <1>3, <1>8
  <2>2. o + 1 = 1 /\ g = s[1].frame BY <2>1, <1>1, <1>5
  <2>3. o = 0 BY <2>2, <1>3
  <2>4. a = i BY <2>3, <1>3, <1>7
  <2>5. Len(Frames[g]) = k BY <2>2, <1>6
  <2>6. i <= k BY <2>4, <2>5, <1>7
  <2>7. k \in Nat /\ i > k BY <1>1, <1>6
  <2> QED BY <2>6, <2>7, <1>3
<1>9. k \in Nat BY <1>1
<1> QED BY <1>3, <1>6, <1>8, <1>9

\* Taking the first frame off leaves whole frames.
LEMMA WholeRest ==
  ASSUME NEW s \in Seq(Byte), Whole(s), s # <<>>, NEW n, Ascending(s, n),
         NEW k \in 1..Len(s), k = Len(Frames[s[1].frame]),
         NEW t \in Seq(Byte), Len(t) = Len(s) - k, \A i \in 1..(Len(s) - k) : t[i] = s[i + k]
  PROVE  /\ Whole(t) /\ Ascending(t, n)
         /\ \A i \in 1..Len(s) : \/ s[i].frame = s[1].frame
                                 \/ \E j \in 1..Len(t) : t[j].frame = s[i].frame
<1> DEFINE l == Len(s)
<1>1. l \in Nat /\ k \in 1..l /\ \A j \in 1..k : s[j].frame = s[1].frame
  BY FirstFrame, LenProperties
<1>2. Len(t) = l - k /\ \A i \in 1..(l - k) : t[i] = s[i + k] OBVIOUS
<1> HIDE DEF l
<1>3. \A i \in 1..(l - k) : i + k \in 1..l /\ i + k > k BY <1>1
<1>4. ASSUME NEW i \in 1..(l - k)
      PROVE  /\ t[i].frame \in 1..MaxFrames /\ t[i].at \in 1..i
             /\ t[i].at <= Len(Frames[t[i].frame])
             /\ FrameAt(t, i - t[i].at, t[i].frame)
  <2> DEFINE m == i + k
             at == s[m].at
             o == m - at
             g == s[m].frame
             e == Len(Frames[g])
  <2>1. m \in 1..l /\ t[i] = s[m] /\ m > k BY <1>2, <1>3
  <2>2. /\ g \in 1..MaxFrames /\ at \in 1..m /\ at <= e
        /\ o + e <= l
        /\ \A j \in 1..e :
             s[o + j].frame = g /\ s[o + j].at = j /\ s[o + j].claim = Frames[g][j]
    BY <2>1 DEF Whole, FrameAt, l
  <2>3. k <= o BY <2>1, NextFrames DEF l
  <2>4. e \in Nat BY <2>2, FrameLength
  <2>5. m = i + k /\ o = m - at OBVIOUS
  <2>6. t[i].at = at /\ t[i].frame = g BY <2>1
  <2> HIDE DEF m, o, g, at, e
  <2>7. o \in Nat /\ i \in Nat /\ m \in Nat /\ at \in Nat
    <3>1. i \in Nat BY <1>1
    <3>2. m \in Nat BY <1>1, <2>1
    <3>3. at \in Nat /\ at <= m BY <2>2, <3>2
    <3>4. o \in Nat BY <2>5, <3>2, <3>3
    <3> QED BY <3>1, <3>2, <3>3, <3>4
  <2>8. i - at = o - k /\ at \in 1..i BY <1>1, <2>2, <2>3, <2>5, <2>7
  <2>9. (o - k) + e <= l - k BY <1>1, <2>2, <2>4, <2>7
  <2>10. ASSUME NEW j \in 1..e PROVE t[(o - k) + j] = s[o + j]
    <3>1. (o - k) + j \in 1..(l - k) BY <1>1, <2>3, <2>4, <2>7, <2>9
    <3>2. ((o - k) + j) + k = o + j BY <1>1, <2>4, <2>7
    <3> QED BY <3>1, <3>2, <1>2
  <2>11. FrameAt(t, o - k, g) BY <1>2, <2>2, <2>9, <2>10 DEF FrameAt, e
  <2> QED BY <2>2, <2>6, <2>8, <2>11 DEF e
<1>5. Whole(t) BY <1>2, <1>4 DEF Whole
<1>6. Ascending(t, n)
  <2>1. \A i, j \in 1..(l - k) : i < j => i + k < j + k BY <1>1
  <2>2. \A i \in 1..l : s[i].frame <= n BY DEF Ascending, l
  <2>3. \A i, j \in 1..l : i < j => s[i].frame <= s[j].frame BY DEF Ascending, l
  <2>4. \A i \in 1..(l - k) : t[i].frame <= n BY <2>2, <1>2, <1>3
  <2>5. ASSUME NEW i \in 1..(l - k), NEW j \in 1..(l - k), i < j PROVE t[i].frame <= t[j].frame
    <3>1. s[i + k].frame <= s[j + k].frame BY <2>1, <2>3, <2>5, <1>3
    <3> QED BY <3>1, <1>2
  <2> QED BY <2>4, <2>5, <1>2 DEF Ascending
<1>7. ASSUME NEW i \in 1..l, s[i].frame # s[1].frame
      PROVE  \E j \in 1..(l - k) : t[j].frame = s[i].frame
  <2>1. ~(i \in 1..k) BY <1>1, <1>7
  <2>2. i - k \in 1..(l - k) /\ (i - k) + k = i BY <2>1, <1>1
  <2> QED BY <2>2, <1>2
<1> QED BY <1>2, <1>5, <1>6, <1>7 DEF l

\* A frame sent at the end keeps the frames whole and in order.
LEMMA WholeSent ==
  ASSUME NEW s \in Seq(Byte), NEW n \in Nat, Whole(s), Ascending(s, n),
         NEW f \in 1..MaxFrames, n <= f,
         NEW t \in Seq(Byte), Len(t) = Len(s) + Len(Frames[f]),
         \A i \in 1..(Len(s) + Len(Frames[f])) :
           t[i] = IF i <= Len(s) THEN s[i] ELSE FrameBytes(f)[i - Len(s)]
  PROVE  /\ Whole(t) /\ Ascending(t, f)
         /\ \A g : (g = f \/ \E i \in 1..Len(s) : s[i].frame = g)
                     => \E i \in 1..Len(t) : t[i].frame = g
<1> DEFINE u == FrameBytes(f)
           k == Len(s)
           m == Len(Frames[f])
<1>1. /\ u \in Seq(Byte) /\ Len(u) = m
      /\ \A i \in 1..m : u[i].frame = f /\ u[i].at = i /\ u[i].claim = Frames[f][i]
  BY FrameBytesType
<1>2. k \in Nat /\ m \in Nat /\ m >= 3 BY LenProperties, FrameLength
<1>3. /\ Len(t) = k + m
      /\ \A i \in 1..(k + m) : t[i] = IF i <= k THEN s[i] ELSE u[i - k]
  OBVIOUS
<1> HIDE DEF u, k, m
<1>4. \A i \in 1..k : i \in 1..(k + m) /\ t[i] = s[i] BY <1>2, <1>3
<1>5. ASSUME NEW j \in 1..m
      PROVE  /\ k + j \in 1..(k + m)
             /\ t[k + j].frame = f /\ t[k + j].at = j /\ t[k + j].claim = Frames[f][j]
  <2>1. k + j \in 1..(k + m) /\ ~(k + j <= k) /\ (k + j) - k = j BY <1>2
  <2>2. t[k + j] = u[j] BY <2>1, <1>3
  <2> QED BY <2>1, <2>2, <1>1
<1>6. FrameAt(t, k, f) BY <1>3, <1>5 DEF FrameAt, m
<1>7. \A i \in 1..(k + m) : i \in 1..k \/ \E j \in 1..m : i = k + j
  <2> SUFFICES ASSUME NEW i \in 1..(k + m), ~(i \in 1..k) PROVE \E j \in 1..m : i = k + j
    OBVIOUS
  <2>1. i - k \in 1..m /\ i = k + (i - k) BY <1>2
  <2> QED BY <2>1
<1>8. ASSUME NEW i \in 1..k
      PROVE  /\ t[i].frame \in 1..MaxFrames /\ t[i].at \in 1..i
             /\ t[i].at <= Len(Frames[t[i].frame])
             /\ FrameAt(t, i - t[i].at, t[i].frame)
  <2> DEFINE o == i - s[i].at
             g == s[i].frame
  <2>1. /\ g \in 1..MaxFrames /\ s[i].at \in 1..i /\ s[i].at <= Len(Frames[g])
        /\ o + Len(Frames[g]) <= k
        /\ \A j \in 1..Len(Frames[g]) :
             s[o + j].frame = g /\ s[o + j].at = j /\ s[o + j].claim = Frames[g][j]
    BY DEF Whole, FrameAt, k
  <2>2. Len(Frames[g]) \in Nat BY <2>1, FrameLength
  <2>3. o \in Nat BY <2>1, <1>2
  <2>4. t[i] = s[i] BY <1>4
  <2> HIDE DEF o, g
  <2>5. \A j \in 1..Len(Frames[g]) : o + j \in 1..k BY <2>1, <2>2, <2>3, <1>2
  <2>6. o + Len(Frames[g]) <= Len(t) BY <2>1, <2>2, <2>3, <1>2, <1>3, SMTT(30)
  <2>7. ASSUME NEW j \in 1..Len(Frames[g])
        PROVE  t[o + j].frame = g /\ t[o + j].at = j /\ t[o + j].claim = Frames[g][j]
    <3>1. t[o + j] = s[o + j] BY <2>5, <1>4
    <3> QED BY <3>1, <2>1
  <2>8. FrameAt(t, o, g) BY <2>6, <2>7 DEF FrameAt
  <2> QED BY <2>1, <2>4, <2>8 DEF o, g
<1>9. ASSUME NEW j \in 1..m
      PROVE  /\ t[k + j].frame \in 1..MaxFrames /\ t[k + j].at \in 1..(k + j)
             /\ t[k + j].at <= Len(Frames[t[k + j].frame])
             /\ FrameAt(t, (k + j) - t[k + j].at, t[k + j].frame)
  <2>1. (k + j) - j = k /\ j \in 1..(k + j) /\ j <= m BY <1>2
  <2> QED BY <2>1, <1>5, <1>6 DEF m
<1>10. Whole(t) BY <1>3, <1>7, <1>8, <1>9 DEF Whole
<1>11. \A i \in 1..k : s[i].frame \in Nat /\ s[i].frame <= n /\ s[i].frame <= f
  <2> SUFFICES ASSUME NEW i \in 1..k PROVE s[i].frame \in Nat /\ s[i].frame <= n /\ s[i].frame <= f
    OBVIOUS
  <2>1. s[i].frame \in 1..MaxFrames /\ s[i].frame <= n BY DEF Whole, Ascending, k
  <2> QED BY <2>1
<1>12. Ascending(t, f)
  <2>1. ASSUME NEW i \in 1..(k + m) PROVE t[i].frame \in Nat /\ t[i].frame <= f
    <3>1. CASE i \in 1..k BY <3>1, <1>4, <1>11
    <3>2. ASSUME NEW e \in 1..m, i = k + e PROVE t[i].frame \in Nat /\ t[i].frame <= f
      <4>1. t[i].frame = f /\ f \in Nat BY <3>2, <1>5
      <4> QED BY <4>1
    <3> QED BY <3>1, <3>2, <1>7
  <2>2. ASSUME NEW i \in 1..(k + m), NEW j \in 1..(k + m), i < j PROVE t[i].frame <= t[j].frame
    <3>1. CASE j \in 1..k
      <4>1. i \in 1..k BY <3>1, <2>2, <1>2
      <4> QED BY <3>1, <4>1, <2>2, <1>4 DEF Ascending, k
    <3>2. ASSUME NEW e \in 1..m, j = k + e PROVE t[i].frame <= t[j].frame
      <4>1. t[j].frame = f BY <3>2, <1>5
      <4> QED BY <4>1, <2>1
    <3> QED BY <3>1, <3>2, <1>7
  <2> QED BY <2>1, <2>2, <1>3 DEF Ascending
<1>13. ASSUME NEW g, g = f \/ \E i \in 1..k : s[i].frame = g
       PROVE  \E i \in 1..Len(t) : t[i].frame = g
  <2>1. CASE g = f
    <3>1. 1 \in 1..m BY <1>2
    <3> QED BY <2>1, <3>1, <1>3, <1>5
  <2>2. CASE \E i \in 1..k : s[i].frame = g BY <2>2, <1>3, <1>4
  <2> QED BY <1>13, <2>1, <2>2
<1> QED BY <1>10, <1>12, <1>13 DEF k

\* The bytes of the stream are those of the buffer, then those on the wire.
LEMMA StreamBytes ==
  ASSUME TypeOK
  PROVE  /\ Stream \in Seq(Byte) /\ Len(Stream) = Len(buffer) + Len(wire)
         /\ Len(buffer) \in Nat /\ Len(wire) \in Nat /\ Len(Stream) \in Nat
         /\ \A i \in 1..Len(buffer) : i \in 1..Len(Stream) /\ Stream[i] = buffer[i]
         /\ \A i \in 1..Len(Stream) : ~(i <= Len(buffer)) =>
              i - Len(buffer) \in 1..Len(wire) /\ Stream[i] = wire[i - Len(buffer)]
<1>1. /\ buffer \in Seq(Byte) /\ wire \in Seq(Byte)
      /\ Len(buffer) \in Nat /\ Len(wire) \in Nat
  BY LenProperties DEF TypeOK
<1> DEFINE s == Stream
<1>2. /\ s \in Seq(Byte) /\ Len(s) = Len(buffer) + Len(wire)
      /\ \A i \in 1..Len(s) : s[i] = IF i <= Len(buffer) THEN buffer[i] ELSE wire[i - Len(buffer)]
  BY <1>1, ConcatProperties DEF Stream
<1> HIDE DEF s
<1>3. \A i \in 1..Len(buffer) : i \in 1..Len(s) /\ s[i] = buffer[i] BY <1>1, <1>2
<1>4. \A i \in 1..Len(s) : ~(i <= Len(buffer)) => i - Len(buffer) \in 1..Len(wire)
  BY <1>1, <1>2
<1> QED BY <1>1, <1>2, <1>3, <1>4 DEF s

\* Without interference the buffer starts with a frame, and shows its length.
LEMMA AlignedFront ==
  ASSUME TypeOK, AlignInv, bursts = 0, ~split, buffer # <<>>, NEW f, f = Stream[1].frame
  PROVE  /\ f \in 1..MaxFrames /\ Len(buffer) >= 2 /\ Announced = Len(Frames[f])
         /\ buffer[1].frame = f /\ Stream # <<>>
         /\ \A j \in 1..Len(buffer) : j <= Len(Frames[f]) => buffer[j].at = j /\ buffer[j].frame = f
<1>1. Whole(Stream) /\ (wire # <<>> => wire[1].at # 2) BY DEF AlignInv
<1>2. /\ Stream \in Seq(Byte) /\ Len(Stream) = Len(buffer) + Len(wire)
      /\ Len(buffer) \in Nat /\ Len(wire) \in Nat /\ Len(Stream) \in Nat
      /\ \A i \in 1..Len(buffer) : i \in 1..Len(Stream) /\ Stream[i] = buffer[i]
      /\ \A i \in 1..Len(Stream) : ~(i <= Len(buffer)) =>
           i - Len(buffer) \in 1..Len(wire) /\ Stream[i] = wire[i - Len(buffer)]
  BY StreamBytes
<1>3. buffer \in Seq(Byte) /\ wire \in Seq(Byte) BY DEF TypeOK
<1>4. Len(buffer) >= 1 BY <1>2, <1>3, EmptySeq
<1>5. Stream # <<>> BY <1>2, <1>4
<1>6. /\ f \in 1..MaxFrames /\ Len(Frames[f]) \in 1..Len(Stream)
      /\ \A j \in 1..Len(Frames[f]) : /\ Stream[j].frame = f /\ Stream[j].at = j
                                      /\ Stream[j].claim = Frames[f][j]
  BY <1>1, <1>2, <1>5, FirstFrame
<1>7. Len(Frames[f]) \in Nat /\ Len(Frames[f]) >= 3 /\ Frames[f][2] = Len(Frames[f])
  BY <1>6, FrameLength
<1>8. 2 \in 1..Len(Frames[f]) /\ 2 \in 1..Len(Stream) BY <1>6, <1>7
<1>9. Len(buffer) >= 2
  <2> SUFFICES ASSUME ~(Len(buffer) >= 2) PROVE FALSE OBVIOUS
  <2>0. Len(buffer) = 1
    <3>1. PICK n \in Nat : n = Len(buffer) BY <1>2
    <3>2. n >= 1 /\ ~(n >= 2) BY <3>1, <1>4
    <3>3. n = 1 BY <3>2
    <3> QED BY <3>1, <3>3
  <2>1. 2 - Len(buffer) = 1 /\ ~(2 <= Len(buffer)) BY <2>0
  <2>2. 1 \in 1..Len(wire) /\ Stream[2] = wire[1] BY <1>2, <1>8, <2>1
  <2>3. wire # <<>> BY <2>2, <1>3, EmptySeq
  <2>4. Stream[2].at = 2 BY <1>6, <1>8
  <2> QED BY <1>1, <2>2, <2>3, <2>4
<1>10. Announced = Len(Frames[f])
  <2>1. 2 \in 1..Len(buffer) BY <1>2, <1>9
  <2>2. buffer[2] = Stream[2] BY <2>1, <1>2
  <2> QED BY <2>2, <1>6, <1>7, <1>8, <1>9 DEF Announced
<1>11. \A j \in 1..Len(buffer) : j <= Len(Frames[f]) => j \in 1..Len(Frames[f])
  BY <1>2, <1>7
<1>12. buffer[1].frame = f BY <1>2, <1>4
<1> QED BY <1>2, <1>5, <1>6, <1>9, <1>10, <1>11, <1>12

\* Without interference and unlucky cuts nothing is dropped.
LEMMA NothingDropped ==
  ASSUME TypeOK, AlignInv, bursts = 0, ~split
  PROVE  ~DropGarbage /\ ~SkipCorrupted
<1> SUFFICES ASSUME DropGarbage \/ SkipCorrupted PROVE FALSE OBVIOUS
<1>1. buffer \in Seq(Byte) /\ Len(buffer) \in Nat BY LenProperties DEF TypeOK
<1>2. buffer # <<>>
  <2>1. DropGarbage => buffer # <<>> BY DEF DropGarbage
  <2>2. SkipCorrupted => Announced \in 1..Len(buffer) BY <1>1, AnnouncedType DEF SkipCorrupted
  <2> QED BY <1>1, <2>1, <2>2, EmptySeq
<1> DEFINE f == Stream[1].frame
<1>3. /\ f \in 1..MaxFrames /\ Announced = Len(Frames[f])
      /\ \A j \in 1..Len(buffer) : j <= Len(Frames[f]) => buffer[j].at = j /\ buffer[j].frame = f
  BY <1>2, AlignedFront
<1> HIDE DEF f
<1>4. /\ Len(Frames[f]) \in Nat /\ Len(Frames[f]) >= 3 /\ Len(Frames[f]) <= MaxAdu
      /\ f \in DOMAIN Frames
  BY <1>3, FrameLength
<1>5. CASE DropGarbage
  <2>1. ~HasRequest /\ ~PlausibleFrameStart BY <1>5 DEF DropGarbage
  <2>2. Announced # 0 BY <1>3, <1>4
  <2>3. ~(Len(buffer) >= Announced) BY <2>1, <2>2 DEF HasRequest
  <2>4. ~(Len(buffer) <= MaxAdu) BY <2>1, <2>2 DEF PlausibleFrameStart
  <2>5. MaxAdu \in Nat BY FrameAssumption
  <2> QED BY <1>1, <1>3, <1>4, <2>3, <2>4, <2>5
<1>6. CASE SkipCorrupted
  <2>1. HasRequest /\ Corrupted BY <1>6 DEF SkipCorrupted
  <2>2. Announced \in 1..Len(buffer) BY <1>1, <2>1, AnnouncedType
  <2>3. \A j \in 1..Announced : j \in 1..Len(buffer) /\ j <= Len(Frames[f])
    BY <1>1, <1>3, <1>4, <2>2
  <2>4. Intact(f) BY <1>3, <2>3 DEF Intact
  <2> QED BY <1>4, <2>1, <2>4 DEF Corrupted
<1> QED BY <1>5, <1>6

\* The next frame, or the last one again, follows whole.
LEMMA AlignSent ==
  ASSUME TypeOK, AlignInv, SendFrame
  PROVE  AlignInv'
<1> SUFFICES ASSUME bursts = 0, ~split
             PROVE  /\ Whole(Stream') /\ Ascending(Stream', sent')
                    /\ wire' # <<>> => wire'[1].at # 2
                    /\ \A f \in 1..sent' : f \in Done' \/ \E i \in 1..Len(Stream') : Stream'[i].frame = f
  BY DEF AlignInv, SendFrame
<1>1. MaxFrames \in Nat /\ sent \in 0..MaxFrames /\ buffer \in Seq(Byte) /\ wire \in Seq(Byte)
  BY FrameAssumption, LenProperties DEF MaxFrames, TypeOK
<1> DEFINE f == sent'
           u == FrameBytes(f)
           s == Stream
           t == Stream'
           k == Len(s)
           m == Len(Frames[f])
<1>2. f \in 1..MaxFrames /\ sent <= f /\ (f = sent \/ f = sent + 1)
  <2>1. CASE sent < MaxFrames BY <2>1, <1>1 DEF SendFrame
  <2>2. CASE ~(sent < MaxFrames)
    <3>1. Endless /\ f = sent BY <2>2 DEF SendFrame
    <3>2. MaxFrames # 0 BY <3>1, FrameAssumption, EmptySeq DEF MaxFrames
    <3> QED BY <2>2, <3>1, <3>2, <1>1
  <2> QED BY <2>1, <2>2
<1>3. wire' = wire \o u /\ buffer' = buffer /\ Done' = Done BY DEF SendFrame, Done
<1> HIDE DEF f
<1>4. /\ u \in Seq(Byte) /\ Len(u) = m
      /\ \A i \in 1..m : u[i].frame = f /\ u[i].at = i
  BY <1>2, FrameBytesType
<1>5. m \in Nat /\ m >= 3 BY <1>2, FrameLength
<1> HIDE DEF u, m
<1>6. s \in Seq(Byte) /\ k \in Nat BY StreamBytes
<1>7. t = s \o u
  <2>1. (buffer \o wire) \o u = buffer \o (wire \o u) BY <1>1, <1>4, ConcatAssociative
  <2> QED BY <2>1, <1>3 DEF Stream
<1> HIDE DEF s, t
<1>8. /\ t \in Seq(Byte) /\ Len(t) = k + m
      /\ \A i \in 1..(k + m) : t[i] = IF i <= k THEN s[i] ELSE u[i - k]
  BY <1>4, <1>6, <1>7, ConcatProperties
<1>9. Whole(s) /\ Ascending(s, sent) /\ (wire # <<>> => wire[1].at # 2) BY DEF AlignInv, s
<1>10. /\ Whole(t) /\ Ascending(t, f)
       /\ \A g : (g = f \/ \E i \in 1..Len(s) : s[i].frame = g)
                   => \E i \in 1..Len(t) : t[i].frame = g
  <2>1. /\ Len(t) = Len(s) + Len(Frames[f])
        /\ \A i \in 1..(Len(s) + Len(Frames[f])) :
             t[i] = IF i <= Len(s) THEN s[i] ELSE FrameBytes(f)[i - Len(s)]
    BY <1>8 DEF u, m
  <2>2. sent \in Nat BY <1>1
  <2> QED BY <2>1, <2>2, <1>2, <1>6, <1>8, <1>9, WholeSent
<1>11. wire' # <<>> => wire'[1].at # 2
  <2> DEFINE w == wire'
             n == Len(wire)
  <2>1. /\ n \in Nat
        /\ \A i \in 1..(n + m) : w[i] = IF i <= n THEN wire[i] ELSE u[i - n]
    BY <1>1, <1>3, <1>4, ConcatProperties, LenProperties
  <2>2. 1 \in 1..(n + m) /\ 1 \in 1..m BY <2>1, <1>5
  <2>3. w[1] = IF 1 <= n THEN wire[1] ELSE u[1 - n] BY <2>1, <2>2
  <2>4. CASE wire = <<>>
    <3>1. n = 0 BY <2>4
    <3>2. w[1] = u[1] BY <2>3, <3>1
    <3> QED BY <3>2, <2>2, <1>4
  <2>5. CASE wire # <<>>
    <3>1. 1 <= n BY <2>5, <2>1, <1>1, EmptySeq
    <3> QED BY <3>1, <2>3, <2>5, <1>9
  <2> QED BY <2>4, <2>5
<1>12. \A g \in 1..f : g \in Done' \/ \E i \in 1..Len(t) : t[i].frame = g
  <2> SUFFICES ASSUME NEW g \in 1..f, g \notin Done, g # f
               PROVE  \E i \in 1..Len(s) : s[i].frame = g
    BY <1>3, <1>10
  <2>1. g \in 1..sent BY <1>1, <1>2
  <2> QED BY <2>1 DEF AlignInv, s
<1> QED BY <1>10, <1>11, <1>12 DEF f, t

\* A data event moves bytes on; unless it is unlucky, the next one does not
\* begin with the second byte of a frame.
LEMMA AlignData ==
  ASSUME TypeOK, AlignInv, NEW k \in Chunks, DataEvent(k)
  PROVE  AlignInv'
<1>1. /\ buffer \in Seq(Byte) /\ wire \in Seq(Byte) /\ Len(wire) \in Nat
      /\ k \in Nat /\ k <= Len(wire)
  BY StreamAssumption, LenProperties DEF TypeOK, DataEvent
<1>2. k \in 0..Len(wire) BY <1>1
<1>3. /\ buffer' = buffer \o SubSeq(wire, 1, k) /\ wire' = SubSeq(wire, k + 1, Len(wire))
      /\ split' = (split \/ (k < Len(wire) /\ wire[k + 1].at = 2))
      /\ bursts' = bursts /\ sent' = sent /\ Done' = Done
  BY DEF DataEvent, Done
<1>4. Stream' = Stream BY <1>1, <1>2, <1>3, Cut DEF Stream
<1>5. ASSUME ~split', wire' # <<>> PROVE wire'[1].at # 2
  <2> DEFINE w == wire'
  <2>1. /\ w \in Seq(Byte) /\ Len(w) = Len(wire) - k
        /\ \A i \in 1..(Len(wire) - k) : w[i] = wire[i + k]
    BY <1>1, <1>2, <1>3, RestOfSeq
  <2> HIDE DEF w
  <2>2. Len(w) # 0 BY <1>5, <2>1, EmptySeq DEF w
  <2>3. k < Len(wire) /\ 1 \in 1..(Len(wire) - k) /\ 1 + k = k + 1 BY <1>1, <2>1, <2>2
  <2>4. w[1] = wire[k + 1] BY <2>1, <2>3
  <2> QED BY <1>3, <1>5, <2>3, <2>4 DEF w
<1> QED BY <1>3, <1>4, <1>5 DEF AlignInv

\* The first frame is accepted as a whole.
LEMMA AlignAccept ==
  ASSUME TypeOK, AlignInv, Accept
  PROVE  AlignInv'
<1> SUFFICES ASSUME bursts = 0, ~split
             PROVE  /\ Whole(Stream') /\ Ascending(Stream', sent')
                    /\ wire' # <<>> => wire'[1].at # 2
                    /\ \A f \in 1..sent' : f \in Done' \/ \E i \in 1..Len(Stream') : Stream'[i].frame = f
  BY DEF AlignInv, Accept, Parsing
<1> DEFINE f == Stream[1].frame
           k == Announced
           s == Stream
           t == Stream'
<1>1. buffer \in Seq(Byte) /\ Len(buffer) \in Nat /\ requests \in Seq(1..MaxFrames)
  BY LenProperties DEF TypeOK
<1>2. k \in 1..Len(buffer) BY <1>1, AnnouncedType DEF Accept
<1>3. buffer # <<>> BY <1>1, <1>2, EmptySeq
<1>4. /\ f \in 1..MaxFrames /\ k = Len(Frames[f]) /\ buffer[1].frame = f /\ Stream # <<>>
  BY <1>3, AlignedFront
<1>5. requests' = <<f>> \o requests /\ buffer' = Drop(k) /\ wire' = wire /\ sent' = sent
      /\ handled' = handled
  BY <1>4 DEF Accept, Parsing
<1> HIDE DEF f, k
<1>6. k \in 0..Len(buffer) /\ k \in Nat BY <1>1, <1>2
<1>7. /\ s \in Seq(Byte) /\ k \in 0..Len(s)
      /\ SubSeq(buffer, k + 1, Len(buffer)) \o wire = SubSeq(s, k + 1, Len(s))
  BY <1>6, StreamRest
<1>8. t = SubSeq(s, k + 1, Len(s)) BY <1>5, <1>7 DEF Stream, Drop
<1> HIDE DEF t
<1>9. t \in Seq(Byte) /\ Len(t) = Len(s) - k /\ \A i \in 1..(Len(s) - k) : t[i] = s[i + k]
  BY <1>7, <1>8, RestOfSeq
<1>10. Len(s) \in Nat /\ k \in 1..Len(s) BY <1>2, <1>7, LenProperties
<1>11. /\ Whole(s) /\ Ascending(s, sent) /\ (wire # <<>> => wire[1].at # 2)
       /\ \A g \in 1..sent : g \in Done \/ \E i \in 1..Len(s) : s[i].frame = g
  BY DEF AlignInv
<1>12. s # <<>> /\ s[1].frame = f BY <1>4 DEF f
<1> HIDE DEF s
<1>13. /\ Whole(t) /\ Ascending(t, sent)
       /\ \A i \in 1..Len(s) : \/ s[i].frame = s[1].frame
                               \/ \E j \in 1..Len(t) : t[j].frame = s[i].frame
  <2>1. k = Len(Frames[s[1].frame]) BY <1>4, <1>12
  <2>2. Whole(s) /\ Ascending(s, sent) BY <1>11
  <2> QED BY <2>1, <2>2, <1>7, <1>9, <1>10, <1>12, WholeRest
<1>14. Done' = Done \cup {f}
  <2>1. /\ f \in 1..MaxFrames /\ requests \in Seq(1..MaxFrames)
        /\ requests' = <<f>> \o requests
    BY <1>1, <1>4, <1>5
  <2>2. Range(<<f>> \o requests) = {f} \cup Range(requests) BY <2>1, RangeOfCons, Zenon
  <2>3. Range(requests') = {f} \cup Range(requests) BY <2>1, <2>2, Zenon
  <2> QED BY <2>3, <1>5 DEF Done
<1>15. \A g \in 1..sent' : g \in Done' \/ \E j \in 1..Len(t) : t[j].frame = g
  <2> SUFFICES ASSUME NEW g \in 1..sent', g \notin Done' PROVE \E j \in 1..Len(t) : t[j].frame = g
    OBVIOUS
  <2>1. g \in 1..sent /\ g \notin Done /\ g # f BY <1>5, <1>14
  <2>2. PICK i \in 1..Len(s) : s[i].frame = g BY <2>1, <1>11
  <2> QED BY <2>1, <2>2, <1>12, <1>13
<1>16. Whole(t) /\ Ascending(t, sent') BY <1>5, <1>13
<1>17. wire' # <<>> => wire'[1].at # 2 BY <1>5, <1>11
<1> QED BY <1>15, <1>16, <1>17 DEF t

\* Every step keeps the stream whole.
LEMMA AlignStep ==
  ASSUME TypeOK, AlignInv, [Next]_vars
  PROVE  AlignInv'
<1>1. CASE \E b \in Bursts : Interfere(b)
  <2>1. bursts \in Nat /\ bursts' = bursts + 1
    BY <1>1, StreamAssumption DEF Interfere, TypeOK
  <2>2. bursts' # 0 BY <2>1
  <2> QED BY <2>2 DEF AlignInv
<1>2. CASE DropGarbage \/ SkipCorrupted
  <2>1. bursts' = bursts /\ split' = split BY <1>2 DEF DropGarbage, SkipCorrupted, Parsing
  <2> QED BY <1>2, <2>1, NothingDropped DEF AlignInv
<1>3. CASE HandleRequest \/ HandlerThrows
  <2>1. /\ requests # <<>> /\ requests' = Tail(requests)
        /\ handled' = handled \cup {Head(requests)}
        /\ buffer' = buffer /\ wire' = wire /\ sent' = sent /\ bursts' = bursts /\ split' = split
    BY <1>3 DEF HandleRequest, HandlerThrows, Handling
  <2>2. Range(requests) = {Head(requests)} \cup Range(requests')
    BY <2>1, RangeOfTail DEF TypeOK
  <2>3. Done' = Done BY <2>1, <2>2 DEF Done
  <2> QED BY <2>1, <2>3 DEF AlignInv, Stream
<1>4. CASE WaitForMore \/ DescribeThrows \/ NothingLeft \/ UNCHANGED vars
  <2>1. /\ requests' = requests /\ handled' = handled
        /\ buffer' = buffer /\ wire' = wire /\ sent' = sent /\ bursts' = bursts /\ split' = split
    BY <1>4 DEF WaitForMore, DescribeThrows, NothingLeft, Parsing, Handling, vars
  <2> QED BY <2>1 DEF AlignInv, Stream, Done
<1> QED BY <1>1, <1>2, <1>3, <1>4, AlignSent, AlignData, AlignAccept DEF Next, Loop

\* Every step keeps the loop of handle() at work while it has a request.
LEMMA IdleStep ==
  ASSUME IdleInv, [Next]_vars
  PROVE  IdleInv'
<1>1. ASSUME buffer' = buffer PROVE Throws' = Throws /\ HasRequest' = HasRequest
  BY <1>1 DEF Throws, HasRequest, Announced
<1>2. CASE SendFrame \/ (\E b \in Bursts : Interfere(b)) \/ UNCHANGED vars
  <2>1. buffer' = buffer /\ phase' = phase BY <1>2 DEF SendFrame, Interfere, vars
  <2> QED BY <1>1, <2>1 DEF IdleInv
<1>3. CASE (\E k \in Chunks : DataEvent(k)) \/ DropGarbage \/ SkipCorrupted \/ Accept
  <2>1. phase' = "parsing" BY <1>3 DEF DataEvent, DropGarbage, SkipCorrupted, Accept, Parsing
  <2> QED BY <2>1 DEF IdleInv
<1>4. CASE WaitForMore \/ DescribeThrows
  BY <1>1, <1>4 DEF IdleInv, WaitForMore, DescribeThrows
<1>5. CASE HandleRequest \/ HandlerThrows \/ NothingLeft
  <2>1. phase = "handling" /\ buffer' = buffer
    BY <1>5 DEF HandleRequest, HandlerThrows, NothingLeft, Handling
  <2> QED BY <1>1, <2>1 DEF IdleInv
<1> QED BY <1>2, <1>3, <1>4, <1>5 DEF Next, Loop

\* A frame all of whose bytes have arrived is in the buffer only behind a
\* device identification.
LEMMA AlignedLoss ==
  ASSUME TypeOK, AlignInv, IdleInv
  PROVE  LossHasCause
<1> SUFFICES ASSUME phase = "idle", bursts = 0, ~split, NEW f \in Lost
             PROVE  \E g \in 1..f : Identifies(g)
  BY DEF LossHasCause
<1> DEFINE s == Stream
           b == Len(buffer)
<1>1. /\ s \in Seq(Byte) /\ Len(s) \in Nat /\ b \in Nat
      /\ \A i \in 1..b : i \in 1..Len(s) /\ s[i] = buffer[i]
      /\ \A i \in 1..Len(s) : ~(i <= b) => i - b \in 1..Len(wire) /\ s[i] = wire[i - b]
  BY StreamBytes
<1>2. /\ Whole(s) /\ Ascending(s, sent)
      /\ \A g \in 1..sent : g \in Done \/ \E i \in 1..Len(s) : s[i].frame = g
  BY DEF AlignInv
<1>3. Throws \/ ~HasRequest BY DEF IdleInv
<1>4. f \in 1..sent /\ f \notin Done /\ \A i \in 1..Len(wire) : wire[i].frame # f
  BY DEF Lost, Delivered, Done
<1> HIDE DEF s, b
<1>5. \A i \in 1..Len(s) : s[i].frame = f => i <= b
  <2> SUFFICES ASSUME NEW i \in 1..Len(s), s[i].frame = f, ~(i <= b) PROVE FALSE OBVIOUS
  <2>1. PICK j \in 1..Len(wire) : s[i] = wire[j] BY <1>1
  <2> QED BY <2>1, <1>4
<1>6. PICK i \in 1..Len(s) : s[i].frame = f BY <1>2, <1>4
<1> DEFINE o == i - s[i].at
           e == Len(Frames[f])
<1>7. f \in 1..MaxFrames /\ s[i].at \in 1..i /\ FrameAt(s, o, f) BY <1>2, <1>6 DEF Whole
<1>8. e \in Nat /\ e >= 3 BY <1>7, FrameLength
<1>9. o \in Nat BY <1>1, <1>7
<1> HIDE DEF o
<1>10. /\ o + e <= Len(s)
       /\ \A j \in 1..e : s[o + j].frame = f /\ s[o + j].at = j
  BY <1>7 DEF FrameAt
<1> HIDE DEF e
<1>11. o + e <= b
  <2>1. o + e \in 1..Len(s) /\ e \in 1..e BY <1>1, <1>8, <1>9, <1>10
  <2> QED BY <2>1, <1>5, <1>10
<1>12. buffer # <<>>
  <2>1. b >= 1 BY <1>1, <1>8, <1>9, <1>11
  <2> QED BY <2>1 DEF b
<1> DEFINE g == s[1].frame
<1>13. /\ g \in 1..MaxFrames /\ Announced = Len(Frames[g]) /\ s # <<>>
  BY <1>12, AlignedFront DEF s
<1>14. Len(Frames[g]) \in Nat /\ Len(Frames[g]) >= 3 /\ Frames[g][2] = Len(Frames[g])
  BY <1>13, FrameLength
<1>15. CASE Throws
  <2>1. Identifies(g) BY <1>13, <1>14, <1>15 DEF Throws, Identifies
  <2>2. 1 \in 1..Len(s) /\ (i = 1 \/ 1 < i) BY <1>1, <1>6
  <2>3. g <= f
    <3>1. CASE i = 1 BY <3>1, <1>6, <1>7
    <3>2. CASE 1 < i BY <3>2, <2>2, <1>2, <1>6 DEF Ascending
    <3> QED BY <3>1, <3>2, <2>2
  <2> QED BY <2>1, <2>3, <1>7, <1>13
<1>16. CASE ~HasRequest
  <2>0. Announced # 0 BY <1>13, <1>14
  <2>1. b < Len(Frames[g]) BY <2>0, <1>16, <1>1, <1>13, <1>14 DEF HasRequest, b
  <2>2. /\ 1 \in 1..Len(s) /\ Len(Frames[g]) \in 1..Len(s)
        /\ \A j \in 1..Len(Frames[g]) : s[j].frame = g /\ s[j].at = j
    BY <1>1, <1>2, <1>13, FirstFrame
  <2> HIDE DEF g
  <2>3. o + 1 \in 1..Len(Frames[g]) /\ 1 \in 1..e BY <1>1, <1>8, <1>9, <1>11, <1>14, <2>1
  <2>4. g = f BY <2>2, <2>3, <1>10
  <2>5. e <= b BY <1>1, <1>8, <1>9, <1>11
  <2> QED BY <2>1, <2>4, <2>5, <1>1, <1>8 DEF e
<1> QED BY <1>3, <1>15, <1>16

\* On a line without interference, cut anywhere but behind the first byte of a
\* frame, only a device identification makes the server lose a frame, itself
\* and what follows.
THEOREM StreamLossHasCause == Spec => []LossHasCause
<1>1. Init => AlignInv /\ IdleInv
  <2> SUFFICES ASSUME Init PROVE AlignInv /\ IdleInv OBVIOUS
  <2>1. buffer = <<>> /\ wire = <<>> /\ sent = 0 BY DEF Init
  <2>2. Stream = <<>> BY <2>1, EmptySeq, ConcatEmptySeq DEF Stream
  <2>3. Len(Stream) = 0 BY <2>2
  <2>4. AlignInv BY <2>1, <2>3 DEF AlignInv, Whole, Ascending
  <2>5. ~HasRequest
    <3>1. Len(buffer) = 0 BY <2>1
    <3> QED BY <3>1 DEF HasRequest, Announced
  <2> QED BY <2>4, <2>5 DEF IdleInv
<1>2. TypeOK /\ AlignInv /\ IdleInv /\ [Next]_vars => AlignInv' /\ IdleInv'
  BY AlignStep, IdleStep
<1>3. TypeOK /\ AlignInv /\ IdleInv => LossHasCause BY AlignedLoss
<1> QED BY <1>1, <1>2, <1>3, StreamTypeCorrect, PTL DEF Spec
=============================================================================
