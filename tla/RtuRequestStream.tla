-------------------------- MODULE RtuRequestStream --------------------------
(* The Modbus/RTU server's byte stream: ModbusServerRequestHandler cuts it   *)
(* into requests and slides over interference; ModbusServerClient handles    *)
(* the requests.  A serial line has no message boundaries: a data event may  *)
(* bring any number of bytes.                                                *)
(*                                                                           *)
(* Of a byte the parser sees one thing: the length of the frame it would     *)
(* announce if it stood where a function code is expected.  That length is   *)
(* the byte's claim, 0 when it is no function code; claims above MaxAdu      *)
(* stand for bodies that never parse.  A CRC holds exactly when the bytes    *)
(* are those of one frame as it was sent.                                    *)
(*                                                                           *)
(* One claim is special.  handle() describes every parsed request to the     *)
(* debug log, which asks for body.address, and the device identification     *)
(* body throws when asked: it is the one body as long as IdentifyLen says.   *)
(*                                                                           *)
(* The loop of handle() and the loop of _onData() take one iteration per     *)
(* step; phase keeps the next data event out until both have ended.          *)
EXTENDS Integers, Sequences, SequencesExt

CONSTANTS
  Frames,      \* the frames the master sends: for each, the claims of its bytes
  IdentifyLen, \* the claim of READ_DEVICE_IDENTIFICATION
  Bursts,      \* interference: sequences of claims
  MaxAdu,      \* LIMITS.MAX_RTU_ADU_SIZE
  Chunks,      \* how many bytes a data event may bring
  Endless,     \* the master goes on for ever, repeating the last frame
  MaxBursts,   \* bound: bursts of interference
  MaxWire      \* bound: bytes on the wire

VARIABLES
  wire,        \* external: bytes sent and not delivered
  sent,        \* external: number of the last frame sent
  bursts,      \* external: bursts of interference so far
  buffer,      \* _buffer
  resyncing,   \* the local variable of handle()
  requests,    \* _requests: the numbers of the accepted frames
  phase,       \* "idle", "parsing" (in handle) or "handling" (in _onData)
  handled,     \* history: frames shifted from requests
  split        \* history: a data event ended after the first byte of a frame

vars == <<wire, sent, bursts, buffer, resyncing, requests, phase, handled, split>>

-----------------------------------------------------------------------------
MaxFrames == Len(Frames)
Byte == [frame: 0..MaxFrames, at: 0..MaxAdu, claim: Nat]
FrameBytes(f) == [i \in DOMAIN Frames[f] |-> [frame |-> f, at |-> i, claim |-> Frames[f][i]]]
Identifies(f) == Frames[f][2] = IdentifyLen
Interference(b) == [i \in 1..Len(b) |-> [frame |-> 0, at |-> 0, claim |-> b[i]]]

ASSUME FrameAssumption ==
  /\ MaxAdu \in Nat /\ IdentifyLen \in 3..MaxAdu
  /\ Frames \in Seq(Seq(Nat)) /\ (Endless => Frames # <<>>)
  /\ \A f \in DOMAIN Frames :
       /\ Len(Frames[f]) \in 3..MaxAdu /\ Frames[f][2] = Len(Frames[f])
       /\ \A i \in DOMAIN Frames[f] : Frames[f][i] = 0 \/ Frames[f][i] >= 3
ASSUME StreamAssumption ==
  /\ MaxBursts \in Nat /\ MaxWire \in Nat /\ Endless \in BOOLEAN
  /\ Bursts \subseteq Seq(Nat)
  /\ \A b \in Bursts : \A i \in DOMAIN b : b[i] = 0 \/ b[i] >= 3
  /\ Chunks \subseteq Nat \ {0}

(* ModbusRTURequest.fromBuffer.                                              *)
Announced == IF Len(buffer) >= 2 THEN buffer[2].claim ELSE 0
HasRequest == Announced # 0 /\ Len(buffer) >= Announced
Intact(f) ==
  /\ Announced = Len(Frames[f])
  /\ \A i \in 1..Announced : buffer[i].at = i /\ buffer[i].frame = f
Corrupted == ~\E f \in DOMAIN Frames : Intact(f)
\* request.toString() throws.
Throws == HasRequest /\ Announced = IdentifyLen

\* Mutants: no limit on what is waited for; two bytes are not enough.
PlausibleFrameStart_NoLimit == Announced # 0
PlausibleFrameStart_TwoBytes == Announced # 0 /\ Len(buffer) > 2 /\ Len(buffer) <= MaxAdu

\* A frame that may still be incomplete: a function code in the second place,
\* and no more bytes than a frame can have.
PlausibleFrameStart ==
  Announced # 0 /\ Len(buffer) <= MaxAdu

Drop(n) == SubSeq(buffer, n + 1, Len(buffer))

-----------------------------------------------------------------------------
Init ==
  /\ wire = <<>> /\ sent = 0 /\ bursts = 0
  /\ buffer = <<>> /\ resyncing = FALSE /\ requests = <<>> /\ phase = "idle"
  /\ handled = {} /\ split = FALSE

(* The master and the line.                                                  *)
SendFrame ==
  /\ sent < MaxFrames \/ Endless
  /\ sent' = IF sent < MaxFrames THEN sent + 1 ELSE sent
  /\ Len(wire) + Len(Frames[sent']) <= MaxWire
  /\ wire' = wire \o FrameBytes(sent')
  /\ UNCHANGED <<bursts, buffer, resyncing, requests, phase, handled, split>>

Interfere(b) ==
  /\ bursts < MaxBursts /\ Len(wire) + Len(b) <= MaxWire
  /\ bursts' = bursts + 1
  /\ wire' = wire \o Interference(b)
  /\ UNCHANGED <<sent, buffer, resyncing, requests, phase, handled, split>>

\* handle is entered with a chunk of k bytes.
DataEvent(k) ==
  /\ phase = "idle" /\ k <= Len(wire)
  /\ buffer' = buffer \o SubSeq(wire, 1, k)
  /\ wire' = SubSeq(wire, k + 1, Len(wire))
  /\ resyncing' = FALSE /\ phase' = "parsing"
  /\ split' = (split \/ (k < Len(wire) /\ wire[k + 1].at = 2))
  /\ UNCHANGED <<sent, bursts, requests, handled>>

-----------------------------------------------------------------------------
(* The loop of handle().                                                     *)
Parsing == phase = "parsing" /\ UNCHANGED <<wire, sent, bursts, handled, split>>

WaitForMore ==
  /\ Parsing /\ ~HasRequest
  /\ PlausibleFrameStart \/ buffer = <<>>
  /\ phase' = "handling"
  /\ UNCHANGED <<buffer, resyncing, requests>>

DropGarbage ==
  /\ Parsing /\ ~HasRequest
  /\ ~PlausibleFrameStart /\ buffer # <<>>
  /\ buffer' = Tail(buffer) /\ resyncing' = TRUE
  /\ UNCHANGED <<requests, phase>>

\* The exception leaves handle() and _onData(), corrupted frame or not.  The
\* request stays in front of the buffer, the queue is not served.
DescribeThrows ==
  /\ Parsing /\ Throws
  /\ phase' = "idle"
  /\ UNCHANGED <<buffer, resyncing, requests>>

\* Corrupted: one byte is dropped while resyncing, else what was announced.
SkipCorrupted ==
  /\ Parsing /\ HasRequest /\ ~Throws /\ Corrupted
  /\ buffer' = IF resyncing THEN Tail(buffer) ELSE Drop(Announced)
  /\ UNCHANGED <<resyncing, requests, phase>>

\* Mutants: the CRC is not looked at; an accepted frame stays in the
\* buffer.
Accept_Corrupted ==
  /\ Parsing /\ HasRequest /\ ~Throws
  /\ requests' = <<buffer[1].frame>> \o requests
  /\ resyncing' = FALSE /\ buffer' = Drop(Announced)
  /\ UNCHANGED phase
Accept_NotConsumed ==
  /\ Parsing /\ HasRequest /\ ~Throws /\ ~Corrupted
  /\ requests' = <<buffer[1].frame>> \o requests
  /\ resyncing' = FALSE
  /\ UNCHANGED <<buffer, phase>>

Accept ==
  /\ Parsing /\ HasRequest /\ ~Throws /\ ~Corrupted
  /\ requests' = <<buffer[1].frame>> \o requests
  /\ resyncing' = FALSE /\ buffer' = Drop(Announced)
  /\ UNCHANGED phase

-----------------------------------------------------------------------------
(* The loop of _onData().                                                    *)
Handling == phase = "handling" /\ UNCHANGED <<wire, sent, bursts, buffer, resyncing, split>>

HandleRequest ==
  /\ Handling /\ requests # <<>>
  /\ handled' = handled \cup {Head(requests)} /\ requests' = Tail(requests)
  /\ UNCHANGED phase

\* The response handler throws: the other requests wait for the next event.
HandlerThrows ==
  /\ Handling /\ requests # <<>>
  /\ handled' = handled \cup {Head(requests)} /\ requests' = Tail(requests)
  /\ phase' = "idle"

NothingLeft ==
  /\ Handling /\ requests = <<>>
  /\ phase' = "idle" /\ UNCHANGED <<requests, handled>>

-----------------------------------------------------------------------------
Loop == WaitForMore \/ DropGarbage \/ DescribeThrows \/ SkipCorrupted \/ Accept
        \/ HandleRequest \/ HandlerThrows \/ NothingLeft
Next ==
  \/ SendFrame \/ (\E b \in Bursts : Interfere(b))
  \/ (\E k \in Chunks : DataEvent(k))
  \/ Loop

Spec == Init /\ [][Next]_vars

\* A loop that has begun runs on, sent bytes arrive, the master keeps asking.
FairSpec == Spec /\ WF_vars(Loop) /\ WF_vars(\E k \in Chunks : DataEvent(k)) /\ WF_vars(SendFrame)

-----------------------------------------------------------------------------
TypeOK ==
  /\ wire \in Seq(Byte) /\ buffer \in Seq(Byte)
  /\ sent \in 0..MaxFrames /\ bursts \in 0..MaxBursts
  /\ requests \in Seq(1..MaxFrames) /\ handled \subseteq 1..MaxFrames
  /\ resyncing \in BOOLEAN /\ split \in BOOLEAN
  /\ phase \in {"idle", "parsing", "handling"}

\* Between data events the buffer never outgrows a frame, whatever the line
\* brings, except when a device identification stands in front of it: then
\* the handler hoards every byte that comes, a defect EveryFrameHandled shows.
BufferBounded == phase = "idle" /\ ~Throws => Len(buffer) <= MaxAdu

\* The parser accepts a frame at most once and in the order of sending, even
\* when it slides over interference and when requests of an earlier data event
\* are still queued.  (The queue itself is last in, first out.)
AcceptedInOrder ==
  [][Len(requests') > Len(requests) =>
       /\ Tail(requests') = requests
       /\ \A g \in handled \cup Range(requests) : g < Head(requests')]_vars

\* The frames whose last byte has been delivered.
Delivered == {f \in 1..sent : \A i \in 1..Len(wire) : wire[i].frame # f}
Lost == {f \in Delivered : f \notin handled \cup Range(requests)}

\* Without interference a frame is lost only if some data event ended right
\* after the first byte of a frame (all other ways to cut the stream are safe)
\* or if it is a device identification or comes after one.
LossHasCause ==
  phase = "idle" /\ bursts = 0 /\ ~split =>
    \A f \in Lost : \E g \in 1..f : Identifies(g)

\* "should not drop bytes of a valid frame split across data events": on a line
\* without interference no frame is lost.
NothingLost == phase = "idle" /\ bursts = 0 => Lost = {}

\* "It supports modbus function codes 1 - 6, 15, 16 and 43/14": on a line
\* without interference every frame the master sends is handled, a device
\* identification like any other.
EveryFrameHandled == \A f \in 1..MaxFrames : sent >= f ~> f \in handled

\* "We recover by sliding a one-byte window until a real frame aligns": a
\* master that keeps sending whole frames is heard again and again.
Recovers == []<>(requests # <<>>)
=============================================================================
