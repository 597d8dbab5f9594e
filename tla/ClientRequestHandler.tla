------------------------ MODULE ClientRequestHandler ------------------------
(* The client's request line: MBClientRequestHandler with the UserRequests   *)
(* it holds, the socket below it and the response loop above it.  What the   *)
(* two transports share is here; TcpClient and RtuClient add the rest.       *)
(*                                                                           *)
(* Requests are numbered 1, 2, ... in the order of their registration.  Node *)
(* runs one callback at a time, so every callback is one action, except the  *)
(* loop of MBClient._onData: it handles one response per step, and draining  *)
(* keeps every other callback out until it ends.                             *)
EXTENDS Integers, Sequences, Functions

CONSTANTS
  MaxRequests,  \* bound: the number of requests the user registers
  MaxInbox,     \* bound: responses on their way to the response loop
  FC,           \* function codes
  Noise         \* responses the peer may send besides the right answers

VARIABLES
  state,        \* _state
  current,      \* _currentRequest, or None
  requests,     \* _requests, the queue
  outcome,      \* how each promise stands; a promise settles once
  timers,       \* requests whose timeout is armed
  immediates,   \* pending setTimeout(_flush, 0) callbacks
  issued,       \* the function codes of the requests registered so far
  answeredBy,   \* history: whose answer settled a request (None: nobody's)
  link,         \* the socket: "up" or "down"
  delivered,    \* external: requests the peer has received and not answered
  inbox,        \* external: responses not yet seen by a data event
  messages,     \* _messages of the response handler
  draining      \* the loop of _onData is running

handler == <<state, current, requests, outcome, timers, immediates, answeredBy>>
network == <<link, delivered, inbox>>
vars == <<handler, issued, network, messages, draining>>

-----------------------------------------------------------------------------
None == 0
Req == 1..MaxRequests
Errors == {"OutOfSync", "Offline", "ModbusException", "ManuallyCleared",
           "Custom", "Timeout", "Protocol", "crcMismatch"}
Outcomes == {"none", "pending", "resolved"} \cup Errors
Registered == Len(issued)

\* A parsed response.  origin is the request whose answer it is (None when it
\* answers no request of ours): the code never sees it, TcpClient derives the
\* transaction id from it.  An exception whose code errorCodeToMessage does
\* not know is "unknownException".  The envelope is what the transport checks:
\* the unit id, then the protocol number (TCP) or the CRC (RTU).
Kinds == {"normal", "exception", "unknownException"}
Response == [origin: Req \cup {None}, fc: FC, kind: Kinds,
             envelope: {"good", "otherUnit", "broken"}]

ASSUME BoundsAssumption == MaxRequests \in Nat /\ MaxInbox \in Nat
ASSUME NoiseAssumption == Noise \subseteq Response

-----------------------------------------------------------------------------
(* UserRequest: the first call of resolve or reject settles the promise.     *)
SettleAll(out, S, how) ==
  [r \in Req |-> IF r \in S /\ out[r] = "pending" THEN how ELSE out[r]]
Settle(out, r, how) == SettleAll(out, {r}, how)

\* Mutant of Flush: the request registered last is served first.
Flush_Pop(q, out, tm, imm) ==
  LET newest == q[Len(q)]
      others == SubSeq(q, 1, Len(q) - 1)
  IN \/ /\ q = <<>>
        /\ current' = None /\ requests' = q /\ outcome' = out
        /\ timers' = tm /\ immediates' = imm
        /\ UNCHANGED delivered
     \/ /\ q # <<>> /\ state = "offline"
        /\ current' = None /\ requests' = others
        /\ outcome' = Settle(out, newest, "Offline")
        /\ timers' = tm \ {newest} /\ immediates' = imm + 1
        /\ UNCHANGED delivered
     \/ /\ q # <<>> /\ state = "online"
        /\ current' = newest /\ requests' = others /\ outcome' = out
        /\ timers' = tm \cup {newest} /\ immediates' = imm
        /\ delivered' = IF link = "up" THEN delivered \cup {newest} ELSE delivered

(* _flush, called with no current request: the next request is started, or   *)
(* rejected when the client is offline.  The other variables are as the      *)
(* caller left them: queue q, promises out, armed timers tm, callbacks imm.  *)
Flush(q, out, tm, imm) ==
  \/ /\ q = <<>>
     /\ current' = None /\ requests' = q /\ outcome' = out
     /\ timers' = tm /\ immediates' = imm
     /\ UNCHANGED delivered
  \/ /\ q # <<>> /\ state = "offline"
     /\ current' = None /\ requests' = Tail(q)
     /\ outcome' = Settle(out, Head(q), "Offline")
     /\ timers' = tm \ {Head(q)} /\ immediates' = imm + 1
     /\ UNCHANGED delivered
  \/ /\ q # <<>> /\ state = "online"
     /\ current' = Head(q) /\ requests' = Tail(q) /\ outcome' = out
     /\ timers' = tm \cup {Head(q)} /\ immediates' = imm
     /\ delivered' = IF link = "up" THEN delivered \cup {Head(q)} ELSE delivered

\* Mutants of _clearAllRequests: done() is not called; the queue is dropped.
ClearAllRequests_TimerKept(how) ==
  /\ outcome' = SettleAll(Settle(outcome, current, how), Range(requests), "OutOfSync")
  /\ current' = None /\ requests' = <<>>
  /\ UNCHANGED <<timers, immediates>>
ClearAllRequests_QueueDropped(how) ==
  /\ outcome' = Settle(outcome, current, how)
  /\ current' = None /\ requests' = <<>>
  /\ timers' = timers \ {current}
  /\ UNCHANGED immediates

(* _clearAllRequests, after the current request was rejected with how.       *)
ClearAllRequests(how) ==
  /\ outcome' = SettleAll(Settle(outcome, current, how), Range(requests), "OutOfSync")
  /\ current' = None /\ requests' = <<>>
  /\ timers' = timers \ {current}
  /\ UNCHANGED immediates

Init ==
  /\ link \in {"up", "down"}
  /\ current = None /\ requests = <<>> /\ timers = {} /\ immediates = 0
  /\ issued = <<>>
  /\ outcome = [r \in Req |-> "none"]
  /\ answeredBy = [r \in Req |-> None]
  /\ delivered = {} /\ inbox = <<>> /\ messages = <<>> /\ draining = FALSE

-----------------------------------------------------------------------------
(* The user.                                                                 *)

\* Mutant: unshift instead of push.
Register_Unshift(fc) ==
  /\ ~draining /\ Registered < MaxRequests
  /\ LET r == Registered + 1
         out == [outcome EXCEPT ![r] = "pending"]
     IN IF current # None
        THEN /\ requests' = <<r>> \o requests /\ outcome' = out
             /\ UNCHANGED <<current, timers, immediates, delivered>>
        ELSE Flush(Append(requests, r), out, timers, immediates)
  /\ issued' = Append(issued, fc)
  /\ UNCHANGED <<state, answeredBy, link, inbox, messages, draining>>

\* readCoils, writeSingleCoil, ...: a body of function code fc is registered.
Register(fc) ==
  /\ ~draining /\ Registered < MaxRequests
  /\ LET r == Registered + 1
         out == [outcome EXCEPT ![r] = "pending"]
     IN IF current # None
        THEN /\ requests' = Append(requests, r) /\ outcome' = out
             /\ UNCHANGED <<current, timers, immediates, delivered>>
        ELSE Flush(Append(requests, r), out, timers, immediates)
  /\ issued' = Append(issued, fc)
  /\ UNCHANGED <<state, answeredBy, link, inbox, messages, draining>>

\* Mutant: the rejected request's timeout is stopped, the request stays current.
ManuallyRejectCurrentRequest_Stopped ==
  /\ ~draining /\ current # None
  /\ outcome' = Settle(outcome, current, "ManuallyCleared")
  /\ timers' = timers \ {current}
  /\ UNCHANGED <<state, current, requests, immediates, answeredBy,
                 issued, network, messages, draining>>

\* The _flush at the end finds the current request still in place and returns.
ManuallyRejectCurrentRequest ==
  /\ ~draining /\ current # None
  /\ outcome' = Settle(outcome, current, "ManuallyCleared")
  /\ UNCHANGED <<state, current, requests, timers, immediates, answeredBy,
                 issued, network, messages, draining>>

\* The n calls all meet the same current request, so n of them do what one does.
ManuallyRejectRequests(n) == n > 0 /\ ManuallyRejectCurrentRequest

CustomErrorRequest ==
  /\ ~draining /\ current # None
  /\ outcome' = Settle(outcome, current, "Custom")
  /\ UNCHANGED <<state, current, requests, timers, immediates, answeredBy,
                 issued, network, messages, draining>>

-----------------------------------------------------------------------------
(* Timers.                                                                   *)

\* Mutant: the callback of start clears the current request without flushing.
TimeoutFires_NoFlush(r) ==
  /\ ~draining /\ r \in timers
  /\ outcome' = Settle(outcome, r, "Timeout")
  /\ current' = None /\ timers' = timers \ {r, current}
  /\ UNCHANGED <<state, requests, immediates, answeredBy, issued, network,
                 messages, draining>>

\* The timeout armed by start: reject, then the callback, which clears the
\* request that is current now and flushes.
TimeoutFires(r) ==
  /\ ~draining /\ r \in timers
  /\ Flush(requests, Settle(outcome, r, "Timeout"), timers \ {r, current}, immediates)
  /\ UNCHANGED <<state, answeredBy, issued, link, inbox, messages, draining>>

\* Mutant: the deferred _flush does not see that a request is in service.
ImmediateFires_Unguarded ==
  /\ ~draining /\ immediates > 0
  /\ Flush(requests, outcome, timers, immediates - 1)
  /\ UNCHANGED <<state, answeredBy, issued, link, inbox, messages, draining>>

\* The deferred _flush: meanwhile the socket may have connected and another
\* request may be in service.
ImmediateFires ==
  /\ ~draining /\ immediates > 0
  /\ IF current # None
     THEN /\ immediates' = immediates - 1
          /\ UNCHANGED <<current, requests, outcome, timers, delivered>>
     ELSE Flush(requests, outcome, timers, immediates - 1)
  /\ UNCHANGED <<state, answeredBy, issued, link, inbox, messages, draining>>

-----------------------------------------------------------------------------
(* The socket and, behind it, the peer.                                      *)

LinkUp ==
  /\ ~draining /\ link = "down"
  /\ link' = "up" /\ state' = "online"
  /\ UNCHANGED <<current, requests, outcome, timers, immediates, answeredBy,
                 issued, delivered, inbox, messages, draining>>

\* The responses on their way are lost; the parsed ones in messages are not.
LinkLost ==
  /\ ~draining /\ link = "up"
  /\ link' = "down" /\ inbox' = <<>>
  /\ UNCHANGED <<issued, answeredBy, messages, draining>>

Send(res) ==
  /\ ~draining /\ link = "up" /\ Len(inbox) + Len(messages) < MaxInbox
  /\ inbox' = Append(inbox, res)
  /\ UNCHANGED <<handler, issued, link, messages, draining>>

\* A correct peer answers a request once, in any order, late, or never.
Answer(r, kind) ==
  /\ r \in delivered
  /\ delivered' = delivered \ {r}
  /\ Send([origin |-> r, fc |-> issued[r], kind |-> kind, envelope |-> "good"])

\* A faulty one may send noise: duplicates, unsolicited or damaged responses.
Misbehave(res) ==
  /\ res.origin \in (0..Registered) \ Range(requests)
  /\ UNCHANGED delivered
  /\ Send(res)

\* A data event: the chunk completes the next k responses (0: a partial one).
DataEvent(k) ==
  /\ ~draining /\ link = "up"
  /\ messages' = messages \o SubSeq(inbox, 1, k)
  /\ inbox' = SubSeq(inbox, k + 1, Len(inbox))
  /\ draining' = TRUE
  /\ UNCHANGED <<handler, issued, link, delivered>>

-----------------------------------------------------------------------------
(* The loop of _onData.  response is what shift() returns; every step that   *)
(* takes one is a conjunction with Handling.                                 *)

DrainEnds ==
  /\ draining /\ messages = <<>>
  /\ draining' = FALSE
  /\ UNCHANGED <<handler, issued, network, messages>>

Handling ==
  /\ draining /\ messages # <<>>
  /\ messages' = Tail(messages)
  /\ UNCHANGED <<state, issued, link, inbox>>
response == Head(messages)
InService == current # None /\ response.envelope # "otherUnit"

\* Meant for another unit, or no request is waiting.
IgnoreResponse ==
  /\ Handling /\ ~InService
  /\ UNCHANGED <<current, requests, outcome, timers, immediates, answeredBy,
                 delivered, draining>>

\* A check failed: the current request and the whole queue are rejected.
Desynchronise(how) ==
  /\ ClearAllRequests(how)
  /\ UNCHANGED <<answeredBy, delivered, draining>>

\* _clearCurrentRequest and _flush, once the promise has been settled.
Finish(how) ==
  /\ answeredBy' = IF outcome[current] = "pending"
                   THEN [answeredBy EXCEPT ![current] = response.origin]
                   ELSE answeredBy
  /\ Flush(requests, Settle(outcome, current, how), timers \ {current}, immediates)
  /\ UNCHANGED draining

\* Mutant: the response is compared with the request registered last.
FcMismatch_LastRegistered ==
  /\ response.kind = "normal" /\ response.fc # issued[Registered]
  /\ Desynchronise("OutOfSync")

FcMismatch ==
  /\ response.kind = "normal" /\ response.fc # issued[current]
  /\ Desynchronise("OutOfSync")

ExceptionResponse == response.kind = "exception" /\ Finish("ModbusException")

\* errorCodeToMessage throws before the request is rejected: _onData is left,
\* the remaining messages wait for the next data event.
UnknownException ==
  /\ response.kind = "unknownException"
  /\ draining' = FALSE
  /\ UNCHANGED <<current, requests, outcome, timers, immediates, answeredBy, delivered>>

\* Mutant: the function code is not compared.
NormalResponse_AnyFc == response.kind = "normal" /\ Finish("resolved")

NormalResponse ==
  /\ response.kind = "normal" /\ response.fc = issued[current]
  /\ Finish("resolved")

\* MBClientRequestHandler.handle, with a request in service.
Handle == FcMismatch \/ ExceptionResponse \/ UnknownException \/ NormalResponse

-----------------------------------------------------------------------------
UserStep ==
  \/ \E fc \in FC : Register(fc)
  \/ \E n \in 1..MaxRequests : ManuallyRejectRequests(n)
  \/ CustomErrorRequest
TimerStep == ImmediateFires \/ \E r \in Req : TimeoutFires(r)
PeerStep ==
  \/ \E r \in Req, kind \in Kinds : Answer(r, kind)
  \/ \E f \in Noise : Misbehave(f)
DataStep == (\E k \in 0..Len(inbox) : DataEvent(k)) \/ DrainEnds \/ IgnoreResponse

-----------------------------------------------------------------------------
(* The properties both transports share.                                     *)

TypeOK ==
  /\ state \in {"online", "offline"} /\ link \in {"up", "down"}
  /\ draining \in BOOLEAN
  /\ current \in Req \cup {None}
  /\ requests \in Seq(Req) /\ issued \in Seq(FC) /\ Registered <= MaxRequests
  /\ outcome \in [Req -> Outcomes]
  /\ timers \subseteq Req /\ immediates \in Nat
  /\ answeredBy \in [Req -> Req \cup {None}]
  /\ delivered \subseteq 1..Registered
  /\ inbox \in Seq(Response) /\ messages \in Seq(Response)

\* The requests that wait to be served, the one in service first.
Line == (IF current = None THEN <<>> ELSE <<current>>) \o requests

\* A timeout is armed for the request in service and for no other, whichever
\* of an answer, a timeout, a failed check, a rejection by hand or a close
\* ended the previous one: clearing "the current request" in start's callback
\* never hits a request that is not the timed-out one.
OneInFlight == timers = {current} \ {None}

\* The queue is never left waiting with nobody in service to flush it.
NoStall == requests # <<>> => current # None

\* A promise that has not settled belongs to a request still in the line: no
\* handler drops a UserRequest without rejecting it.
NoOrphan == \A r \in Req : outcome[r] = "pending" => r \in Range(Line)

\* An offline client holds no request at all: all were rejected on close.
OfflineIdle == state = "offline" => Line = <<>>

\* The inductive invariant.  Waiting: with n requests registered and cur in
\* service, the queue q is in the order of registration and holds every other
\* pending request.  LineInv adds the one armed timeout.
Waiting(n, cur, q, out) ==
  /\ q \in Seq(1..n) /\ out \in [Req -> Outcomes]
  /\ \A i, j \in 1..Len(q) : i < j => q[i] < q[j]
  /\ \A i \in 1..Len(q) : cur < q[i] /\ out[q[i]] = "pending"
  /\ \A r \in Req : /\ out[r] = "none" <=> r > n
                    /\ out[r] = "pending" => r = cur \/ \E i \in 1..Len(q) : q[i] = r
LineInv(n, cur, q, out, tm) ==
  /\ cur \in 0..n /\ Waiting(n, cur, q, out)
  /\ tm = {cur} \ {None}
  /\ q # <<>> => cur # None
IInv ==
  /\ TypeOK
  /\ LineInv(Registered, current, requests, outcome, timers)
  /\ state = "offline" => current = None

\* Every handler step is a step of the abstract request line, or none.
Settled == {r \in Req : outcome[r] \notin {"none", "pending"}}
Abstract == INSTANCE RequestLine WITH
  submitted <- Registered, line <- Line, settled <- Settled
ImplementsRequestLine == Abstract!LineSpec

\* With a peer that answers every request at most once, an OutOfSync has a
\* cause the user saw before it: some earlier request was given up (its answer
\* came late), a connection closed, or a response came damaged.
GivenUp == {"Timeout", "ManuallyCleared", "Custom", "Offline", "crcMismatch", "Protocol"}
LossHasCause ==
  \A r \in Req : outcome[r] = "OutOfSync" => \E q \in 1..(r - 1) : outcome[q] \in GivenUp

\* Every promise settles, whatever the peer does: the timeout sees to it.
EveryPromiseSettles == \A r \in Req : outcome[r] = "pending" ~> outcome[r] # "pending"

\* No request occupies the line for ever, not even one rejected by hand.
EveryRequestDeparts == \A r \in Req : r \in Range(Line) ~> r \notin Range(Line)
=============================================================================
