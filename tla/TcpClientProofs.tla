-------------------------- MODULE TcpClientProofs --------------------------
(* Theorems about the Modbus/TCP client, for every value of the constants.   *)
EXTENDS TcpClient, ClientRequestHandlerProofs

\* _onClose leaves an empty line behind.
LEMMA OnCloseIInv ==
  ASSUME IInv, OnClose
  PROVE  IInv'
<1>1. UNCHANGED <<issued, answeredBy, messages, draining>> /\ Registered' = Registered
      /\ state' = "offline" /\ link' = "down" /\ delivered' = {} /\ inbox' = <<>>
  BY DEF OnClose, LinkLost, Registered
<1>2. LineInv(Registered, current', requests', outcome', timers')
      /\ current' = None /\ UNCHANGED immediates
  BY InState, ClearLine DEF Core, OnClose, Outcomes, Errors
<1>3. Core' BY <1>1, <1>2, InState DEF Core
<1>4. Env' BY <1>1, InState, EmptySeq DEF Env
<1> QED BY <1>3, <1>4, IInvParts

\* Every step of the client preserves the inductive invariant.
LEMMA TcpNextIInv ==
  ASSUME IInv, [TcpNext]_vars
  PROVE  IInv'
<1>1. CASE OnClose BY <1>1, OnCloseIInv
<1>2. CASE IdMismatch
  BY <1>2, DesynchroniseIInv DEF IdMismatch, Outcomes, Errors
<1>3. CASE WrongProtocol
  BY <1>3, DesynchroniseIInv DEF WrongProtocol, Outcomes, Errors
<1>4. CASE TcpHandle BY <1>4, HandleIInv DEF TcpHandle
<1>5. CASE UserStep \/ TimerStep \/ PeerStep \/ DataStep \/ OnConnect \/ UNCHANGED vars
  BY <1>5, SharedStepIInv DEF OnConnect
<1> QED BY <1>1, <1>2, <1>3, <1>4, <1>5 DEF TcpNext

\* IInv holds in every state of the client.
THEOREM TcpInductiveInvariant == Spec => []IInv
<1>1. TcpInit => IInv BY InitIInv DEF TcpInit
<1>2. IInv /\ [TcpNext]_vars => IInv' BY TcpNextIInv
<1> QED BY <1>1, <1>2, PTL DEF Spec

\* The variables always have their types.
THEOREM TcpTypeCorrect == Spec => []TypeOK
<1>1. IInv => TypeOK BY IInvImplies
<1> QED BY <1>1, TcpInductiveInvariant, PTL

\* However a request ended, the one in service has the only armed timeout.
THEOREM TcpOneInFlight == Spec => []OneInFlight
<1>1. IInv => OneInFlight BY IInvImplies
<1> QED BY <1>1, TcpInductiveInvariant, PTL

\* The queue never waits with nobody in service.
THEOREM TcpNoStall == Spec => []NoStall
<1>1. IInv => NoStall BY IInvImplies
<1> QED BY <1>1, TcpInductiveInvariant, PTL

\* No handler drops a request without settling its promise.
THEOREM TcpNoOrphan == Spec => []NoOrphan
<1>1. IInv => NoOrphan BY IInvImplies
<1> QED BY <1>1, TcpInductiveInvariant, PTL

\* A client that is offline holds no request.
THEOREM TcpOfflineIdle == Spec => []OfflineIdle
<1>1. IInv => OfflineIdle BY IInvImplies
<1> QED BY <1>1, TcpInductiveInvariant, PTL

\* A client that says online has a connected socket.
THEOREM TcpOnlineIsConnected == Spec => []OnlineIsConnected
<1>1. TcpInit => OnlineIsConnected BY DEF TcpInit, OnlineIsConnected
<1>2. OnlineIsConnected /\ [TcpNext]_vars => OnlineIsConnected'
  <2> SUFFICES ASSUME OnlineIsConnected, [TcpNext]_vars PROVE OnlineIsConnected'
    OBVIOUS
  <2>1. CASE OnConnect \/ OnClose
    BY <2>1 DEF OnConnect, OnClose, LinkUp, LinkLost, OnlineIsConnected
  <2>2. CASE UserStep \/ TimerStep \/ UNCHANGED vars
    BY <2>2 DEF UserStep, Register, ManuallyRejectRequests,
       ManuallyRejectCurrentRequest, CustomErrorRequest, TimerStep, TimeoutFires,
       ImmediateFires, vars, handler, network, OnlineIsConnected
  <2>3. CASE PeerStep \/ DataStep
    BY <2>3 DEF PeerStep, Answer, Misbehave, Send, DataStep, DataEvent, DrainEnds,
       IgnoreResponse, Handling, handler, network, OnlineIsConnected
  <2>4. CASE IdMismatch \/ WrongProtocol \/ TcpHandle
    BY <2>4 DEF IdMismatch, WrongProtocol, TcpHandle, Handling, OnlineIsConnected
  <2> QED BY <2>1, <2>2, <2>3, <2>4 DEF TcpNext
<1> QED BY <1>1, <1>2, PTL DEF Spec

\* Every step of the client is a step of the abstract request line, or none.
LEMMA TcpNextRefines ==
  ASSUME IInv, [TcpNext]_vars
  PROVE  AbstractStep
<1>1. CASE OnClose
  BY <1>1, ClearRefines DEF OnClose, LinkLost, Outcomes, Errors
<1>2. CASE IdMismatch
  BY <1>2, ClearRefines DEF IdMismatch, Handling, Desynchronise, Outcomes, Errors
<1>3. CASE WrongProtocol
  BY <1>3, ClearRefines DEF WrongProtocol, Handling, Desynchronise, Outcomes, Errors
<1>4. CASE TcpHandle BY <1>4, HandleRefines DEF TcpHandle
<1>5. CASE UserStep \/ TimerStep \/ PeerStep \/ DataStep \/ OnConnect \/ UNCHANGED vars
  BY <1>5, SharedStepRefines DEF OnConnect
<1> QED BY <1>1, <1>2, <1>3, <1>4, <1>5 DEF TcpNext

\* The client implements RequestLine: requests are served one at a time in the
\* order of their registration, promises settle once and for good, and none
\* leaves the line unsettled.
THEOREM TcpImplements == Spec => ImplementsRequestLine
<1>1. TcpInit => Abstract!LineInit BY InitRefines DEF TcpInit
<1>2. IInv /\ [TcpNext]_vars => [Abstract!LineNext]_(Abstract!lineVars)
  BY TcpNextRefines DEF AbstractStep
<1> QED
  BY <1>1, <1>2, TcpInductiveInvariant, PTL DEF Spec, ImplementsRequestLine, Abstract!LineSpec

-----------------------------------------------------------------------------
(* What every step does to the line and to the responses on their way.       *)

\* Every step of the client moves the line on.
LEMMA TcpMovesOn ==
  ASSUME IInv, Behind, [TcpNext]_vars
  PROVE  MovesOn
<1>1. CASE UserStep \/ TimerStep \/ PeerStep \/ DataStep \/ OnConnect \/ UNCHANGED vars
  BY <1>1, SharedStepMovesOn DEF OnConnect
<1>2. CASE OnClose
  BY <1>2, ClearMovesOn DEF OnClose, LinkLost, Outcomes, Errors
<1>3. CASE IdMismatch \/ WrongProtocol
  BY <1>3, LoopMovesOn DEF IdMismatch, WrongProtocol, Outcomes, Errors
<1>4. CASE TcpHandle BY <1>4, LoopMovesOn DEF TcpHandle
<1> QED BY <1>1, <1>2, <1>3, <1>4 DEF TcpNext

\* And lets the responses move on.
LEMMA TcpTraffic ==
  ASSUME IInv, [TcpNext]_vars
  PROVE  Traffic(0) \/ Traffic(1)
<1>1. CASE UserStep \/ TimerStep \/ PeerStep \/ DataStep \/ OnConnect \/ UNCHANGED vars
  BY <1>1, SharedStepTraffic DEF OnConnect
<1>2. CASE OnClose BY <1>2, QuietTraffic DEF OnClose, LinkLost
<1>3. CASE IdMismatch \/ WrongProtocol \/ TcpHandle
  BY <1>3, HandledTraffic DEF IdMismatch, WrongProtocol, TcpHandle
<1> QED BY <1>1, <1>2, <1>3 DEF TcpNext

\* What is on its way is for requests out of the queue.
LEMMA TcpTrafficPreserved ==
  ASSUME IInv, TrafficInv, [TcpNext]_vars
  PROVE  TrafficInv' /\ MovesOn
<1>1. MovesOn /\ IInv' BY TcpMovesOn, TcpNextIInv DEF TrafficInv
<1>2. CASE Traffic(0) BY <1>1, <1>2, TrafficPreserved
<1>3. CASE Traffic(1) BY <1>1, <1>3, TrafficPreserved
<1> QED BY <1>1, <1>2, <1>3, TcpTraffic

\* Initially nothing is on its way.
LEMMA TcpInitTraffic ==
  ASSUME TcpInit
  PROVE  TrafficInv
<1>1. OnTheWay = <<>> BY EmptySeq, ConcatEmptySeq DEF TcpInit, Init, OnTheWay
<1> QED BY <1>1, EmptySeq DEF TcpInit, Init, TrafficInv, Behind, None

-----------------------------------------------------------------------------
(* Attribution by transaction id.                                            *)

\* With the ids compared, the answer to an older request must be a round old.
CrossTalkInv ==
  \A r \in Req : LET q == answeredBy[r] IN
    q \notin {None, r} => q + IdMod <= r /\ q <= Registered /\ outcome[q] # "pending"

\* An answer reaches the request in service, or nobody.
Attribution ==
  \/ UNCHANGED answeredBy
  \/ /\ current # None /\ Handling /\ IdOf(response.origin) = IdOf(current)
     /\ answeredBy' = [answeredBy EXCEPT ![current] = response.origin]

\* Two numbers of which the ids agree are a multiple of the modulus apart.
LEMMA SameIdFarApart ==
  ASSUME NEW m \in Nat \ {0}, NEW a \in Nat, NEW b \in Nat, a < b, a % m = b % m
  PROVE  a + m <= b
<1>1. a = m * (a \div m) + (a % m) /\ (a \div m) \in Int /\ a % m \in 0..(m - 1) BY Z3T(30)
<1>2. b = m * (b \div m) + (b % m) /\ (b \div m) \in Int /\ b % m \in 0..(m - 1) BY Z3T(30)
<1>3. m * (b \div m) - m * (a \div m) = b - a BY <1>1, <1>2
<1>4. b \div m > a \div m BY <1>3, <1>1, <1>2, Z3T(30)
<1> QED BY <1>1, <1>2, <1>3, <1>4, Z3T(30)

\* No step attributes a response otherwise.
LEMMA NextAttribution ==
  ASSUME [TcpNext]_vars
  PROVE  Attribution
<1>1. CASE UserStep \/ TimerStep \/ PeerStep \/ DataStep \/ OnConnect \/ OnClose \/ UNCHANGED vars
  <2>1. UNCHANGED answeredBy
    BY <1>1 DEF UserStep, Register, ManuallyRejectRequests, ManuallyRejectCurrentRequest,
       CustomErrorRequest, TimerStep, TimeoutFires, ImmediateFires, PeerStep, Answer,
       Misbehave, Send, DataStep, DataEvent, DrainEnds, IgnoreResponse, Handling,
       OnConnect, LinkUp, OnClose, LinkLost, vars, handler, network
  <2> QED BY <2>1 DEF Attribution
<1>2. CASE IdMismatch \/ WrongProtocol
  BY <1>2 DEF IdMismatch, WrongProtocol, Desynchronise, Attribution
<1>3. CASE TcpHandle
  BY <1>3 DEF TcpHandle, InService, Handle, FcMismatch, ExceptionResponse, UnknownException,
     NormalResponse, Finish, Desynchronise, Attribution
<1> QED BY <1>1, <1>2, <1>3 DEF TcpNext

\* An answer with the id of the request in service is its own, or a round old.
LEMMA CrossTalkPreserved ==
  ASSUME IInv, TrafficInv, CrossTalkInv, Attribution, MovesOn, IInv'
  PROVE  CrossTalkInv'
<1> SUFFICES ASSUME NEW r \in Req, NEW q, q = answeredBy'[r], q \notin {None, r}
             PROVE  q + IdMod <= r /\ q <= Registered' /\ outcome'[q] # "pending"
  BY DEF CrossTalkInv
<1>1. answeredBy \in [Req -> Req \cup {None}] /\ r \in Nat
  BY InState, BoundsAssumption DEF Env, Req
<1>2. Registered <= Registered' /\ Registered \in Nat /\ Registered' \in Nat
  BY LineState, NextLineState DEF MovesOn
<1>3. ASSUME q \in Req, q <= Registered, outcome[q] # "pending"
      PROVE  q <= Registered' /\ outcome'[q] # "pending"
  <2>1. q \in Nat BY <1>3, BoundsAssumption DEF Req
  <2>2. outcome[q] # "none" BY <1>2, <1>3, <2>1, InState DEF Waiting
  <2>3. outcome'[q] = outcome[q] BY <1>3, <2>2 DEF MovesOn
  <2> QED BY <2>1, <2>3, <1>2, <1>3
<1>4. CASE q = answeredBy[r]
  <2>1. q \in Req BY <1>1, <1>4
  <2>2. q + IdMod <= r /\ q <= Registered /\ outcome[q] # "pending"
    BY <1>4 DEF CrossTalkInv
  <2> QED BY <2>1, <2>2, <1>3
<1>5. CASE /\ current # None /\ Handling /\ IdOf(response.origin) = IdOf(current)
           /\ answeredBy' = [answeredBy EXCEPT ![current] = response.origin]
           /\ r = current
  <2>1. q = response.origin BY <1>1, <1>5
  <2>2. 1 \in 1..Len(OnTheWay) /\ response = OnTheWay[1] /\ response \in Response
    BY <1>5, HandledTraffic
  <2>3. q \in Req /\ q \in Nat
    BY <2>1, <2>2, BoundsAssumption DEF Response, Req, None
  <2>4. q <= current BY <2>1, <2>2, <1>5 DEF TrafficInv, Served
  <2>5. q < current /\ current <= Registered /\ q <= Registered
    BY <2>3, <2>4, <1>5, LineState
  <2>6. q + IdMod <= r
    BY <2>1, <2>3, <2>5, <1>1, <1>5, IdModAssumption, SameIdFarApart DEF IdOf
  <2>7. outcome[q] # "pending" BY <2>3, <2>5, LineState
  <2> QED BY <2>3, <2>5, <2>6, <2>7, <1>3
<1> QED BY <1>1, <1>4, <1>5 DEF Attribution

\* An answer settles only the request it answers, unless the transaction ids
\* have wrapped around since, and then the other request has settled before.
THEOREM TcpNoCrossTalk == Spec => []NoCrossTalk
<1>1. TcpInit => TrafficInv /\ CrossTalkInv
  BY TcpInitTraffic DEF TcpInit, Init, CrossTalkInv
<1>2. IInv /\ TrafficInv /\ CrossTalkInv /\ [TcpNext]_vars => (TrafficInv /\ CrossTalkInv)'
  BY TcpNextIInv, TcpTrafficPreserved, NextAttribution, CrossTalkPreserved
<1>3. CrossTalkInv => NoCrossTalk BY DEF CrossTalkInv, NoCrossTalk
<1> QED BY <1>1, <1>2, <1>3, TcpInductiveInvariant, PTL DEF Spec

-----------------------------------------------------------------------------
(* Why a request was lost.                                                   *)

\* The ends a service can come to, when what the peer sends besides the right
\* answers is for other units.
LEMMA TcpEnding ==
  ASSUME IInv, Behind, AnswerInv, [TcpNext]_vars, \A f \in Noise : f.envelope = "otherUnit"
  PROVE  \E d \in {0, 1} : Traffic(d) /\ Ending(d)
<1>1. Standing BY DEF AnswerInv, Standing
<1>2. CASE UserStep \/ TimerStep \/ PeerStep \/ DataStep \/ OnConnect \/ UNCHANGED vars
  <2>1. Stays \/ GivesUp BY <1>1, <1>2, SharedStepEnding DEF OnConnect
  <2> QED BY <2>1, TcpTraffic DEF Ending
<1>3. CASE OnClose
  <2>1. ClearAllRequests("Offline") /\ UNCHANGED answeredBy BY <1>3 DEF OnClose, LinkLost
  <2>2. CASE current # None
    <3>1. GivesUp BY <1>1, <2>1, <2>2, BlameEnding DEF GivenUp
    <3> QED BY <3>1, TcpTraffic DEF Ending
  <2>3. CASE current = None
    <3>1. \A r \in Req : outcome'[r] = outcome[r]
      <4>1. \A r \in Req : r # current BY <2>3, BoundsAssumption DEF Req, None
      <4>2. "Offline" \in Outcomes \ {"none", "pending"} BY DEF Outcomes, Errors
      <4> QED BY <2>1, <2>3, <4>1, <4>2, ClearOutcomes
    <3>2. Stays BY <2>1, <2>3, <3>1 DEF Stays
    <3> QED BY <3>2, TcpTraffic DEF Ending
  <2> QED BY <2>2, <2>3
<1>4. CASE IdMismatch \/ WrongProtocol \/ TcpHandle
  <2>1. Handling /\ InService BY <1>4 DEF IdMismatch, WrongProtocol, TcpHandle
  <2>2. /\ Traffic(1) /\ 1 \in 1..Len(OnTheWay) /\ response = OnTheWay[1]
    BY <2>1, HandledTraffic
  <2>3. response.envelope = "good"
    BY <2>1, <2>2 DEF InService, AnswerInv
  <2>4. current # None BY <2>1 DEF InService
  <2>5. CASE IdMismatch
    <3>1. ClearAllRequests("OutOfSync") /\ UNCHANGED answeredBy /\ response.origin # current
      BY <2>5 DEF IdMismatch, Desynchronise
    <3>2. Takes(response) BY <2>3, <2>4, <3>1, OutOfSyncEnding
    <3> QED BY <2>2, <3>2 DEF Ending
  <2>6. CASE TcpHandle
    <3>1. Stays \/ Takes(response) BY <2>1, <2>3, <2>6, HandleEnding DEF TcpHandle
    <3> QED BY <2>2, <3>1 DEF Ending
  <2>7. ~WrongProtocol BY <2>3 DEF WrongProtocol
  <2> QED BY <1>4, <2>5, <2>6, <2>7
<1> QED BY <1>2, <1>3, <1>4 DEF TcpNext

\* With a peer that answers every request at most once, and noise only for
\* other units, no request is lost out of sync unless an earlier one was given
\* up before: by its timeout, by the user, or by a close.
THEOREM TcpLossHasCause ==
  ASSUME \A f \in Noise : f.envelope = "otherUnit"
  PROVE  Spec => []LossHasCause
<1>1. TcpInit => TrafficInv /\ CauseInv
  <2> SUFFICES ASSUME TcpInit PROVE TrafficInv /\ CauseInv OBVIOUS
  <2>1. OnTheWay = <<>> BY EmptySeq, ConcatEmptySeq DEF TcpInit, Init, OnTheWay
  <2>2. AnswerInv BY <2>1, EmptySeq DEF TcpInit, Init, AnswerInv
  <2> QED BY <2>2, TcpInitTraffic DEF TcpInit, Init, CauseInv, LossHasCause, WrongAnswers
<1>2. IInv /\ TrafficInv /\ CauseInv /\ [TcpNext]_vars => (TrafficInv /\ CauseInv)'
  <2> SUFFICES ASSUME IInv, TrafficInv, CauseInv, [TcpNext]_vars
               PROVE  TrafficInv' /\ CauseInv'
    OBVIOUS
  <2>1. TrafficInv' /\ MovesOn /\ IInv' BY TcpTrafficPreserved, TcpNextIInv
  <2>2. PICK d \in {0, 1} : Traffic(d) /\ Ending(d) BY TcpEnding DEF TrafficInv, CauseInv
  <2> QED BY <2>1, <2>2, CausesPreserved
<1>3. CauseInv => LossHasCause BY DEF CauseInv
<1> QED BY <1>1, <1>2, <1>3, TcpInductiveInvariant, PTL DEF Spec
=============================================================================
