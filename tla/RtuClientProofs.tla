-------------------------- MODULE RtuClientProofs --------------------------
(* Theorems about the Modbus/RTU client, for every value of the constants.   *)
EXTENDS RtuClient, ClientRequestHandlerProofs

\* Every step of the client preserves the inductive invariant; closing the
\* port does not touch the handler.
LEMMA RtuNextIInv ==
  ASSUME IInv, [RtuNext]_vars
  PROVE  IInv'
<1>1. CASE PortClose
  <2>1. Core' BY <1>1, LineUnchanged DEF PortClose, LinkLost
  <2>2. Env' BY <1>1, InState, EmptySeq DEF PortClose, LinkLost, Env, Registered
  <2> QED BY <2>1, <2>2, IInvParts
<1>2. CASE CrcMismatch
  BY <1>2, DesynchroniseIInv DEF CrcMismatch, Outcomes, Errors
<1>3. CASE RtuHandle BY <1>3, HandleIInv DEF RtuHandle
<1>4. CASE UserStep \/ TimerStep \/ PeerStep \/ DataStep \/ OnOpen \/ UNCHANGED vars
  BY <1>4, SharedStepIInv DEF OnOpen
<1> QED BY <1>1, <1>2, <1>3, <1>4 DEF RtuNext

\* IInv holds in every state of the client.
THEOREM RtuInductiveInvariant == Spec => []IInv
<1>1. RtuInit => IInv BY InitIInv DEF RtuInit
<1>2. IInv /\ [RtuNext]_vars => IInv' BY RtuNextIInv
<1> QED BY <1>1, <1>2, PTL DEF Spec

\* The variables always have their types.
THEOREM RtuTypeCorrect == Spec => []TypeOK
<1>1. IInv => TypeOK BY IInvImplies
<1> QED BY <1>1, RtuInductiveInvariant, PTL

\* However a request ended, the one in service has the only armed timeout.
THEOREM RtuOneInFlight == Spec => []OneInFlight
<1>1. IInv => OneInFlight BY IInvImplies
<1> QED BY <1>1, RtuInductiveInvariant, PTL

\* The queue never waits with nobody in service.
THEOREM RtuNoStall == Spec => []NoStall
<1>1. IInv => NoStall BY IInvImplies
<1> QED BY <1>1, RtuInductiveInvariant, PTL

\* No handler drops a request without settling its promise.
THEOREM RtuNoOrphan == Spec => []NoOrphan
<1>1. IInv => NoOrphan BY IInvImplies
<1> QED BY <1>1, RtuInductiveInvariant, PTL

\* Every step of the client is a step of the abstract request line, or none.
LEMMA RtuNextRefines ==
  ASSUME IInv, [RtuNext]_vars
  PROVE  AbstractStep
<1>1. CASE PortClose BY <1>1, LineStutters DEF PortClose, LinkLost
<1>2. CASE CrcMismatch
  BY <1>2, ClearRefines DEF CrcMismatch, Handling, Desynchronise, Outcomes, Errors
<1>3. CASE RtuHandle BY <1>3, HandleRefines DEF RtuHandle
<1>4. CASE UserStep \/ TimerStep \/ PeerStep \/ DataStep \/ OnOpen \/ UNCHANGED vars
  BY <1>4, SharedStepRefines DEF OnOpen
<1> QED BY <1>1, <1>2, <1>3, <1>4 DEF RtuNext

\* The client implements RequestLine: requests are served one at a time in the
\* order of their registration, promises settle once and for good, and none
\* leaves the line unsettled.
THEOREM RtuImplements == Spec => ImplementsRequestLine
<1>1. RtuInit => Abstract!LineInit BY InitRefines DEF RtuInit
<1>2. IInv /\ [RtuNext]_vars => [Abstract!LineNext]_(Abstract!lineVars)
  BY RtuNextRefines DEF AbstractStep
<1> QED
  BY <1>1, <1>2, RtuInductiveInvariant, PTL DEF Spec, ImplementsRequestLine, Abstract!LineSpec

-----------------------------------------------------------------------------
(* Why a request was lost, or wrongly answered.                              *)

\* What every step does to the line, to the responses on their way and to
\* the request in service, when the peer forges no answer.
LEMMA RtuStep ==
  ASSUME IInv, Behind, AnswerInv, [RtuNext]_vars, \A f \in Noise : f.envelope # "good"
  PROVE  MovesOn /\ \E d \in {0, 1} : Traffic(d) /\ Ending(d)
<1>1. Standing BY DEF AnswerInv, Standing
<1>2. CASE UserStep \/ TimerStep \/ PeerStep \/ DataStep \/ OnOpen \/ UNCHANGED vars
  <2>1. Stays \/ GivesUp BY <1>1, <1>2, SharedStepEnding DEF OnOpen
  <2>2. MovesOn /\ (Traffic(0) \/ Traffic(1))
    BY <1>2, SharedStepMovesOn, SharedStepTraffic DEF OnOpen
  <2> QED BY <2>1, <2>2 DEF Ending
<1>3. CASE PortClose
  <2>1. UNCHANGED <<current, issued, outcome, answeredBy, messages, delivered>> /\ inbox' = <<>>
    BY <1>3 DEF PortClose, LinkLost
  <2>2. Stays BY <2>1 DEF Stays
  <2> QED BY <2>1, <2>2, SettleMovesOn, QuietTraffic DEF Ending
<1>4. CASE CrcMismatch \/ RtuHandle
  <2>1. Handling /\ InService BY <1>4 DEF CrcMismatch, RtuHandle
  <2>2. /\ Traffic(1) /\ 1 \in 1..Len(OnTheWay) /\ response = OnTheWay[1]
    BY <2>1, HandledTraffic
  <2>3. current # None BY <2>1 DEF InService
  <2>4. CASE CrcMismatch
    <3>1. ClearAllRequests("crcMismatch") /\ UNCHANGED answeredBy
      BY <2>4 DEF CrcMismatch, Desynchronise
    <3>2. GivesUp BY <1>1, <2>3, <3>1, BlameEnding DEF GivenUp
    <3>3. MovesOn BY <2>1, <2>4, LoopMovesOn DEF CrcMismatch, Outcomes, Errors
    <3> QED BY <2>2, <3>2, <3>3 DEF Ending
  <2>5. CASE RtuHandle
    <3>1. Stays \/ Takes(response) BY <2>1, <2>5, HandleEnding DEF RtuHandle
    <3>2. MovesOn BY <2>1, <2>5, LoopMovesOn DEF RtuHandle
    <3> QED BY <2>2, <3>1, <3>2 DEF Ending
  <2> QED BY <1>4, <2>4, <2>5
<1> QED BY <1>2, <1>3, <1>4 DEF RtuNext

\* With a peer that answers every request at most once, whatever damaged
\* responses and those of other units come between, the causes are invariant.
THEOREM RtuCauses ==
  ASSUME \A f \in Noise : f.envelope # "good"
  PROVE  Spec => []CauseInv
<1>1. RtuInit => TrafficInv /\ CauseInv
  <2> SUFFICES ASSUME RtuInit PROVE TrafficInv /\ CauseInv OBVIOUS
  <2>1. OnTheWay = <<>> BY EmptySeq, ConcatEmptySeq DEF RtuInit, Init, OnTheWay
  <2>2. AnswerInv BY <2>1, EmptySeq DEF RtuInit, Init, AnswerInv
  <2>3. TrafficInv BY <2>1, EmptySeq DEF RtuInit, Init, TrafficInv, Behind, None
  <2> QED BY <2>2, <2>3 DEF RtuInit, Init, CauseInv, LossHasCause, WrongAnswers
<1>2. IInv /\ TrafficInv /\ CauseInv /\ [RtuNext]_vars => (TrafficInv /\ CauseInv)'
  <2> SUFFICES ASSUME IInv, TrafficInv, CauseInv, [RtuNext]_vars
               PROVE  TrafficInv' /\ CauseInv'
    OBVIOUS
  <2>1. IInv' BY RtuNextIInv
  <2>2. MovesOn /\ \E d \in {0, 1} : Traffic(d) /\ Ending(d) BY RtuStep DEF TrafficInv, CauseInv
  <2>3. PICK d \in {0, 1} : Traffic(d) /\ Ending(d) BY <2>2
  <2> QED BY <2>1, <2>2, <2>3, TrafficPreserved, CausesPreserved
<1> QED BY <1>1, <1>2, RtuInductiveInvariant, PTL DEF Spec

\* No request is lost out of sync unless an earlier one was given up before,
\* or its response came damaged.
THEOREM RtuLossHasCause ==
  ASSUME \A f \in Noise : f.envelope # "good"
  PROVE  Spec => []LossHasCause
<1>1. CauseInv => LossHasCause BY DEF CauseInv
<1> QED BY <1>1, RtuCauses, PTL

\* No request is resolved by another's answer unless that one, of the same
\* function code, was registered before it and given up, or one before it.
THEOREM RtuCrossTalkHasCause ==
  ASSUME \A f \in Noise : f.envelope # "good"
  PROVE  Spec => []CrossTalkHasCause
<1>1. IInv /\ CauseInv => CrossTalkHasCause
  <2> SUFFICES ASSUME IInv, CauseInv PROVE CrossTalkHasCause OBVIOUS
  <2>1. \A r \in Req : r \in Nat BY BoundsAssumption DEF Req
  <2>2. \A r \in Req : \A q \in 1..(r - 1) : q < r BY <2>1
  <2> QED BY <2>2 DEF CauseInv, WrongAnswers, GivenUpTo, CrossTalkHasCause
<1> QED BY <1>1, RtuCauses, RtuInductiveInvariant, PTL
=============================================================================
