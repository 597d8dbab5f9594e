------------------------------ MODULE RtuClient -----------------------------
(* The Modbus/RTU client: ModbusRTUClientRequestHandler over the shared      *)
(* request line.  Its responses carry a CRC and no transaction id, and the   *)
(* handler never hears that the serial port was closed.                      *)
EXTENDS ClientRequestHandler

RtuInit == Init /\ state = IF link = "up" THEN "online" ELSE "offline"

OnOpen == LinkUp

\* No listener for 'close': the handler's variables stay as they are, the state
\* online among them, and requests are written into a closed port.  The device keeps the requests it has received and may still answer them.
PortClose ==
  /\ LinkLost
  /\ UNCHANGED <<state, current, requests, outcome, timers, immediates, delivered>>

CrcMismatch ==
  /\ Handling /\ InService /\ response.envelope = "broken"
  /\ Desynchronise("crcMismatch")

RtuHandle == Handling /\ InService /\ response.envelope = "good" /\ Handle

RtuNext ==
  \/ UserStep \/ TimerStep \/ PeerStep \/ DataStep
  \/ OnOpen \/ PortClose
  \/ CrcMismatch \/ RtuHandle

Spec == RtuInit /\ [][RtuNext]_vars

(* As for TcpClient: timers are served in every turn of the event loop (SF), *)
(* a loop that has begun runs on (WF).                                       *)
Fairness == /\ WF_vars(draining /\ RtuNext)
            /\ \A r \in Req : SF_vars(TimeoutFires(r))
FairSpec == Spec /\ Fairness

-----------------------------------------------------------------------------
\* Without transaction ids an answer may settle a request it was not meant
\* for.  With a peer that answers every request at most once that takes an
\* earlier request that was given up or whose response came damaged,
\* and only its function code protects the request from the wrong answer; one
\* late answer then shifts all the following ones by a request.
CrossTalkHasCause ==
  \A r \in Req : LET q == answeredBy[r] IN
    (q \notin {None, r} /\ outcome[r] = "resolved") =>
      /\ q < r /\ issued[q] = issued[r]
      /\ \E p \in 1..q : outcome[p] \in GivenUp
=============================================================================
