------------------------------ MODULE TcpClient -----------------------------
(* The Modbus/TCP client: ModbusTCPClientRequestHandler over the shared      *)
(* request line.  Its responses carry a transaction id and a protocol number.*)
EXTENDS ClientRequestHandler

CONSTANT IdMod  \* 0xFFFF in the code: transaction ids are counted modulo IdMod

ASSUME IdModAssumption == IdMod \in Nat \ {0}

\* The r-th registered request has this id; responses repeat their request's.
IdOf(r) == r % IdMod

\* The constructor does not ask whether the socket is connected already.
TcpInit == Init /\ state = "offline"

OnConnect == LinkUp

\* Mutants: the queue survives the close; the state is not updated.
OnClose_QueueKept ==
  /\ LinkLost /\ delivered' = {}
  /\ state' = "offline"
  /\ outcome' = Settle(outcome, current, "Offline")
  /\ current' = None /\ timers' = timers \ {current}
  /\ UNCHANGED <<requests, immediates>>
OnClose_StateKept ==
  /\ LinkLost /\ delivered' = {}
  /\ ClearAllRequests("Offline")
  /\ UNCHANGED state

OnClose ==
  /\ LinkLost /\ delivered' = {}
  /\ state' = "offline"
  /\ ClearAllRequests("Offline")

\* Mutant: the id is compared with the counter, not with the request's id.
IdMismatch_Counter ==
  /\ Handling /\ InService /\ IdOf(response.origin) # IdOf(Registered)
  /\ Desynchronise("OutOfSync")

IdMismatch ==
  /\ Handling /\ InService /\ IdOf(response.origin) # IdOf(current)
  /\ Desynchronise("OutOfSync")

WrongProtocol ==
  /\ Handling /\ InService /\ IdOf(response.origin) = IdOf(current)
  /\ response.envelope = "broken"
  /\ Desynchronise("Protocol")

\* Mutant: the transaction id is not compared.
TcpHandle_AnyId == Handling /\ InService /\ response.envelope = "good" /\ Handle

TcpHandle ==
  /\ Handling /\ InService /\ IdOf(response.origin) = IdOf(current)
  /\ response.envelope = "good"
  /\ Handle

TcpNext ==
  \/ UserStep \/ TimerStep \/ PeerStep \/ DataStep
  \/ OnConnect \/ OnClose
  \/ IdMismatch \/ WrongProtocol \/ TcpHandle

Spec == TcpInit /\ [][TcpNext]_vars

(* Node runs due timers in every turn of its event loop, however many data   *)
(* events it also handles (SF); a loop that has begun runs on (WF).  Nothing *)
(* is assumed of the user, the socket or the peer.                           *)
Fairness == /\ WF_vars(draining /\ TcpNext)
            /\ \A r \in Req : SF_vars(TimeoutFires(r))
FairSpec == Spec /\ Fairness

-----------------------------------------------------------------------------
\* connectionState says online only while the socket is connected.
OnlineIsConnected == state = "online" => link = "up"

\* Responses are attributed by transaction id: an answer to an abandoned
\* request can settle another one only after the ids have wrapped around.
NoCrossTalk ==
  \A r \in Req : answeredBy[r] \notin {None, r} =>
    /\ answeredBy[r] + IdMod <= r
    /\ outcome[answeredBy[r]] # "pending"
=============================================================================
