----------------------------- MODULE MCTcpClient ----------------------------
(* TcpClient on small instances.                                             *)
EXTENDS TcpClient

CONSTANTS read, write  \* two function codes

NoNoise == {}

\* One noise response of each sort: a duplicate answer, an answer with the
\* wrong function code, one with a wrong protocol number, one for another
\* unit, and one with a transaction id never issued.
MCNoise ==
  LET good == [origin |-> 1, fc |-> read, kind |-> "normal", envelope |-> "good"]
  IN {good, [good EXCEPT !.fc = write], [good EXCEPT !.envelope = "broken"],
      [good EXCEPT !.envelope = "otherUnit"], [good EXCEPT !.origin = None]}
=============================================================================
