----------------------------- MODULE RequestLine ----------------------------
(* What a client promises its user: requests are served one at a time, in    *)
(* the order they were registered; each promise settles once and for good,   *)
(* and no request leaves the line unsettled.                                 *)
EXTENDS Integers, Sequences, Functions

CONSTANT MaxRequests  \* bound: the number of requests registered

VARIABLES
  submitted,  \* the requests registered so far are 1..submitted
  line,       \* those waiting to be served; the first one is in service
  settled     \* those whose promise has settled

lineVars == <<submitted, line, settled>>

LineInit == submitted = 0 /\ line = <<>> /\ settled = {}

\* A request joins the end of the line ...
Submit ==
  /\ submitted < MaxRequests
  /\ submitted' = submitted + 1
  /\ line' = Append(line, submitted + 1)
  /\ UNCHANGED settled

\* ... or, when nobody is being served, is refused on the spot.
Refuse ==
  /\ submitted < MaxRequests /\ line = <<>>
  /\ submitted' = submitted + 1
  /\ settled' = settled \cup {submitted + 1}
  /\ UNCHANGED line

\* The promise of the request in service settles before its service ends.
SettleEarly ==
  /\ line # <<>>
  /\ settled' = settled \cup {Head(line)}
  /\ UNCHANGED <<submitted, line>>

Depart ==
  /\ line # <<>>
  /\ settled' = settled \cup {Head(line)}
  /\ line' = Tail(line)
  /\ UNCHANGED submitted

\* The whole line is given up.
Collapse ==
  /\ line # <<>>
  /\ settled' = settled \cup Range(line)
  /\ line' = <<>>
  /\ UNCHANGED submitted

LineNext == Submit \/ Refuse \/ SettleEarly \/ Depart \/ Collapse
LineSpec == LineInit /\ [][LineNext]_lineVars
=============================================================================
