------------------------- MODULE ServerMemoryProofs -------------------------
(* The server's tables and its loop over the queued requests, proved for     *)
(* every set of connections, request bodies and tables, and every bound.     *)
EXTENDS ServerMemory, SequenceTheorems, FiniteSetTheorems, TLAPS

-----------------------------------------------------------------------------
(* The inductive invariant.                                                  *)
Event(r) == received[r].event
Excused(r) == \E x \in threw : Event(x) = Event(r)

\* What waits: each request once, newest first, on its own connection, and not
\* yet shifted.
QueueInv ==
  \A c \in Conns : \A i \in 1..Len(queue[c]) :
    /\ received[queue[c][i]].conn = c /\ queue[c][i] \notin Range(order)
    /\ \A j \in 1..Len(queue[c]) : i < j => queue[c][j] < queue[c][i]

\* Events are numbered upwards.  What waits and was not left behind by an
\* exception belongs to the data event that runs, the last one.
EventInv ==
  /\ \A q, r \in Ids : q <= r => Event(q) <= Event(r)
  /\ \A c \in Conns : \A i \in 1..Len(queue[c]) :
       \/ Excused(queue[c][i])
       \/ running = c /\ Event(queue[c][i]) = Event(Len(received))

\* Whatever was shifted before an older request that still waits.
ShiftInv ==
  \A p \in 1..Len(order) : \A c \in Conns : \A i \in 1..Len(queue[c]) :
    received[order[p]].conn = c /\ queue[c][i] < order[p] =>
      Event(order[p]) = Event(queue[c][i]) \/ Excused(queue[c][i])

\* Where the handler stands.
Mine(r) == ServerId[received[r].conn] \in {0, Body(r).unit}
Unanswered(r) == Len(replies[r]) = 0 /\ r \notin threw
StageInv ==
  /\ stage # "loop" =>
       /\ running # Idle /\ current \in Range(order) /\ received[current].conn = running
       /\ \A i \in 1..Len(queue[running]) : queue[running][i] < current
  /\ stage \in {"pre", "mid", "stored"} =>
       Mine(current) /\ Unanswered(current) /\ Begins(Body(current))
  /\ stage = "stored" => Body(current).kind \in {"writeCoils", "writeRegisters"}
  /\ stage = "mid" =>
       Body(current).kind = "writeCoils" /\ newStatus \in [Cells("coils") -> BOOLEAN]

\* The handler answers requests after they were shifted.  Settled is
\* AnsweredOnce for one request.
DealtWith(r) == r # current \/ running = Idle \/ stage \in {"loop", "post"}
Settled(r) ==
  /\ Len(replies[r]) <= IF Mine(r) /\ Answered(Body(r)) THEN 1 ELSE 0
  /\ Mine(r) /\ Answered(Body(r)) /\ DealtWith(r) /\ r \notin threw => Len(replies[r]) = 1
  /\ r \in threw \ hookThrew => BreaksOff(Body(r)) /\ replies[r] = <<>>
AnswerInv ==
  /\ \A r \in Ids \ Range(order) : Unanswered(r)
  /\ threw \subseteq Range(order)
  /\ \A r \in Range(order) : Settled(r)

\* The updates by request r.  Agrees is AcknowledgedIsStored for it.
Storing(r) == {i \in DOMAIN updates : updates[i].req = r}
UnderWay(r) == r = current /\ running # Idle /\ stage = "stored"
Agrees(r) ==
  Body(r).kind \in Writes /\ TableOf(Body(r)) \in Tables =>
    /\ \A i, j \in Storing(r) : i = j
    /\ Success \in Range(replies[r]) => Storing(r) # {}
    /\ Storing(r) # {} => Success \in Range(replies[r]) \/ UnderWay(r) \/ r \in hookThrew
    /\ Exception(2) \in Range(replies[r]) => Storing(r) = {}
    /\ Storing(r) # {} /\ Body(r).kind # "writeCoils" =>
         Addressed(Body(r)) \subseteq Cells(TableOf(Body(r)))
StoreInv ==
  /\ \A i \in DOMAIN updates : updates[i].req \in Range(order) \cup {0}
  /\ stage \in {"pre", "mid"} => Storing(current) = {}
  /\ stage = "stored" => Storing(current) # {}
  /\ \A r \in Range(order) : Agrees(r)

\* What the tables are meant to hold.  Of the updates that cover a cell there is
\* a last one.
MeantTable(t) == [a \in Cells(t) |-> Meant(t, a)]
Covering(t, a) == {i \in DOMAIN updates : Covers(updates[i], t, a)}
LatestInv ==
  \A t \in Tables : \A a \in Cells(t) :
    Covering(t, a) # {} => \E i \in Covering(t, a) : \A j \in Covering(t, a) : j <= i

\* What FillCoils is about to store differs from what it should by the
\* application's changes at most.
StatusInv ==
  stage = "mid" => \A a \in Cells("coils") :
    newStatus[a] # Updated(MeantTable("coils"), Body(current))[a] => a \in clobbered

\* The types, in five parts.
Contents(t) == [Cells(t) -> Values(t)]
QueueType ==
  /\ received \in Seq(Entry) /\ \A r \in Ids : Event(r) \in 1..r
  /\ queue \in [Conns -> Seq(Ids)] /\ order \in Seq(Ids)
ControlType ==
  /\ running \in Conns \cup {Idle} /\ stage \in Stages
  /\ current \in Ids \cup {0} /\ given \subseteq Ids /\ heard \in Seq(Ids)
  /\ hookThrew \subseteq threw /\ threw \subseteq Ids
TablesType ==
  /\ DOMAIN table = Tables /\ \A t \in Tables : table[t] \in Contents(t)
  /\ newStatus = <<>> \/ newStatus \in [Cells("coils") -> BOOLEAN]
UpdatesType ==
  /\ updates \in Seq([req: Nat] \cup [req: {0}, table: Tables, at: Int, val: BOOLEAN \cup Words])
  /\ \A i \in DOMAIN updates : Update(updates[i])
RepliesType == replies \in Seq(Seq(Answers)) /\ Len(replies) = Len(received)

\* Together: what the queues, the handler and the tables need of each other.
QueueInvs == QueueType /\ QueueInv /\ EventInv /\ ShiftInv
Control ==
  /\ running \in Conns \cup {Idle} /\ threw \subseteq Ids
  /\ stage # "loop" =>
       /\ running \in Conns /\ current \in Ids
       /\ \A i \in 1..Len(queue[running]) : queue[running][i] < current
HandlerInvs == ControlType /\ RepliesType /\ StageInv /\ AnswerInv
ServeInv == QueueInvs /\ HandlerInvs

-----------------------------------------------------------------------------
(* The queues.                                                               *)

\* The numbers of the requests.
LEMMA IdsAre ==
  ASSUME QueueType
  PROVE  /\ Ids = 1..Len(received) /\ Len(received) \in Nat /\ Ids \subseteq Nat
         /\ \A r \in Ids : received[r] \in Entry
         /\ \A c \in Conns : /\ queue[c] \in Seq(Ids) /\ Len(queue[c]) \in Nat
                             /\ \A i \in 1..Len(queue[c]) : queue[c][i] \in Ids
         /\ Len(order) \in Nat /\ Range(order) = {order[p] : p \in 1..Len(order)}
         /\ Range(order) \subseteq Ids
<1>1. Ids = 1..Len(received) /\ Len(received) \in Nat
  BY LenProperties DEF QueueType, Ids
<1>2. \A r \in Ids : received[r] \in Entry BY <1>1, ElementOfSeq DEF QueueType
<1>3. ASSUME NEW c \in Conns
      PROVE  /\ queue[c] \in Seq(Ids) /\ Len(queue[c]) \in Nat
             /\ \A i \in 1..Len(queue[c]) : queue[c][i] \in Ids
  BY LenProperties, ElementOfSeq DEF QueueType
<1>4. Len(order) \in Nat /\ Range(order) = {order[p] : p \in 1..Len(order)}
      /\ Range(order) \subseteq Ids
  BY LenProperties, RangeEquality, ElementOfSeq DEF QueueType
<1> QED BY <1>1, <1>2, <1>3, <1>4

\* What a data event adds.
LEMMA DataEventAdds ==
  ASSUME QueueType, NEW c \in Conns, NEW k \in Nat \ {0}, NEW bodies \in [1..k -> Requests],
         DataEvent(c, bodies)
  PROVE  /\ received' \in Seq(Entry) /\ Len(received') = Len(received) + k
         /\ Ids' = 1..(Len(received) + k)
         /\ \A r \in Ids : received'[r] = received[r]
         /\ \A r \in Ids' \ Ids : /\ received'[r].conn = c /\ received'[r].body \in Requests
                                  /\ Event(r)' = Len(received) + 1
         /\ \A d \in Conns \ {c} : queue'[d] = queue[d]
         /\ queue' \in [Conns -> Seq(Ids')] /\ Len(queue'[c]) = k + Len(queue[c])
         /\ \A i \in 1..Len(queue'[c]) :
              queue'[c][i] = IF i <= k THEN Len(received) + k + 1 - i ELSE queue[c][i - k]
         /\ running = Idle /\ running' = c /\ stage' = "loop"
         /\ UNCHANGED <<current, newStatus, memory, app, order, threw, hookThrew>>
<1> DEFINE n == Len(received)
           new == [i \in 1..Len(bodies) |-> [conn |-> c, event |-> n + 1, body |-> bodies[i]]]
           ids == [i \in 1..Len(bodies) |-> n + 1 + i - 1]
           front == Reverse(ids)
<1>1. n \in Nat /\ received \in Seq(Entry) /\ Ids = 1..n BY IdsAre DEF QueueType
<1>2. Len(bodies) = k OBVIOUS
<1>3. new \in [1..k -> Entry] BY <1>1, <1>2 DEF Entry
<1>4. new \in Seq(Entry) /\ Len(new) = k BY <1>3
<1>5. ids \in [1..k -> 1..(n + k)] BY <1>1, <1>2
<1>6. ids \in Seq(1..(n + k)) /\ Len(ids) = k BY <1>5
<1>7. front \in [1..k -> 1..(n + k)] /\ \A i \in 1..k : front[i] = n + k + 1 - i
  BY <1>1, <1>2, <1>5, <1>6 DEF Reverse
<1>8. front \in Seq(1..(n + k)) /\ Len(front) = k
  <2> HIDE DEF front
  <2> QED BY <1>7
<1>9. received' = received \o new /\ queue' = [queue EXCEPT ![c] = front \o queue[c]]
  BY DEF DataEvent
<1>10. /\ received' \in Seq(Entry) /\ Len(received') = n + k
       /\ \A r \in 1..(n + k) : received'[r] = IF r <= n THEN received[r] ELSE new[r - n]
  <2> HIDE DEF new, n
  <2>1. received' \in Seq(Entry) /\ Len(received') = Len(received) + Len(new)
        /\ \A r \in 1..(Len(received) + Len(new)) :
             received'[r] = IF r <= Len(received) THEN received[r] ELSE new[r - Len(received)]
    BY <1>1, <1>4, <1>9, ConcatProperties
  <2> QED BY <2>1, <1>4 DEF n
<1>11. Ids' = 1..(n + k) BY <1>10, LenProperties DEF Ids
<1>12. \A r \in Ids : received'[r] = received[r]
  <2> HIDE DEF new, n
  <2> QED BY <1>1, <1>10
<1>13. ASSUME NEW r \in Ids' \ Ids
       PROVE  /\ received'[r].conn = c /\ received'[r].body \in Requests
              /\ Event(r)' = n + 1
  <2>1. PICK j \in 1..k : j = r - n BY <1>1, <1>11
  <2>2. received'[r] = new[j] BY <2>1, <1>1, <1>10, <1>11
  <2>3. new[j] = [conn |-> c, event |-> n + 1, body |-> bodies[j]] BY <1>2
  <2> QED BY <2>2, <2>3 DEF Event
<1>14. queue[c] \in Seq(Ids) /\ queue \in [Conns -> Seq(Ids)] /\ Len(queue[c]) \in Nat
  <2>1. queue[c] \in Seq(Ids) BY IdsAre
  <2> QED BY <2>1, LenProperties DEF QueueType
<1>15. Ids \subseteq 1..(n + k) BY <1>1
<1>16. queue[c] \in Seq(1..(n + k)) BY <1>14, <1>15, SeqMonotonic
<1>17. /\ queue'[c] \in Seq(1..(n + k)) /\ Len(queue'[c]) = k + Len(queue[c])
       /\ \A i \in 1..(k + Len(queue[c])) :
            queue'[c][i] = IF i <= k THEN front[i] ELSE queue[c][i - k]
  <2> HIDE DEF front, n
  <2>1. queue'[c] = front \o queue[c] BY <1>9, <1>14
  <2>2. /\ queue'[c] \in Seq(1..(n + k)) /\ Len(queue'[c]) = Len(front) + Len(queue[c])
        /\ \A i \in 1..(Len(front) + Len(queue[c])) :
             queue'[c][i] = IF i <= Len(front) THEN front[i] ELSE queue[c][i - Len(front)]
    <3> DEFINE S == 1..(n + k)
    <3> HIDE DEF S
    <3>1. front \in Seq(S) /\ queue[c] \in Seq(S) BY <1>8, <1>16 DEF S
    <3>2. /\ front \o queue[c] \in Seq(S) /\ Len(front \o queue[c]) = Len(front) + Len(queue[c])
          /\ \A i \in 1..(Len(front) + Len(queue[c])) :
               (front \o queue[c])[i] = IF i <= Len(front) THEN front[i] ELSE queue[c][i - Len(front)]
      BY <3>1, ConcatProperties
    <3> QED BY <3>2, <2>1 DEF S
  <2> QED BY <2>2, <1>8
<1>18. \A d \in Conns \ {c} : queue'[d] = queue[d] BY <1>9, <1>14
<1>19. queue' \in [Conns -> Seq(Ids')]
  <2>1. ASSUME NEW d \in Conns PROVE queue'[d] \in Seq(Ids')
    <3>1. CASE d = c BY <3>1, <1>11, <1>17
    <3>2. CASE d # c
      <4>1. queue[d] \in Seq(Ids) BY <1>14
      <4> QED BY <4>1, <3>2, <1>11, <1>15, <1>18, SeqMonotonic
    <3> QED BY <3>1, <3>2
  <2>2. queue' = [d \in Conns |-> queue'[d]] BY <1>9, <1>14
  <2> QED BY <2>1, <2>2
<1>20. \A i \in 1..Len(queue'[c]) :
         queue'[c][i] = IF i <= k THEN n + k + 1 - i ELSE queue[c][i - k]
  <2> HIDE DEF new, ids, front
  <2> QED BY <1>7, <1>17, <1>14
<1> HIDE DEF new, ids, front
<1> QED BY <1>10, <1>11, <1>12, <1>13, <1>17, <1>18, <1>19, <1>20 DEF DataEvent

\* What a shift takes away.
LEMMA TakeShifts ==
  ASSUME QueueType, running \in Conns \cup {Idle}, NEW r, Take(r)
  PROVE  /\ running \in Conns /\ stage = "loop" /\ r \in Ids
         /\ 1 \in 1..Len(queue[running]) /\ r = queue[running][1]
         /\ \A d \in Conns \ {running} : queue'[d] = queue[d]
         /\ \A i \in 1..Len(queue'[running]) :
              i + 1 \in 1..Len(queue[running]) /\ queue'[running][i] = queue[running][i + 1]
         /\ queue' \in [Conns -> Seq(Ids)] /\ order' \in Seq(Ids)
         /\ Range(order') = Range(order) \cup {r}
         /\ Len(order') = Len(order) + 1 /\ order'[Len(order) + 1] = r
         /\ \A p \in 1..Len(order) : order'[p] = order[p]
         /\ UNCHANGED <<received, running, newStatus, memory, threw, hookThrew, heard, appWrites>>
<1> DEFINE q == queue[running]
<1>1. running \in Conns /\ stage = "loop" /\ q # <<>> /\ r = Head(q) BY DEF Take
<1>2. q \in Seq(Ids) /\ Len(q) \in Nat BY <1>1, IdsAre
<1>3. Len(q) \in Nat \ {0} BY <1>1, <1>2, EmptySeq
<1>4. /\ Head(q) \in Ids /\ Tail(q) \in Seq(Ids) /\ Len(Tail(q)) = Len(q) - 1
      /\ Head(q) = q[1] /\ \A i \in 1..Len(Tail(q)) : Tail(q)[i] = q[i + 1]
  BY <1>1, <1>2, HeadTailProperties
<1>5. queue \in [Conns -> Seq(Ids)] /\ order \in Seq(Ids) /\ Len(order) \in Nat
  BY IdsAre DEF QueueType
<1>6. queue' = [queue EXCEPT ![running] = Tail(q)] /\ order' = Append(order, r)
  BY DEF Take
<1>7. /\ order' \in Seq(Ids) /\ Len(order') = Len(order) + 1 /\ order'[Len(order) + 1] = r
      /\ \A p \in 1..Len(order) : order'[p] = order[p]
  BY <1>1, <1>4, <1>5, <1>6, AppendProperties
<1>8. Range(order') = Range(order) \cup {r}
  <2>1. Range(order') = {order'[p] : p \in 1..(Len(order) + 1)}
        /\ Range(order) = {order[p] : p \in 1..Len(order)}
    BY <1>5, <1>7, RangeEquality
  <2>2. \A p \in 1..(Len(order) + 1) : p \in 1..Len(order) \/ p = Len(order) + 1
    BY <1>5
  <2>3. 1..Len(order) \subseteq 1..(Len(order) + 1) /\ Len(order) + 1 \in 1..(Len(order) + 1)
    BY <1>5
  <2> QED BY <2>1, <2>2, <2>3, <1>7
<1>9. queue'[running] = Tail(q) /\ \A d \in Conns \ {running} : queue'[d] = queue[d]
  BY <1>1, <1>5, <1>6
<1> HIDE DEF q
<1>10. queue' \in [Conns -> Seq(Ids)] BY <1>4, <1>5, <1>6
<1>11. \A i \in 1..Len(queue'[running]) : i + 1 \in 1..Len(q) /\ queue'[running][i] = q[i + 1]
  BY <1>3, <1>4, <1>9
<1> QED BY <1>1, <1>3, <1>4, <1>7, <1>8, <1>9, <1>10, <1>11 DEF Take, q

\* A step that leaves the queues alone; the data event it may end has either
\* served its queue or been cut short by an exception.
QuietStep ==
  /\ UNCHANGED <<received, queue, order>> /\ threw \subseteq threw'
  /\ \/ running' = running
     \/ running' = Idle /\ queue[running] = <<>>
     \/ running' = Idle /\ stage # "loop" /\ current \in threw'

\* Every step is a data event, a shift or a quiet step.
LEMMA StepShapes ==
  ASSUME [Next]_vars
  PROVE  \/ \E c \in Conns : \E k \in Nat \ {0} : \E bodies \in [1..k -> Requests] :
              DataEvent(c, bodies)
         \/ \E r \in Ids : Take(r)
         \/ QuietStep
<1>1. CASE UNCHANGED vars BY <1>1 DEF vars, QuietStep
<1>2. ASSUME NEW c \in Conns, NEW k \in 1..MaxChunk, NEW bodies \in [1..k -> Requests],
             DataEvent(c, bodies)
      PROVE  \E kk \in Nat \ {0} : \E b \in [1..kk -> Requests] : DataEvent(c, b)
  <2>1. k \in Nat \ {0} BY BoundAssumption
  <2> QED BY <2>1, <1>2
<1>3. ASSUME NEW r \in Ids, OtherUnit(r) \/ RefuseIdentify(r) \/ HandToListener(r) \/ Begin(r)
      PROVE  Take(r)
  BY <1>3 DEF OtherUnit, RefuseIdentify, HandToListener, Begin
<1>4. ASSUME NEW r \in Ids, ListenerAnswers(r) PROVE QuietStep
  BY <1>4 DEF ListenerAnswers, QuietStep
<1>5. CASE LoopEnds BY <1>5 DEF LoopEnds, QuietStep
<1>6. CASE Handler
  <2>1. CASE Read BY <2>1 DEF Read, Serving, Reply, Throw, QuietStep
  <2>2. CASE ReadHolding BY <2>2 DEF ReadHolding, Serving, Reply, Throw, QuietStep
  <2>3. CASE WriteSingleCoil BY <2>3 DEF WriteSingleCoil, Serving, Reply, Throw, QuietStep
  <2>4. CASE WriteSingleRegister
    BY <2>4 DEF WriteSingleRegister, Serving, Reply, Refuse, Throw, QuietStep
  <2>5. CASE WriteMultipleRegisters
    BY <2>5 DEF WriteMultipleRegisters, Serving, Refuse, QuietStep
  <2>6. CASE Identify BY <2>6 DEF Identify, Serving, Reply, QuietStep
  <2>7. CASE WriteMultipleCoils BY <2>7 DEF WriteMultipleCoils, Serving, QuietStep
  <2>8. CASE FillCoils BY <2>8 DEF FillCoils, QuietStep
  <2>9. CASE Acknowledge BY <2>9 DEF Acknowledge, Reply, QuietStep
  <2> QED BY <1>6, <2>1, <2>2, <2>3, <2>4, <2>5, <2>6, <2>7, <2>8, <2>9 DEF Handler
<1>7. CASE HandleReturns BY <1>7 DEF HandleReturns, QuietStep
<1>8. CASE HookThrows BY <1>8 DEF HookThrows, QuietStep
<1>9. ASSUME NEW cell \in AppCells, NEW v \in Values(cell[1]), AppWrite(cell[1], cell[2], v)
      PROVE  QuietStep
  BY <1>9 DEF AppWrite, QuietStep
<1> QED BY <1>1, <1>2, <1>3, <1>4, <1>5, <1>6, <1>7, <1>8, <1>9 DEF Next

\* A data event keeps them: what was left in the queues has its excuse, and the
\* new requests are newer than all that was ever shifted.
LEMMA DataEventKeepsQueues ==
  ASSUME QueueInvs, Control, NEW c \in Conns, NEW k \in Nat \ {0},
         NEW bodies \in [1..k -> Requests], DataEvent(c, bodies)
  PROVE  QueueInvs'
<1> DEFINE n == Len(received)
           Later(x) == received'[x].event
           Freed(x) == \E y \in threw : Later(y) = Later(x)
<1>1. QueueType /\ Ids = 1..n /\ n \in Nat /\ Ids' = 1..(n + k) /\ Ids \subseteq Ids'
      /\ Len(received') = n + k
  <2>1. QueueType BY DEF QueueInvs
  <2>2. Ids = 1..n /\ n \in Nat BY <2>1, IdsAre
  <2>3. Ids' = 1..(n + k) /\ Len(received') = n + k BY <2>1, DataEventAdds
  <2> HIDE DEF n
  <2> QED BY <2>1, <2>2, <2>3
<1>2. /\ \A r \in Ids : received'[r] = received[r] /\ Later(r) = Event(r) /\ Event(r) \in 1..r
      /\ \A r \in Ids' \ Ids : Later(r) = n + 1 /\ received'[r].conn = c
  BY <1>1, DataEventAdds DEF QueueType, Event
<1>3. order' = order /\ threw' = threw /\ running = Idle /\ running' = c /\ Idle \notin Conns
      /\ threw \subseteq Ids
  BY <1>1, DataEventAdds, ApplicationAssumption DEF Control
<1>4. \A d \in Conns : \A i \in 1..Len(queue[d]) : queue[d][i] \in Ids /\ Excused(queue[d][i])
  BY <1>1, <1>3, IdsAre DEF QueueInvs, EventInv
<1>5. \A r \in Ids : Excused(r) => Freed(r)
  BY <1>2, <1>3 DEF Excused
<1>6. Range(order) \subseteq Ids /\ \A p \in 1..Len(order) : order[p] \in Ids
  BY <1>1, IdsAre, RangeEquality
<1>7. ASSUME NEW d \in Conns, NEW i \in 1..Len(queue'[d])
      PROVE  \/ /\ d = c /\ i \in 1..k /\ queue'[d][i] = n + k + 1 - i
                /\ queue'[d][i] \in Ids' \ Ids
             \/ \E j \in 1..Len(queue[d]) :
                   /\ queue'[d][i] = queue[d][j]
                   /\ IF d = c THEN i = j + k ELSE i = j
  <2>1. CASE d # c BY <2>1, <1>1, DataEventAdds
  <2>2. CASE d = c
    <3>1. Len(queue'[c]) = k + Len(queue[c]) /\ Len(queue[c]) \in Nat
          /\ queue'[c][i] = IF i <= k THEN n + k + 1 - i ELSE queue[c][i - k]
      <4>1. Len(queue[c]) \in Nat BY <1>1, IdsAre
      <4>2. Len(queue'[c]) = k + Len(queue[c]) BY <1>1, DataEventAdds
      <4>3. \A x \in 1..Len(queue'[c]) :
              queue'[c][x] = IF x <= k THEN n + k + 1 - x ELSE queue[c][x - k]
        BY <1>1, DataEventAdds
      <4> HIDE DEF n
      <4> QED BY <4>1, <4>2, <4>3, <2>2
    <3>2. CASE i <= k
      <4>1. i \in 1..k /\ n + k + 1 - i \in Ids' \ Ids BY <3>1, <3>2, <2>2, <1>1
      <4> QED BY <4>1, <3>1, <3>2, <2>2
    <3>3. CASE ~(i <= k)
      <4>1. PICK j \in 1..Len(queue[c]) : j = i - k BY <3>1, <3>3, <2>2
      <4>2. i = j + k BY <4>1, <3>1, <2>2
      <4> QED BY <4>1, <4>2, <3>1, <3>3, <2>2
    <3> QED BY <3>2, <3>3
  <2> QED BY <2>1, <2>2
<1>8. QueueType'
  <2>1. ASSUME NEW r \in Ids' PROVE Later(r) \in 1..r
    <3>1. CASE r \in Ids BY <3>1, <1>2
    <3>2. CASE r \notin Ids
      <4>1. r \in Nat /\ r >= n + 1 BY <3>2, <1>1
      <4> QED BY <4>1, <3>2, <1>1, <1>2
    <3> QED BY <3>1, <3>2
  <2>2. order \in Seq(Ids') BY <1>1, SeqMonotonic DEF QueueType
  <2>3. received' \in Seq(Entry) /\ queue' \in [Conns -> Seq(Ids')] BY <1>1, DataEventAdds
  <2> QED BY <2>1, <2>2, <2>3, <1>3 DEF QueueType, Event
<1>9. QueueInv'
  <2> SUFFICES ASSUME NEW d \in Conns, NEW i \in 1..Len(queue'[d])
               PROVE  /\ received'[queue'[d][i]].conn = d /\ queue'[d][i] \notin Range(order)
                      /\ \A j \in 1..Len(queue'[d]) : i < j => queue'[d][j] < queue'[d][i]
    BY <1>3 DEF QueueInv
  <2>1. received'[queue'[d][i]].conn = d /\ queue'[d][i] \notin Range(order)
    <3>1. CASE d = c /\ queue'[d][i] \in Ids' \ Ids BY <3>1, <1>2, <1>6
    <3>2. ASSUME NEW j \in 1..Len(queue[d]), queue'[d][i] = queue[d][j]
          PROVE  received'[queue'[d][i]].conn = d /\ queue'[d][i] \notin Range(order)
      <4>1. received[queue[d][j]].conn = d /\ queue[d][j] \notin Range(order)
        BY DEF QueueInvs, QueueInv
      <4>2. queue[d][j] \in Ids BY <1>4
      <4> QED BY <4>1, <4>2, <3>2, <1>2
    <3> QED BY <3>1, <3>2, <1>7
  <2>2. ASSUME NEW j \in 1..Len(queue'[d]), i < j PROVE queue'[d][j] < queue'[d][i]
    <3>1. CASE d = c /\ i \in 1..k /\ queue'[d][i] = n + k + 1 - i /\ queue'[d][i] \in Ids' \ Ids
      <4>1. CASE queue'[d][j] = n + k + 1 - j /\ j \in 1..k BY <4>1, <3>1, <2>2, <1>1
      <4>2. CASE queue'[d][j] \in Ids BY <4>2, <3>1, <1>1
      <4> QED BY <4>1, <4>2, <1>4, <1>7, SMTT(30)
    <3>2. ASSUME NEW x \in 1..Len(queue[d]), queue'[d][i] = queue[d][x],
                 IF d = c THEN i = x + k ELSE i = x
          PROVE  queue'[d][j] < queue'[d][i]
      <4>0. Len(queue[d]) \in Nat /\ Len(queue'[d]) \in Nat
        <5>1. Len(queue[d]) \in Nat BY <1>1, IdsAre
        <5> QED BY <5>1, <1>1, DataEventAdds
      <4>1. PICK y \in 1..Len(queue[d]) : /\ queue'[d][j] = queue[d][y]
                                           /\ IF d = c THEN j = y + k ELSE j = y
        <5>1. ~(d = c /\ j \in 1..k) BY <4>0, <3>2, <2>2
        <5> QED BY <5>1, <1>7
      <4>2. x < y BY <4>0, <4>1, <3>2, <2>2
      <4> QED BY <4>1, <4>2, <3>2 DEF QueueInvs, QueueInv
    <3> QED BY <3>1, <3>2, <1>7
  <2> QED BY <2>1, <2>2
<1>10. EventInv'
  <2>1. ASSUME NEW q \in Ids', NEW r \in Ids', q <= r PROVE Later(q) <= Later(r)
    <3>1. CASE q \in Ids /\ r \in Ids BY <3>1, <2>1, <1>2 DEF QueueInvs, EventInv
    <3>2. CASE q \in Ids /\ r \notin Ids
      <4>1. Later(q) \in 1..n BY <3>2, <1>1, <1>2
      <4> QED BY <4>1, <3>2, <1>1, <1>2
    <3>3. CASE q \notin Ids
      <4>1. r \notin Ids BY <3>3, <2>1, <1>1
      <4> QED BY <4>1, <3>3, <1>1, <1>2
    <3> QED BY <3>1, <3>2, <3>3
  <2>2. Later(Len(received')) = n + 1
    <3>1. n + k \in Ids' \ Ids BY <1>1
    <3> QED BY <3>1, <1>1, <1>2
  <2>3. ASSUME NEW d \in Conns, NEW i \in 1..Len(queue'[d])
        PROVE  \/ Freed(queue'[d][i])
               \/ running' = d /\ Later(queue'[d][i]) = Later(Len(received'))
    <3>1. CASE d = c /\ queue'[d][i] \in Ids' \ Ids BY <3>1, <2>2, <1>2, <1>3
    <3>2. ASSUME NEW j \in 1..Len(queue[d]), queue'[d][i] = queue[d][j]
          PROVE  Freed(queue'[d][i])
      BY <3>2, <1>4, <1>5
    <3> QED BY <3>1, <3>2, <1>7
  <2> QED BY <2>1, <2>3, <1>3 DEF EventInv, Event, Excused
<1>11. ShiftInv'
  <2> SUFFICES ASSUME NEW p \in 1..Len(order), NEW d \in Conns, NEW i \in 1..Len(queue'[d]),
                      queue'[d][i] < order[p]
               PROVE  Freed(queue'[d][i])
    BY <1>3 DEF ShiftInv, Event, Excused
  <2>1. order[p] \in 1..n BY <1>1, <1>6
  <2>2. PICK j \in 1..Len(queue[d]) : queue'[d][i] = queue[d][j]
    <3>1. ~(queue'[d][i] \in Ids' \ Ids) BY <2>1, <1>1
    <3> QED BY <3>1, <1>7
  <2> QED BY <2>2, <1>4, <1>5
<1> QED BY <1>8, <1>9, <1>10, <1>11 DEF QueueInvs

\* A request that waits behind a newer one on its connection came in the same
\* data event or was left behind by an exception.
LEMMA WaitsForCause ==
  ASSUME QueueInvs, NEW c \in Conns, NEW i \in 1..Len(queue[c]), NEW r \in Ids,
         queue[c][i] <= r, running = c
  PROVE  Excused(queue[c][i]) \/ Event(queue[c][i]) = Event(r)
<1> DEFINE q == queue[c][i]
           n == Len(received)
<1>1. q \in Ids /\ Ids = 1..n /\ n \in Nat /\ r \in 1..n /\ n \in Ids BY IdsAre DEF QueueInvs
<1>2. Excused(q) \/ Event(q) = Event(n) BY DEF QueueInvs, EventInv
<1>3. \A x \in Ids : Event(x) \in Nat BY <1>1 DEF QueueInvs, QueueType
<1>4. Event(q) <= Event(r) /\ Event(r) <= Event(n) BY <1>1 DEF QueueInvs, EventInv
<1>5. Event(q) \in Nat /\ Event(r) \in Nat /\ Event(n) \in Nat BY <1>1, <1>3
<1> QED BY <1>2, <1>4, <1>5

\* A shift keeps them: what is shifted is the newest of its queue, and the rest
\* of that queue belongs to the same data event unless it is excused.
LEMMA TakeKeepsQueues ==
  ASSUME QueueInvs, Control, NEW r, Take(r)
  PROVE  QueueInvs' /\ (OutOfOrderHasCause => OutOfOrderHasCause')
<1>1. QueueType /\ Ids' = Ids /\ received' = received /\ threw' = threw /\ running' = running
  BY TakeShifts DEF QueueInvs, Control, Ids
<1>2. /\ running \in Conns /\ r \in Ids /\ r = queue[running][1] /\ 1 \in 1..Len(queue[running])
      /\ Range(order') = Range(order) \cup {r}
      /\ Len(order') = Len(order) + 1 /\ order'[Len(order) + 1] = r
      /\ \A p \in 1..Len(order) : order'[p] = order[p]
  BY <1>1, TakeShifts DEF Control
<1>3. Len(order) \in Nat /\ \A p \in 1..Len(order) : order[p] \in Ids
  BY <1>1, IdsAre, RangeEquality
<1>4. received[r].conn = running BY <1>2 DEF QueueInvs, QueueInv
<1>5. ASSUME NEW d \in Conns, NEW i \in 1..Len(queue'[d])
      PROVE  \E j \in 1..Len(queue[d]) :
               /\ queue'[d][i] = queue[d][j]
               /\ IF d = running THEN j = i + 1 ELSE j = i
  <2>1. CASE d = running BY <2>1, <1>1, TakeShifts DEF Control
  <2>2. CASE d # running BY <2>2, <1>1, TakeShifts DEF Control
  <2> QED BY <2>1, <2>2
<1>6. \A d \in Conns : Len(queue[d]) \in Nat /\ Len(queue'[d]) \in Nat
  <2>1. queue' \in [Conns -> Seq(Ids)] BY <1>1, TakeShifts DEF Control
  <2> QED BY <2>1, <1>1, IdsAre, LenProperties
<1>7. \A x : Event(x)' = Event(x) /\ Excused(x)' = Excused(x) BY <1>1 DEF Event, Excused
<1>8. ASSUME NEW d \in Conns, NEW i \in 1..Len(queue'[d])
      PROVE  queue'[d][i] # r /\ (d = running => queue'[d][i] < r)
  <2>1. PICK j \in 1..Len(queue[d]) :
               /\ queue'[d][i] = queue[d][j]
               /\ IF d = running THEN j = i + 1 ELSE j = i
    BY <1>5
  <2>2. CASE d = running
    <3>1. 1 < j BY <2>1, <2>2, <1>6
    <3>2. queue[d][j] < queue[d][1] BY <3>1, <2>2, <1>2 DEF QueueInvs, QueueInv
    <3>3. queue[d][j] \in Nat /\ r \in Nat BY <1>1, <1>2, IdsAre
    <3> QED BY <3>2, <3>3, <2>1, <2>2, <1>2
  <2>3. CASE d # running
    <3>1. received[queue[d][j]].conn = d BY DEF QueueInvs, QueueInv
    <3> QED BY <3>1, <2>1, <2>3, <1>4
  <2> QED BY <2>2, <2>3
<1>9. QueueType' BY <1>1, TakeShifts DEF Control, QueueType, Event
<1>10. QueueInv'
  <2> SUFFICES ASSUME NEW d \in Conns, NEW i \in 1..Len(queue'[d])
               PROVE  /\ received[queue'[d][i]].conn = d /\ queue'[d][i] \notin Range(order')
                      /\ \A j \in 1..Len(queue'[d]) : i < j => queue'[d][j] < queue'[d][i]
    BY <1>1 DEF QueueInv
  <2>1. PICK x \in 1..Len(queue[d]) :
               /\ queue'[d][i] = queue[d][x]
               /\ IF d = running THEN x = i + 1 ELSE x = i
    BY <1>5
  <2>2. ASSUME NEW j \in 1..Len(queue'[d]), i < j PROVE queue'[d][j] < queue'[d][i]
    <3>1. PICK y \in 1..Len(queue[d]) :
                 /\ queue'[d][j] = queue[d][y]
                 /\ IF d = running THEN y = j + 1 ELSE y = j
      BY <1>5
    <3>2. x < y BY <3>1, <2>1, <2>2, <1>6
    <3> QED BY <3>1, <3>2, <2>1 DEF QueueInvs, QueueInv
  <2> QED BY <2>1, <2>2, <1>2, <1>8 DEF QueueInvs, QueueInv
<1>11. EventInv'
  <2>1. \A d \in Conns : \A i \in 1..Len(queue'[d]) :
           \/ Excused(queue'[d][i])
           \/ running = d /\ Event(queue'[d][i]) = Event(Len(received))
    BY <1>5 DEF QueueInvs, EventInv
  <2> QED BY <2>1, <1>1 DEF QueueInvs, EventInv, Event, Excused
<1>12. ShiftInv'
  <2> SUFFICES ASSUME NEW p \in 1..Len(order'), NEW d \in Conns, NEW i \in 1..Len(queue'[d]),
                      received[order'[p]].conn = d, queue'[d][i] < order'[p]
               PROVE  Event(order'[p]) = Event(queue'[d][i]) \/ Excused(queue'[d][i])
    BY <1>1 DEF ShiftInv, Event, Excused
  <2>1. PICK j \in 1..Len(queue[d]) : queue'[d][i] = queue[d][j] BY <1>5
  <2>2. CASE p \in 1..Len(order) BY <2>1, <2>2, <1>2 DEF QueueInvs, ShiftInv
  <2>3. CASE order'[p] = r
    <3>1. queue[d][j] \in Nat /\ r \in Nat BY <1>1, <1>2, IdsAre
    <3>2. queue[d][j] <= r /\ d = running BY <3>1, <2>1, <2>3, <1>4
    <3> QED BY <3>2, <2>1, <2>3, <1>2, WaitsForCause
  <2>4. p \in 1..Len(order) \/ p = Len(order) + 1 BY <1>2, <1>3
  <2> QED BY <2>2, <2>3, <2>4, <1>2
<1>13. ASSUME OutOfOrderHasCause PROVE OutOfOrderHasCause'
  <2>1. order \in Seq(Ids) /\ order' \in Seq(Ids) BY <1>1, TakeShifts DEF Control, QueueType
  <2>2. DOMAIN order = 1..Len(order) /\ DOMAIN order' = 1..(Len(order) + 1)
    BY <2>1, <1>2, LenProperties
  <2> SUFFICES ASSUME NEW p \in 1..(Len(order) + 1), NEW q \in 1..(Len(order) + 1), p < q,
                      received[order'[p]].conn = received[order'[q]].conn,
                      order'[p] > order'[q]
               PROVE  Event(order'[p]) = Event(order'[q]) \/ Excused(order'[q])
    BY <2>2, <1>1 DEF OutOfOrderHasCause, Event, Excused
  <2>3. p \in 1..Len(order) /\ order'[p] = order[p] BY <1>2, <1>3
  <2>4. CASE q \in 1..Len(order)
    BY <2>2, <2>3, <2>4, <1>2, <1>13 DEF OutOfOrderHasCause, Event, Excused
  <2>5. CASE q = Len(order) + 1
    <3>1. order'[q] = queue[running][1] /\ received[order[p]].conn = running
      BY <2>3, <2>5, <1>2, <1>4
    <3>2. queue[running][1] < order[p]
      <4>1. r \in Nat /\ order[p] \in Nat BY <2>3, <1>1, <1>2, <1>3, IdsAre
      <4> QED BY <4>1, <3>1, <2>3, <1>2
    <3> QED BY <3>1, <3>2, <2>3, <1>2 DEF QueueInvs, ShiftInv
  <2>6. q \in 1..Len(order) \/ q = Len(order) + 1 BY <1>3
  <2> QED BY <2>4, <2>5, <2>6
<1> QED BY <1>9, <1>10, <1>11, <1>12, <1>13 DEF QueueInvs

\* A quiet step keeps them: an exception excuses what is left of its own data
\* event.
LEMMA QuietKeepsQueues ==
  ASSUME QueueInvs, Control, QuietStep
  PROVE  QueueInvs'
<1>1. /\ received' = received /\ queue' = queue /\ order' = order /\ Ids' = Ids
      /\ threw \subseteq threw'
  BY DEF QuietStep, Ids
<1>2. ASSUME NEW x, Excused(x) PROVE \E y \in threw' : Event(y) = Event(x)
  BY <1>2, <1>1 DEF Excused
<1>3. QueueType' /\ QueueInv' BY <1>1 DEF QueueInvs, QueueType, QueueInv, Event
<1>4. ShiftInv' BY <1>1 DEF QueueInvs, ShiftInv, Event, Excused
<1>5. ASSUME NEW c \in Conns, NEW i \in 1..Len(queue[c])
      PROVE  \/ \E y \in threw' : Event(y) = Event(queue[c][i])
             \/ running' = c /\ Event(queue[c][i]) = Event(Len(received))
  <2>1. CASE Excused(queue[c][i]) BY <2>1, <1>2
  <2>2. CASE running = c /\ Event(queue[c][i]) = Event(Len(received))
    <3>1. CASE running' = running BY <3>1, <2>2
    <3>2. CASE queue[running] = <<>>
      <4>1. Len(queue[c]) = 0 BY <3>2, <2>2
      <4>2. 1..Len(queue[c]) = {} BY <4>1
      <4> QED BY <4>2
    <3>3. CASE stage # "loop" /\ current \in threw'
      <4>1. current \in Ids /\ queue[c][i] < current /\ queue[c][i] \in Ids /\ Ids \subseteq Nat
        BY <3>3, <2>2, IdsAre DEF Control, QueueInvs
      <4>2. queue[c][i] \in Nat /\ current \in Nat BY <4>1
      <4>3. queue[c][i] <= current BY <4>1, <4>2
      <4>4. Excused(queue[c][i]) \/ Event(queue[c][i]) = Event(current)
        BY <4>1, <4>3, <2>2, WaitsForCause
      <4> QED BY <4>4, <3>3, <1>2
    <3> QED BY <3>1, <3>2, <3>3 DEF QuietStep
  <2> QED BY <2>1, <2>2 DEF QueueInvs, EventInv
<1>6. EventInv' BY <1>1, <1>5 DEF QueueInvs, EventInv, Event, Excused
<1> QED BY <1>3, <1>4, <1>6 DEF QueueInvs

-----------------------------------------------------------------------------
(* The tables.                                                               *)
\* A table has cells 0 to its size.
LEMMA CellsAre ==
  ASSUME NEW t \in Tables
  PROVE  \E size \in Nat : /\ Cells(t) = 0 .. size - 1
                           /\ t \in BitTables => size = 8 * Bytes[t]
                           /\ t \notin BitTables => size = Bytes[t] \div 2
<1>1. Bytes[t] \in Nat BY ServerAssumption
<1>2. 8 * Bytes[t] \in Nat /\ Bytes[t] \div 2 \in Nat BY <1>1
<1> QED BY <1>2 DEF Cells

\* What a read finds of the cells it asks for: as many as the table still has,
\* from the first one on.
LEMMA ExistingCells ==
  ASSUME NEW t \in Tables, NEW f \in Contents(t), NEW body \in Requests
  PROVE  /\ Existing(f, body) \in 0..body.n
         /\ \A a \in Addressed(body) \cap Cells(t) :
              a \in Nat /\ a - body.at + 1 \in 1..Existing(f, body)
         /\ \A i \in 1..Existing(f, body) : body.at + i - 1 \in Addressed(body) \cap Cells(t)
<1> DEFINE at == body.at
           n == body.n
<1>1. at \in Nat /\ n \in Nat \ {0} BY ServerAssumption
<1>2. PICK size \in Nat : Cells(t) = 0 .. size - 1 BY CellsAre
<1>3. DOMAIN f = Cells(t) BY DEF Contents
<1>4. Addressed(body) = at .. at + n - 1 BY DEF Addressed
<1> DEFINE both == Addressed(body) \cap Cells(t)
<1>5. Existing(f, body) = Cardinality(both) BY <1>3 DEF Existing
<1> HIDE DEF at, n, both
<1>6. CASE size <= at
  <2>1. both = {} BY <1>1, <1>2, <1>4, <1>6 DEF both
  <2>2. Existing(f, body) = 0 BY <2>1, <1>5, FS_EmptySet
  <2> QED BY <2>1, <2>2, <1>1 DEF n, both
<1>7. CASE at < size /\ size < at + n
  <2>1. both = at .. size - 1 BY <1>1, <1>2, <1>4, <1>7 DEF both
  <2>2. Existing(f, body) = size - at
    <3>1. Cardinality(at .. size - 1) = IF at > size - 1 THEN 0 ELSE size - 1 - at + 1
      BY <1>1, FS_Interval
    <3> QED BY <3>1, <2>1, <1>1, <1>5, <1>7
  <2>3. size - at \in 0..n BY <1>1, <1>7
  <2>4. \A a \in at .. size - 1 : a \in Nat /\ a - at + 1 \in 1..(size - at) BY <1>1
  <2>5. \A i \in 1..(size - at) : at + i - 1 \in at .. size - 1 BY <1>1
  <2> QED BY <2>1, <2>2, <2>3, <2>4, <2>5 DEF at, n, both
<1>8. CASE at < size /\ at + n <= size
  <2>1. both = at .. at + n - 1 BY <1>1, <1>2, <1>4, <1>8 DEF both
  <2>2. Existing(f, body) = n
    <3>1. Cardinality(at .. at + n - 1) = IF at > at + n - 1 THEN 0 ELSE at + n - 1 - at + 1
      BY <1>1, FS_Interval
    <3> QED BY <3>1, <2>1, <1>1, <1>5
  <2>3. n \in 0..n BY <1>1
  <2>4. \A a \in at .. at + n - 1 : a \in Nat /\ a - at + 1 \in 1..n BY <1>1
  <2>5. \A i \in 1..n : at + i - 1 \in at .. at + n - 1 BY <1>1
  <2> QED BY <2>1, <2>2, <2>3, <2>4, <2>5 DEF at, n, both
<1> QED BY <1>1, <1>6, <1>7, <1>8

\* The slice a read answers with.
LEMMA SliceShows ==
  ASSUME NEW t \in Tables, NEW f \in Contents(t), NEW body \in Requests
  PROVE  /\ Slice(f, body) \in Answers
         /\ Len(Slice(f, body).vals) = Existing(f, body)
         /\ \A a \in Addressed(body) \cap Cells(t) :
              Slice(f, body).vals[a - body.at + 1] = f[a]
<1> DEFINE n == Existing(f, body)
           vals == [i \in 1..n |-> f[body.at + i - 1]]
<1>1. body.at \in Nat /\ body.n \in Nat BY ServerAssumption
<1>2. n \in Nat BY <1>1, ExistingCells
<1>3. vals \in [1..n -> Values(t)]
  BY ExistingCells DEF Contents
<1>4. vals \in Seq(Values(t)) /\ Len(vals) = n
  <2> HIDE DEF vals, n
  <2> QED BY <1>2, <1>3
<1>5. vals \in Seq(BOOLEAN) \cup Seq(Words)
  BY <1>4 DEF Values
<1>6. Slice(f, body) = [kind |-> "values", vals |-> vals] BY DEF Slice
<1>7. ASSUME NEW a \in Addressed(body) \cap Cells(t) PROVE vals[a - body.at + 1] = f[a]
  <2>1. PICK i \in 1..n : i = a - body.at + 1 /\ a \in Nat BY ExistingCells
  <2>2. body.at + i - 1 = a BY <2>1, <1>1, <1>2
  <2> QED BY <2>1, <2>2
<1> HIDE DEF vals, n
<1> QED BY <1>4, <1>5, <1>6, <1>7 DEF Answers, n

\* A write brings a value for every cell it addresses.
LEMMA WrittenValues ==
  ASSUME NEW body \in Requests, body.kind \in Writes
  PROVE  /\ Written(body) \in [1..body.n -> Values(TableOf(body))]
         /\ \A a \in Addressed(body) : /\ a - body.at + 1 \in 1..body.n
                                       /\ Written(body)[a - body.at + 1] \in Values(TableOf(body))
<1> DEFINE t == TableOf(body)
<1>1. body.at \in Nat /\ body.n \in Nat \ {0} BY ServerAssumption
<1>2. Written(body) \in [1..body.n -> Values(t)]
  <2>1. CASE body.kind = "writeCoil"
    <3>1. body.n = 1 /\ t = "coils" BY <2>1, ServerAssumption DEF TableOf
    <3>2. Written(body) = <<ParsedCoil(body.vals[1])>> /\ ParsedCoil(body.vals[1]) \in BOOLEAN
      BY <2>1 DEF Written, ParsedCoil
    <3>3. <<ParsedCoil(body.vals[1])>> \in [1..1 -> BOOLEAN] BY <3>2
    <3> QED BY <3>1, <3>2, <3>3 DEF Values, BitTables
  <2>2. CASE body.kind = "writeCoils"
    <3>1. body.vals \in [1..body.n -> BOOLEAN] /\ t = "coils" BY <2>2, ServerAssumption DEF TableOf
    <3> QED BY <3>1, <2>2 DEF Written, Values, BitTables
  <2>3. CASE body.kind \in {"writeRegister", "writeRegisters"}
    <3>1. body.vals \in [1..body.n -> Words] /\ t = "holding" BY <2>3, ServerAssumption DEF TableOf
    <3> QED BY <3>1, <2>3 DEF Written, Values, BitTables
  <2> QED BY <2>1, <2>2, <2>3 DEF Writes
<1>3. \A a \in Addressed(body) : a - body.at + 1 \in 1..body.n BY <1>1 DEF Addressed
<1> QED BY <1>2, <1>3

\* A write keeps the table's cells and puts values into them.
LEMMA UpdateShows ==
  ASSUME NEW t \in Tables, NEW f \in Contents(t), NEW body \in Requests,
         body.kind \in Writes, t = TableOf(body)
  PROVE  /\ Updated(f, body) \in Contents(t)
         /\ \A a \in Cells(t) :
              Updated(f, body)[a] = IF a \in Addressed(body) THEN Written(body)[a - body.at + 1]
                                    ELSE f[a]
<1>1. \A a \in Addressed(body) : Written(body)[a - body.at + 1] \in Values(t)
  BY WrittenValues
<1>2. DOMAIN f = Cells(t) /\ \A a \in Cells(t) : f[a] \in Values(t) BY DEF Contents
<1>3. Updated(f, body) = [a \in Cells(t) |-> IF a \in Addressed(body)
                                             THEN Written(body)[a - body.at + 1] ELSE f[a]]
  BY <1>2 DEF Updated
<1>4. \A a \in Cells(t) :
        (IF a \in Addressed(body) THEN Written(body)[a - body.at + 1] ELSE f[a]) \in Values(t)
  BY <1>1, <1>2
<1> QED BY <1>3, <1>4 DEF Contents

\* A read whose slice does not fit asks for more than a response can hold.
LEMMA UnfitReads ==
  ASSUME NEW body \in Requests, body.kind \in Reads, TableOf(body) \in Tables,
         table[TableOf(body)] \in Contents(TableOf(body)), ~Fits(body)
  PROVE  TooLong(body)
<1> DEFINE t == TableOf(body)
           n == Existing(table[t], body)
<1>1. n \in 0..body.n /\ body.n \in Nat /\ MaxByteCount \in Nat BY ExistingCells, ServerAssumption
<1>2. n \in Nat /\ n <= body.n BY <1>1
<1>3. ~((IF t \in BitTables THEN (n + 7) \div 8 ELSE 2 * n) <= MaxByteCount) BY DEF Fits
<1> HIDE DEF t, n
<1>4. body.n > (IF t \in BitTables THEN 8 * MaxByteCount ELSE MaxByteCount \div 2)
  <2>1. CASE t \in BitTables
    <3>1. (n + 7) \div 8 > MaxByteCount BY <2>1, <1>1, <1>2, <1>3
    <3>2. n > 8 * MaxByteCount BY <3>1, <1>1, <1>2
    <3> QED BY <3>2, <2>1, <1>1, <1>2
  <2>2. CASE t \notin BitTables
    <3>1. 2 * n > MaxByteCount BY <2>2, <1>1, <1>2, <1>3
    <3>2. n > MaxByteCount \div 2 BY <3>1, <1>1, <1>2
    <3> QED BY <3>2, <2>2, <1>1, <1>2
  <2> QED BY <2>1, <2>2
<1> QED BY <1>4 DEF TooLong, t

-----------------------------------------------------------------------------
(* Requests and their answers.                                               *)

\* The parts of the invariant say what TypeOK, AnsweredOnce and
\* AcknowledgedIsStored say.
LEMMA PartsAre ==
  /\ QueueType /\ ControlType /\ TablesType /\ UpdatesType /\ RepliesType => TypeOK
  /\ AnsweredOnce <=> \A r \in Range(order) : Settled(r)
  /\ AcknowledgedIsStored <=> \A r \in Range(order) : Agrees(r)
<1>1. QueueType /\ ControlType /\ TablesType /\ UpdatesType /\ RepliesType => TypeOK
  BY DEF TypeOK, QueueType, ControlType, TablesType, UpdatesType, RepliesType, Contents, Event
<1>2. AnsweredOnce <=> \A r \in Range(order) : Settled(r)
  BY DEF AnsweredOnce, Settled, Mine, DealtWith
<1>3. AcknowledgedIsStored <=> \A r \in Range(order) : Agrees(r)
  BY DEF AcknowledgedIsStored, Agrees, Storing, UnderWay
<1> QED BY <1>1, <1>2, <1>3

\* The replies, and what the handler's position says of its request.
LEMMA ServeFacts ==
  ASSUME ServeInv
  PROVE  /\ QueueType /\ Ids = 1..Len(received) /\ Len(received) \in Nat /\ Ids \subseteq Nat
         /\ Range(order) \subseteq Ids
         /\ \A r \in Ids : replies[r] \in Seq(Answers) /\ Len(replies[r]) \in Nat
         /\ \A r \in Ids : received[r] \in Entry /\ Body(r) \in Requests
         /\ Control
         /\ stage # "loop" => current \in Ids /\ current \in Range(order)
<1>1. QueueType BY DEF ServeInv, QueueInvs
<1>2. /\ Ids = 1..Len(received) /\ Len(received) \in Nat /\ Ids \subseteq Nat
      /\ Range(order) \subseteq Ids /\ \A r \in Ids : received[r] \in Entry
  BY <1>1, IdsAre
<1>3. ASSUME NEW r \in Ids PROVE replies[r] \in Seq(Answers)
  <2>1. r \in 1..Len(replies) BY <1>2 DEF ServeInv, HandlerInvs, RepliesType
  <2> QED BY <2>1, ElementOfSeq DEF ServeInv, HandlerInvs, RepliesType
<1>4. \A r \in Ids : Len(replies[r]) \in Nat BY <1>3, LenProperties
<1>5. \A r \in Ids : Body(r) \in Requests BY <1>2 DEF Body, Entry
<1>6. stage # "loop" => current \in Ids /\ current \in Range(order)
  BY <1>2 DEF ServeInv, HandlerInvs, StageInv
<1>7. Control BY <1>6, ApplicationAssumption DEF ServeInv, HandlerInvs, StageInv, Control, ControlType
<1> QED BY <1>1, <1>2, <1>3, <1>4, <1>5, <1>6, <1>7

\* One answer more.
LEMMA AnswerAdds ==
  ASSUME ServeInv, NEW x \in Ids, NEW a \in Answers, Answer(x, a), Ids' = Ids,
         received' = received
  PROVE  /\ RepliesType'
         /\ replies'[x] = Append(replies[x], a) /\ Len(replies'[x]) = Len(replies[x]) + 1
         /\ \A r \in Ids \ {x} : replies'[r] = replies[r]
<1>1. Ids = 1..Len(replies) /\ replies \in Seq(Seq(Answers)) /\ x \in 1..Len(replies)
  BY ServeFacts DEF ServeInv, HandlerInvs, RepliesType
<1>2. replies[x] \in Seq(Answers) BY ServeFacts
<1>3. Append(replies[x], a) \in Seq(Answers) /\ Len(Append(replies[x], a)) = Len(replies[x]) + 1
  BY <1>2, AppendProperties
<1>4. replies' = [replies EXCEPT ![x] = Append(replies[x], a)] BY DEF Answer
<1>5. /\ replies' \in Seq(Seq(Answers)) /\ Len(replies') = Len(replies)
      /\ \A r \in 1..Len(replies) : replies'[r] = IF r = x THEN Append(replies[x], a) ELSE replies[r]
  BY <1>1, <1>3, <1>4, ExceptSeq
<1>6. RepliesType' BY <1>5 DEF ServeInv, HandlerInvs, RepliesType
<1> QED BY <1>1, <1>3, <1>5, <1>6

\* What the handlers do to requests and answers.
ServeAnswers ==
  /\ running # Idle /\ stage \in {"pre", "stored"} /\ stage' \in {"post", "loop"}
  /\ Answered(Body(current)) /\ \E a \in Answers : Answer(current, a)
  /\ UNCHANGED <<received, queue, order, running, current, threw, hookThrew, given, heard>>
ServeThrows ==
  /\ running # Idle /\ stage = "pre" /\ stage' = "loop" /\ running' = Idle
  /\ threw' = threw \cup {current} /\ BreaksOff(Body(current))
  /\ UNCHANGED <<received, queue, order, current, hookThrew, given, heard, replies>>
ServeHandsOn ==
  /\ running # Idle /\ stage = "pre" /\ stage' = "post" /\ ~Answered(Body(current))
  /\ UNCHANGED <<received, queue, order, running, current, threw, hookThrew, given, heard, replies>>
ServeStores ==
  /\ running # Idle /\ stage \in {"pre", "mid"} /\ stage' = "stored"
  /\ Body(current).kind \in {"writeCoils", "writeRegisters"}
  /\ UNCHANGED <<received, queue, order, running, current, threw, hookThrew, given, heard, replies>>

LEMMA HandlerShapes ==
  ASSUME ServeInv, TablesType, Handler
  PROVE  ServeAnswers \/ ServeThrows \/ ServeHandsOn \/ ServeStores \/ WriteMultipleCoils
<1> DEFINE body == Body(current)
           t == TableOf(body)
<1>1. stage \in {"pre", "mid", "stored"}
  BY DEF Handler, Read, ReadHolding, WriteSingleCoil, WriteSingleRegister,
         WriteMultipleRegisters, Identify, WriteMultipleCoils, FillCoils, Acknowledge, Serving
<1>2. current \in Ids /\ body \in Requests /\ Begins(body)
  BY <1>1, ServeFacts DEF ServeInv, HandlerInvs, StageInv
<1>3. body.at \in Nat /\ body.n \in Nat \ {0}
      /\ (body.kind \in {"writeCoil", "writeRegister"} => body.n = 1)
  BY <1>2, ServerAssumption
<1>4. body.kind # "identify" => t \in Tables /\ Answered(body) BY <1>2 DEF Begins, Answered
<1>5. ASSUME t \in Tables
      PROVE  Slice(table[t], body) \in Answers /\ table[t] \in Contents(t)
  BY <1>2, <1>5, SliceShows DEF TablesType
<1>6. Success \in Answers /\ Exception(1) \in Answers /\ Exception(2) \in Answers
  BY DEF Answers, Exception
<1>7. body.at \in Addressed(body) /\ body.at + body.n - 1 \in Addressed(body)
  BY <1>3 DEF Addressed
<1>8. ASSUME t \in Tables, t = "holding"
      PROVE  /\ Bytes[t] \in Nat
             /\ \A a \in Cells(t) : a \in Nat /\ 2 * (a + 1) <= Bytes[t]
  <2>1. Bytes[t] \in Nat BY <1>8, ServerAssumption
  <2>2. Cells(t) = 0 .. (Bytes[t] \div 2) - 1 BY <1>8 DEF Cells, BitTables
  <2> QED BY <2>1, <2>2
<1>9. CASE Read
  <2>1. body.kind \in Reads /\ body.kind # "identify" BY <1>9 DEF Read, Serving, Reads
  <2>2. t \in Tables /\ Answered(body) BY <2>1, <1>4
  <2>3. CASE Fits(body) BY <2>2, <2>3, <1>5, <1>9 DEF Read, Serving, Reply, ServeAnswers, app
  <2>4. CASE ~Fits(body)
    <3>1. BreaksOff(body) BY <2>1, <2>2, <2>4, <1>2, <1>5, UnfitReads DEF BreaksOff
    <3> QED BY <3>1, <2>4, <1>9 DEF Read, Serving, Throw, ServeThrows, app
  <2> QED BY <2>3, <2>4
<1>10. CASE ReadHolding
  <2>1. body.kind = "readHolding" /\ t = "holding" BY <1>10 DEF ReadHolding, Serving, TableOf
  <2>2. t \in Tables /\ Answered(body) BY <2>1, <1>4
  <2>3. CASE Bytes["holding"] >= 2 * (body.at + body.n) /\ Fits(body)
    BY <2>1, <2>2, <2>3, <1>5, <1>10 DEF ReadHolding, Serving, Reply, ServeAnswers, app
  <2>4. CASE ~(Bytes["holding"] >= 2 * (body.at + body.n))
    <3>1. body.at + body.n - 1 \notin Cells(t) BY <2>1, <2>2, <2>4, <1>3, <1>8
    <3>2. BreaksOff(body) BY <3>1, <2>1, <1>7 DEF BreaksOff
    <3> QED BY <3>2, <2>4, <1>10 DEF ReadHolding, Serving, Throw, ServeThrows, app
  <2>5. CASE ~Fits(body)
    <3>1. BreaksOff(body) BY <2>1, <2>2, <2>5, <1>2, <1>5, UnfitReads DEF Reads, BreaksOff
    <3> QED BY <3>1, <2>5, <1>10 DEF ReadHolding, Serving, Throw, ServeThrows, app
  <2> QED BY <2>3, <2>4, <2>5
<1>11. CASE WriteSingleCoil
  <2>1. body.kind = "writeCoil" /\ t = "coils" BY <1>11 DEF WriteSingleCoil, Serving, TableOf
  <2>2. CASE body.at \in Cells("coils")
    BY <2>1, <2>2, <1>4, <1>6, <1>11 DEF WriteSingleCoil, Serving, Reply, ServeAnswers, app
  <2>3. CASE body.at \notin Cells("coils")
    <3>1. BreaksOff(body) BY <2>1, <2>3, <1>7 DEF BreaksOff
    <3> QED BY <3>1, <2>3, <1>11 DEF WriteSingleCoil, Serving, Throw, ServeThrows, app
  <2> QED BY <2>2, <2>3
<1>12. CASE WriteSingleRegister
  <2>1. body.kind = "writeRegister" /\ t = "holding"
    BY <1>12 DEF WriteSingleRegister, Serving, TableOf
  <2>2. t \in Tables /\ Answered(body) BY <2>1, <1>4
  <2>3. CASE 2 * body.at > Bytes["holding"]
    BY <2>1, <2>2, <2>3, <1>3, <1>6, <1>8, <1>12
       DEF WriteSingleRegister, Serving, Refuse, ServeAnswers, app
  <2>4. CASE ~(2 * body.at > Bytes["holding"]) /\ 2 * body.at + 2 <= Bytes["holding"]
    BY <2>1, <2>2, <2>4, <1>3, <1>6, <1>8, <1>12
       DEF WriteSingleRegister, Serving, Reply, ServeAnswers, app
  <2>5. CASE ~(2 * body.at > Bytes["holding"]) /\ ~(2 * body.at + 2 <= Bytes["holding"])
    <3>1. body.at \notin Cells(t) BY <2>1, <2>2, <2>5, <1>3, <1>8
    <3>2. 2 * body.at <= Bytes["holding"] BY <2>1, <2>2, <2>5, <1>3, <1>8
    <3>3. BreaksOff(body) BY <3>1, <3>2, <2>1 DEF BreaksOff
    <3> QED BY <3>3, <2>5, <1>12 DEF WriteSingleRegister, Serving, Throw, ServeThrows, app
  <2> QED BY <2>3, <2>4, <2>5
<1>13. CASE WriteMultipleRegisters
  <2>1. body.kind = "writeRegisters" BY <1>13 DEF WriteMultipleRegisters, Serving
  <2>2. CASE 2 * body.at + 2 * body.n > Bytes["holding"]
    BY <2>1, <2>2, <1>4, <1>6, <1>13
       DEF WriteMultipleRegisters, Serving, Refuse, ServeAnswers, app
  <2>3. CASE ~(2 * body.at + 2 * body.n > Bytes["holding"])
    BY <2>1, <2>3, <1>13 DEF WriteMultipleRegisters, Serving, ServeStores, app
  <2> QED BY <2>2, <2>3
<1>14. CASE Identify
  <2>1. body.kind = "identify" BY <1>14 DEF Identify, Serving
  <2>2. t \notin Tables BY <2>1, ServerAssumption DEF TableOf, TableNames, BitTables
  <2>3. Answered(body) <=> ~IdentifyListener
    BY <2>1, <2>2 DEF Answered, Refused
  <2>4. CASE IdentifyListener
    BY <2>3, <2>4, <1>14 DEF Identify, Serving, ServeHandsOn, app
  <2>5. CASE ~IdentifyListener
    BY <2>3, <2>5, <1>6, <1>14 DEF Identify, Serving, Reply, ServeAnswers, app
  <2> QED BY <2>4, <2>5
<1>15. CASE FillCoils
  BY <1>15 DEF FillCoils, ServeStores, ServeInv, HandlerInvs, StageInv, app
<1>16. CASE Acknowledge
  <2>1. stage = "stored" /\ body.kind # "identify"
    BY <1>16 DEF Acknowledge, ServeInv, HandlerInvs, StageInv
  <2> QED BY <2>1, <1>4, <1>6, <1>16 DEF Acknowledge, Reply, ServeAnswers, app
<1> QED BY <1>9, <1>10, <1>11, <1>12, <1>13, <1>14, <1>15, <1>16 DEF Handler

\* What was settled stays so while nothing happens to its request.
LEMMA SettledStays ==
  ASSUME NEW r \in Ids, received'[r] = received[r], replies'[r] = replies[r], Settled(r),
         r \in threw' <=> r \in threw, r \in hookThrew' <=> r \in hookThrew,
         DealtWith(r)' => DealtWith(r)
  PROVE  Settled(r)'
<1>1. Body(r)' = Body(r) /\ Mine(r)' = Mine(r) BY DEF Body, Mine
<1>2. BreaksOff(Body(r))' = BreaksOff(Body(r)) /\ Answered(Body(r))' = Answered(Body(r))
  BY <1>1 DEF BreaksOff, TooLong, Addressed, Answered, Refused, TableOf
<1> QED BY <1>1, <1>2 DEF Settled

\* A data event: the new requests are unanswered.
LEMMA DataEventServes ==
  ASSUME ServeInv, NEW c \in Conns, NEW k \in Nat \ {0}, NEW bodies \in [1..k -> Requests],
         DataEvent(c, bodies)
  PROVE  HandlerInvs' /\ \A r \in Ids : replies'[r] = replies[r]
<1> DEFINE n == Len(received)
           none == [i \in 1..Len(bodies) |-> <<>>]
<1>1. /\ QueueType /\ Ids = 1..n /\ n \in Nat /\ Ids' = 1..(n + k) /\ Ids \subseteq Ids'
      /\ \A r \in Ids : received'[r] = received[r]
      /\ Len(received') = n + k /\ Range(order) \subseteq Ids
  BY ServeFacts, DataEventAdds
<1>2. /\ running = Idle /\ running' = c /\ stage' = "loop"
      /\ UNCHANGED <<current, given, heard, order, threw, hookThrew>>
  BY <1>1, DataEventAdds DEF app
<1>3. replies' = replies \o none BY DEF DataEvent
<1>4. none \in Seq(Seq(Answers)) /\ Len(none) = k /\ \A i \in 1..k : none[i] = <<>>
  <2>1. none \in [1..k -> Seq(Answers)] /\ \A i \in 1..k : none[i] = <<>> BY EmptySeq
  <2> HIDE DEF none
  <2> QED BY <2>1
<1> HIDE DEF none
<1>5. replies \in Seq(Seq(Answers)) /\ Len(replies) = n BY DEF ServeInv, HandlerInvs, RepliesType
<1>6. /\ replies' \in Seq(Seq(Answers)) /\ Len(replies') = n + k
      /\ \A r \in 1..(n + k) : replies'[r] = IF r <= n THEN replies[r] ELSE none[r - n]
  <2>1. /\ replies' \in Seq(Seq(Answers)) /\ Len(replies') = Len(replies) + Len(none)
        /\ \A r \in 1..(Len(replies) + Len(none)) :
             replies'[r] = IF r <= Len(replies) THEN replies[r] ELSE none[r - Len(replies)]
    BY <1>3, <1>4, <1>5, ConcatProperties
  <2> QED BY <2>1, <1>4, <1>5
<1>7. \A r \in Ids : replies'[r] = replies[r] BY <1>1, <1>6
<1>8. ASSUME NEW r \in Ids' \ Ids PROVE replies'[r] = <<>>
  <2> HIDE DEF n
  <2>1. r \in 1..(n + k) /\ ~(r <= n) /\ n \in Nat BY <1>1
  <2>2. r - n \in 1..k BY <2>1
  <2> QED BY <2>1, <2>2, <1>4, <1>6
<1>9. ControlType'
  <2>1. heard' \in Seq(Ids') BY <1>1, <1>2, SeqMonotonic DEF ServeInv, HandlerInvs, ControlType
  <2> QED BY <2>1, <1>1, <1>2 DEF ServeInv, HandlerInvs, ControlType, Stages
<1>10. StageInv' BY <1>2 DEF StageInv
<1>11. AnswerInv'
  <2>1. ASSUME NEW r \in Ids' \ Range(order) PROVE Unanswered(r)'
    <3>1. CASE r \in Ids
      BY <3>1, <1>2, <1>7 DEF ServeInv, HandlerInvs, AnswerInv, Unanswered
    <3>2. CASE r \notin Ids
      BY <3>2, <1>1, <1>2, <1>8 DEF ServeInv, HandlerInvs, AnswerInv, Unanswered
    <3> QED BY <3>1, <3>2
  <2>3. ASSUME NEW r \in Range(order) PROVE Settled(r)'
    <3>1. r \in Ids /\ Settled(r) BY <1>1 DEF ServeInv, HandlerInvs, AnswerInv
    <3>2. DealtWith(r) BY <1>2 DEF DealtWith
    <3> QED BY <3>1, <3>2, <1>1, <1>2, <1>7, SettledStays
  <2> QED BY <2>1, <2>3, <1>2 DEF ServeInv, HandlerInvs, AnswerInv
<1> QED BY <1>1, <1>6, <1>7, <1>9, <1>10, <1>11 DEF HandlerInvs, RepliesType

\* A shift: the request is for another unit, is refused, is handed on, or
\* begins to be served.
LEMMA TakeServes ==
  ASSUME ServeInv, NEW r \in Ids,
         OtherUnit(r) \/ RefuseIdentify(r) \/ HandToListener(r) \/ Begin(r)
  PROVE  HandlerInvs'
<1>1. Take(r) BY DEF OtherUnit, RefuseIdentify, HandToListener, Begin
<1>2. /\ QueueType /\ Control /\ Range(order) \subseteq Ids
      /\ \A x \in Ids : Len(replies[x]) \in Nat
  BY ServeFacts
<1>3. /\ running \in Conns /\ stage = "loop" /\ r = queue[running][1] /\ 1 \in 1..Len(queue[running])
      /\ queue' \in [Conns -> Seq(Ids)] /\ Range(order') = Range(order) \cup {r}
      /\ UNCHANGED <<received, running, newStatus, threw, hookThrew>> /\ Ids' = Ids
      /\ \A i \in 1..Len(queue'[running]) :
           i + 1 \in 1..Len(queue[running]) /\ queue'[running][i] = queue[running][i + 1]
  BY <1>1, <1>2, TakeShifts DEF Control, Ids
<1>4. received[r].conn = running /\ r \notin Range(order)
      /\ \A j \in 1..Len(queue[running]) : 1 < j => queue[running][j] < r
  BY <1>3 DEF ServeInv, QueueInvs, QueueInv
<1>5. Unanswered(r) BY <1>4 DEF ServeInv, HandlerInvs, AnswerInv
<1>6. \A x \in Ids : Body(x)' = Body(x) /\ Mine(x)' = Mine(x) BY <1>3 DEF Body, Mine
<1>7. ForUs(r) <=> Mine(r) BY DEF ForUs, Mine
<1>8. \A x : DealtWith(x) BY <1>3 DEF DealtWith
<1>9. ASSUME NEW x \in Range(order), replies'[x] = replies[x] PROVE Settled(x)'
  <2>1. x \in Ids /\ Settled(x) BY <1>2 DEF ServeInv, HandlerInvs, AnswerInv
  <2> QED BY <2>1, <1>3, <1>8, <1>9, SettledStays
<1>10. ASSUME \A x \in Ids \ {r} : replies'[x] = replies[x], Settled(r)'
       PROVE  AnswerInv'
  <2>1. \A x \in Ids \ Range(order') : Unanswered(x)'
    BY <1>3, <1>10 DEF ServeInv, HandlerInvs, AnswerInv, Unanswered
  <2>2. \A x \in Range(order) : Settled(x)' BY <1>2, <1>4, <1>9, <1>10
  <2> QED BY <2>1, <2>2, <1>3, <1>10 DEF ServeInv, HandlerInvs, AnswerInv
<1>11. ASSUME given' \subseteq given \cup {r}, current' \in {r, current}, stage' \in {"loop", "pre", "post"}
       PROVE  ControlType'
  <2>1. heard' = heard BY <1>1 DEF Take
  <2> QED BY <2>1, <1>3, <1>11 DEF ServeInv, HandlerInvs, ControlType, Stages
<1>12. \A i \in 1..Len(queue'[running]) : queue'[running][i] < r
  <2> TAKE i \in 1..Len(queue'[running])
  <2>1. PICK j \in 1..Len(queue[running]) : j = i + 1 /\ queue'[running][i] = queue[running][j]
    BY <1>3
  <2>2. 1 < j BY <2>1
  <2> QED BY <2>1, <2>2, <1>4
<1>13. BreaksOff(Body(r))' = BreaksOff(Body(r)) /\ Answered(Body(r))' = Answered(Body(r))
       /\ Begins(Body(r))' = Begins(Body(r))
  BY <1>6 DEF BreaksOff, TooLong, Addressed, Answered, Refused, Begins, TableOf
<1>14. CASE OtherUnit(r)
  <2>1. ~Mine(r) /\ UNCHANGED <<stage, current, given, replies>> BY <1>7, <1>14 DEF OtherUnit
  <2>2. Settled(r)' BY <2>1, <1>3, <1>5, <1>6 DEF Settled, Unanswered
  <2>3. AnswerInv' BY <2>1, <2>2, <1>10
  <2>4. ControlType' BY <2>1, <1>3, <1>11
  <2> QED BY <2>1, <2>3, <2>4, <1>3 DEF ServeInv, HandlerInvs, RepliesType, StageInv
<1>15. CASE RefuseIdentify(r)
  <2>1. PICK a \in {Exception(1), Exception(3)} : Answer(r, a)
    BY <1>15 DEF RefuseIdentify
  <2>2. /\ Refused(Body(r)) /\ Mine(r) /\ current' = r /\ UNCHANGED <<stage, given>>
    BY <1>7, <1>15 DEF RefuseIdentify
  <2>3. a \in Answers BY DEF Answers, Exception
  <2>4. RepliesType' /\ Len(replies'[r]) = Len(replies[r]) + 1
        /\ \A x \in Ids \ {r} : replies'[x] = replies[x]
    BY <2>1, <2>3, <1>3, AnswerAdds
  <2>5. Answered(Body(r)) BY <2>2 DEF Answered
  <2>6. Settled(r)' BY <2>2, <2>4, <2>5, <1>3, <1>5, <1>6, <1>13 DEF Settled, Unanswered
  <2>7. AnswerInv' BY <2>4, <2>6, <1>10
  <2>8. ControlType' BY <2>2, <1>3, <1>11
  <2> QED BY <2>2, <2>4, <2>7, <2>8, <1>3 DEF HandlerInvs, StageInv
<1>16. CASE HandToListener(r)
  <2>1. /\ ~Begins(Body(r)) /\ ~Refused(Body(r)) /\ given' = given \cup {r} /\ stage' = "post"
        /\ current' = r /\ replies' = replies
    BY <1>16 DEF HandToListener
  <2>2. ~Answered(Body(r)) BY <2>1 DEF Begins, Answered
  <2>3. Settled(r)' BY <2>1, <2>2, <1>3, <1>5, <1>13 DEF Settled, Unanswered
  <2>4. AnswerInv' BY <2>1, <2>3, <1>10
  <2>5. ControlType' BY <2>1, <1>11
  <2>6. StageInv' BY <2>1, <1>3, <1>4, <1>12, ApplicationAssumption DEF StageInv
  <2> QED BY <2>1, <2>4, <2>5, <2>6, <1>3 DEF ServeInv, HandlerInvs, RepliesType
<1>17. CASE Begin(r)
  <2>1. /\ Mine(r) /\ Begins(Body(r)) /\ stage' = "pre" /\ current' = r
        /\ given' = given \cup {r} /\ replies' = replies
    BY <1>7, <1>17 DEF Begin
  <2>2. Settled(r)'
    <3>1. ~DealtWith(r)' BY <2>1, <1>3, ApplicationAssumption DEF DealtWith
    <3>2. Len(replies'[r]) = 0 /\ r \notin threw' BY <2>1, <1>3, <1>5 DEF Unanswered
    <3> QED BY <3>1, <3>2 DEF Settled
  <2>3. AnswerInv' BY <2>1, <2>2, <1>10
  <2>4. ControlType' BY <2>1, <1>11
  <2>5. Mine(r)' /\ Unanswered(r)' /\ Begins(Body(r))'
    BY <2>1, <1>3, <1>5, <1>6, <1>13 DEF Unanswered
  <2>6. StageInv'
    BY <2>1, <2>5, <1>3, <1>4, <1>12, ApplicationAssumption DEF StageInv
  <2> QED BY <2>1, <2>3, <2>4, <2>6, <1>3 DEF ServeInv, HandlerInvs, RepliesType
<1> QED BY <1>14, <1>15, <1>16, <1>17

\* The handlers: the request in hand, which the handler has not answered yet, is
\* answered, breaks off, is handed on, or waits for its cells or its answer.
LEMMA HandlerServes ==
  ASSUME ServeInv, TablesType, Handler
  PROVE  HandlerInvs'
<1>1. stage \in {"pre", "mid", "stored"}
  BY DEF Handler, Read, ReadHolding, WriteSingleCoil, WriteSingleRegister,
         WriteMultipleRegisters, Identify, WriteMultipleCoils, FillCoils, Acknowledge, Serving
<1>2. /\ current \in Ids /\ current \in Range(order) /\ Range(order) \subseteq Ids
      /\ \A x \in Ids : Len(replies[x]) \in Nat /\ replies[x] \in Seq(Answers)
  BY <1>1, ServeFacts
<1>3. Mine(current) /\ Unanswered(current) /\ Settled(current)
  BY <1>1, <1>2 DEF ServeInv, HandlerInvs, StageInv, AnswerInv
<1>4. ASSUME UNCHANGED <<received, order, current>>
      PROVE  /\ Ids' = Ids /\ \A x \in Ids : Body(x)' = Body(x) /\ Mine(x)' = Mine(x)
             /\ BreaksOff(Body(current))' = BreaksOff(Body(current))
             /\ Answered(Body(current))' = Answered(Body(current))
             /\ Begins(Body(current))' = Begins(Body(current))
  <2>1. Ids' = Ids /\ \A x \in Ids : Body(x)' = Body(x) /\ Mine(x)' = Mine(x)
    BY <1>4 DEF Ids, Body, Mine
  <2> QED BY <2>1, <1>2, <1>4
          DEF BreaksOff, TooLong, Addressed, Answered, Refused, Begins, TableOf, Body
<1>5. ASSUME UNCHANGED <<received, order>>,
             threw' \subseteq threw \cup {current}, threw \subseteq threw',
             hookThrew' = hookThrew, current' = current,
             \A x \in Ids \ {current} : replies'[x] = replies[x],
             Settled(current)'
      PROVE  AnswerInv'
  <2>1. \A x \in Ids \ Range(order') : Unanswered(x)'
    BY <1>2, <1>4, <1>5 DEF ServeInv, HandlerInvs, AnswerInv, Unanswered
  <2>2. ASSUME NEW x \in Range(order) PROVE Settled(x)'
    <3>1. CASE x = current BY <3>1, <1>5
    <3>2. CASE x # current
      <4>1. DealtWith(x) BY <3>2 DEF DealtWith
      <4> QED BY <4>1, <3>2, <1>2, <1>5, SettledStays DEF ServeInv, HandlerInvs, AnswerInv
    <3> QED BY <3>1, <3>2
  <2> QED BY <2>1, <2>2, <1>2, <1>4, <1>5 DEF ServeInv, HandlerInvs, AnswerInv
<1>6. CASE ServeAnswers
  <2>1. PICK a \in Answers : Answer(current, a) BY <1>6 DEF ServeAnswers
  <2>2. /\ stage' \in {"post", "loop"} /\ Answered(Body(current))
        /\ UNCHANGED <<received, queue, order, running, current, threw, hookThrew, given, heard>>
    BY <1>6 DEF ServeAnswers
  <2>3. /\ RepliesType' /\ Len(replies'[current]) = Len(replies[current]) + 1
        /\ \A x \in Ids \ {current} : replies'[x] = replies[x]
    BY <2>1, <2>2, <1>2, <1>4, AnswerAdds
  <2>4. Settled(current)'
    BY <2>2, <2>3, <1>2, <1>3, <1>4 DEF Settled, Unanswered, ServeInv, HandlerInvs, ControlType
  <2>5. AnswerInv' BY <2>2, <2>3, <2>4, <1>5
  <2>6. StageInv' BY <2>2, <1>1 DEF ServeInv, HandlerInvs, StageInv
  <2> QED BY <2>2, <2>3, <2>5, <2>6, <1>4 DEF ServeInv, HandlerInvs, ControlType, Stages
<1>7. CASE ServeThrows
  <2>1. /\ stage' = "loop" /\ running' = Idle /\ threw' = threw \cup {current}
        /\ BreaksOff(Body(current))
        /\ UNCHANGED <<received, queue, order, current, hookThrew, given, heard, replies>>
    BY <1>7 DEF ServeThrows
  <2>2. replies[current] = <<>> BY <1>2, <1>3, EmptySeq DEF Unanswered
  <2>3. Settled(current)' BY <2>1, <2>2, <1>2, <1>3, <1>4 DEF Settled, Unanswered
  <2>4. AnswerInv' BY <2>1, <2>3, <1>5
  <2>5. StageInv' BY <2>1 DEF StageInv
  <2> QED BY <2>1, <2>4, <2>5, <1>2, <1>4
          DEF ServeInv, HandlerInvs, ControlType, Stages, RepliesType
<1>8. CASE ServeHandsOn
  <2>1. /\ stage' = "post" /\ ~Answered(Body(current))
        /\ UNCHANGED <<received, queue, order, running, current, threw, hookThrew, given, heard,
                       replies>>
    BY <1>8 DEF ServeHandsOn
  <2>2. Settled(current)' BY <2>1, <1>2, <1>3, <1>4 DEF Settled, Unanswered
  <2>3. AnswerInv' BY <2>1, <2>2, <1>5
  <2>4. StageInv' BY <2>1, <1>1 DEF ServeInv, HandlerInvs, StageInv
  <2> QED BY <2>1, <2>3, <2>4, <1>2, <1>4
          DEF ServeInv, HandlerInvs, ControlType, Stages, RepliesType
<1>9. ASSUME stage' \in {"mid", "stored"},
             UNCHANGED <<received, queue, order, running, current, threw, hookThrew, given, heard,
                         replies>>
      PROVE  /\ ControlType' /\ RepliesType' /\ AnswerInv'
             /\ Mine(current)' /\ Unanswered(current)' /\ Begins(Body(current))'
  <2>1. Settled(current)'
    <3>1. DealtWith(current)' => DealtWith(current) BY <1>9 DEF DealtWith
    <3> QED BY <3>1, <1>2, <1>3, <1>9, SettledStays
  <2>2. AnswerInv' BY <2>1, <1>5, <1>9
  <2>3. Mine(current)' /\ Unanswered(current)' /\ Begins(Body(current))'
    BY <1>1, <1>2, <1>3, <1>4, <1>9 DEF ServeInv, HandlerInvs, StageInv, Unanswered
  <2> QED BY <2>2, <2>3, <1>4, <1>9 DEF ServeInv, HandlerInvs, ControlType, Stages, RepliesType
<1>10. CASE ServeStores
  <2>1. /\ stage' = "stored" /\ Body(current).kind \in {"writeCoils", "writeRegisters"}
        /\ UNCHANGED <<received, queue, order, running, current, threw, hookThrew, given, heard,
                       replies>>
    BY <1>10 DEF ServeStores
  <2>2. Body(current)' = Body(current) BY <2>1 DEF Body
  <2>3. StageInv' BY <2>1, <2>2, <1>1, <1>9 DEF ServeInv, HandlerInvs, StageInv
  <2> QED BY <2>1, <2>3, <1>9 DEF HandlerInvs
<1>11. CASE WriteMultipleCoils
  <2>1. /\ running # Idle /\ stage = "pre" /\ stage' = "mid" /\ Body(current).kind = "writeCoils"
        /\ newStatus' = Updated(table["coils"], Body(current))
        /\ UNCHANGED <<received, queue, order, running, current, threw, hookThrew, given, heard,
                       replies>>
    BY <1>11 DEF WriteMultipleCoils, Serving, app
  <2>2. newStatus' \in Contents("coils") /\ Contents("coils") = [Cells("coils") -> BOOLEAN]
    <3>1. Body(current) \in Requests /\ Begins(Body(current))
      BY <1>1, ServeFacts DEF ServeInv, HandlerInvs, StageInv
    <3>2. TableOf(Body(current)) = "coils" /\ "coils" \in Tables
      BY <3>1, <2>1 DEF Begins, TableOf
    <3>3. Body(current).kind \in Writes BY <2>1 DEF Writes
    <3>4. table["coils"] \in Contents("coils") BY <3>2 DEF TablesType
    <3>5. newStatus' \in Contents("coils") BY <3>1, <3>2, <3>3, <3>4, <2>1, UpdateShows
    <3> QED BY <3>5 DEF Contents, Values, BitTables
  <2>3. StageInv'
    <3>1. Cells("coils")' = Cells("coils") /\ Body(current)' = Body(current)
      BY <2>1 DEF Cells, Body
    <3> QED BY <3>1, <2>1, <2>2, <1>1, <1>9 DEF ServeInv, HandlerInvs, StageInv
  <2> QED BY <2>1, <2>3, <1>9 DEF HandlerInvs
<1> QED BY <1>6, <1>7, <1>8, <1>10, <1>11, HandlerShapes

\* Whatever else happens: a listener's answer, a listener that throws, the end
\* of the loop, the application's writes.
LEMMA OthersServe ==
  ASSUME ServeInv,
         \/ \E r \in Ids : ListenerAnswers(r)
         \/ LoopEnds \/ HandleReturns \/ HookThrows
         \/ \E cell \in AppCells : \E v \in Values(cell[1]) : AppWrite(cell[1], cell[2], v)
         \/ UNCHANGED vars
  PROVE  HandlerInvs'
<1>1. /\ Range(order) \subseteq Ids /\ (stage # "loop" => current \in Range(order))
      /\ \A x \in Ids : Len(replies[x]) \in Nat
  BY ServeFacts
<1>2. UNCHANGED <<received, order, queue, current, given, replies>>
  BY DEF ListenerAnswers, LoopEnds, HandleReturns, HookThrows, AppWrite, vars, app
<1>3. Ids' = Ids /\ \A x \in Ids : Body(x)' = Body(x) /\ Mine(x)' = Mine(x)
  BY <1>2 DEF Ids, Body, Mine
<1>4. heard' \in Seq(Ids)
  <2>1. heard \in Seq(Ids) BY DEF ServeInv, HandlerInvs, ControlType
  <2>2. ASSUME NEW r \in Ids, ListenerAnswers(r) PROVE heard' \in Seq(Ids)
    BY <2>1, <2>2, AppendProperties DEF ListenerAnswers
  <2> QED BY <2>1, <2>2 DEF LoopEnds, HandleReturns, HookThrows, AppWrite, vars, app
<1>5. ASSUME \A x \in Range(order) : Settled(x)', threw' \subseteq threw \cup Range(order)
      PROVE  AnswerInv'
  <2>1. CASE threw' = threw
    BY <2>1, <1>1, <1>2, <1>3, <1>5 DEF ServeInv, HandlerInvs, AnswerInv, Unanswered
  <2> QED BY <1>1, <1>2, <1>3, <1>5 DEF ServeInv, HandlerInvs, AnswerInv, Unanswered
<1>6. CASE HookThrows
  <2>1. /\ stage # "loop" /\ stage' = "loop" /\ running' = Idle
        /\ threw' = threw \cup {current} /\ hookThrew' = hookThrew \cup {current}
    BY <1>6 DEF HookThrows
  <2>2. ASSUME NEW x \in Range(order) PROVE Settled(x)'
    <3>1. CASE x = current
      <4>1. x \in Ids /\ Settled(x) BY <1>1 DEF ServeInv, HandlerInvs, AnswerInv
      <4>2. x \in threw' /\ x \in hookThrew' BY <3>1, <2>1
      <4>3. Answered(Body(x))' = Answered(Body(x)) /\ Mine(x)' = Mine(x)
        BY <4>1, <1>3 DEF Answered, Refused, TableOf
      <4> QED BY <4>1, <4>2, <4>3, <1>2 DEF Settled
    <3>2. CASE x # current
      <4>1. DealtWith(x) BY <3>2 DEF DealtWith
      <4> QED BY <4>1, <3>2, <2>1, <1>1, <1>2, SettledStays
              DEF ServeInv, HandlerInvs, AnswerInv
    <3> QED BY <3>1, <3>2
  <2>3. AnswerInv' BY <2>1, <2>2, <1>1, <1>5
  <2>4. StageInv' BY <2>1 DEF StageInv
  <2> QED BY <2>1, <2>3, <2>4, <1>1, <1>2, <1>3, <1>4
          DEF ServeInv, HandlerInvs, ControlType, Stages, RepliesType
<1>7. CASE \/ LoopEnds \/ HandleReturns \/ UNCHANGED vars
           \/ \E r \in Ids : ListenerAnswers(r)
           \/ \E cell \in AppCells : \E v \in Values(cell[1]) : AppWrite(cell[1], cell[2], v)
  <2>1. /\ UNCHANGED <<threw, hookThrew, newStatus>>
        /\ \/ stage' = stage /\ running' = running
           \/ stage' = "loop" /\ stage \in {"loop", "post"} /\ running' \in {Idle, running}
    BY <1>7 DEF LoopEnds, HandleReturns, ListenerAnswers, AppWrite, vars
  <2>2. ASSUME NEW x \in Range(order) PROVE Settled(x)'
    <3>1. DealtWith(x)' => DealtWith(x) BY <2>1, <1>2 DEF DealtWith
    <3> QED BY <3>1, <2>1, <1>1, <1>2, SettledStays DEF ServeInv, HandlerInvs, AnswerInv
  <2>3. AnswerInv' BY <2>1, <2>2, <1>5
  <2>4. StageInv'
    <3>1. CASE stage' = "loop" BY <3>1 DEF StageInv
    <3>2. CASE stage' = stage /\ running' = running
      BY <3>2, <2>1, <1>2
         DEF ServeInv, HandlerInvs, StageInv, Unanswered, Mine, Body, Begins, TableOf, Cells
    <3> QED BY <3>1, <3>2, <2>1
  <2> QED BY <2>1, <2>3, <2>4, <1>1, <1>2, <1>3, <1>4
          DEF ServeInv, HandlerInvs, ControlType, Stages, RepliesType
<1> QED BY <1>6, <1>7

\* The invariant of the loop and its handlers is kept by every step.
LEMMA ServeStep ==
  ASSUME ServeInv, TablesType, [Next]_vars
  PROVE  ServeInv' /\ (OutOfOrderHasCause => OutOfOrderHasCause')
<1>1. QueueInvs /\ Control BY ServeFacts DEF ServeInv
<1>2. QueueInvs' /\ (OutOfOrderHasCause => OutOfOrderHasCause')
  <2>1. ASSUME NEW c \in Conns, NEW k \in Nat \ {0}, NEW bodies \in [1..k -> Requests],
               DataEvent(c, bodies)
        PROVE  QueueInvs' /\ (OutOfOrderHasCause => OutOfOrderHasCause')
    <3>1. QueueInvs' BY <1>1, <2>1, DataEventKeepsQueues
    <3>2. ASSUME OutOfOrderHasCause PROVE OutOfOrderHasCause'
      <4>1. QueueType BY ServeFacts
      <4>2. /\ order' = order /\ threw' = threw
            /\ \A x \in Ids : received'[x] = received[x]
        BY <2>1, <4>1, DataEventAdds
      <4>3. DOMAIN order = 1..Len(order) /\ \A p \in 1..Len(order) : order[p] \in Ids
        BY <4>1, IdsAre, LenProperties, RangeEquality DEF QueueType
      <4>4. threw \subseteq Ids BY <1>1 DEF Control
      <4> QED BY <4>2, <4>3, <4>4, <3>2 DEF OutOfOrderHasCause
    <3> QED BY <3>1, <3>2
  <2>2. ASSUME NEW r \in Ids, Take(r)
        PROVE  QueueInvs' /\ (OutOfOrderHasCause => OutOfOrderHasCause')
    BY <1>1, <2>2, TakeKeepsQueues
  <2>3. CASE QuietStep
    <3>1. QueueInvs' BY <1>1, <2>3, QuietKeepsQueues
    <3>2. received' = received /\ order' = order /\ threw \subseteq threw' BY <2>3 DEF QuietStep
    <3> QED BY <3>1, <3>2 DEF OutOfOrderHasCause
  <2> QED BY <2>1, <2>2, <2>3, StepShapes
<1>3. HandlerInvs'
  <2>1. ASSUME NEW c \in Conns, NEW k \in 1..MaxChunk, NEW bodies \in [1..k -> Requests],
               DataEvent(c, bodies)
        PROVE  HandlerInvs'
    <3>1. k \in Nat \ {0} BY BoundAssumption
    <3> QED BY <2>1, <3>1, DataEventServes
  <2> QED BY <2>1, TakeServes, HandlerServes, OthersServe DEF Next
<1> QED BY <1>2, <1>3 DEF ServeInv

-----------------------------------------------------------------------------
(* The tables and their updates.                                             *)
MemoryInv == TablesType /\ UpdatesType /\ LatestInv /\ LostUpdateHasCause /\ StatusInv
UpdateRecords == [req: Nat] \cup [req: {0}, table: Tables, at: Int, val: BOOLEAN \cup Words]

\* The largest of a set of numbers.
LEMMA MaxIs ==
  ASSUME NEW S \in SUBSET Int, NEW i \in S, \A j \in S : j <= i
  PROVE  Max(S) = i
<1>1. \A y \in S : i >= y OBVIOUS
<1>2. Max(S) \in S /\ \A y \in S : Max(S) >= y BY <1>1, Zenon DEF Max
<1>3. Max(S) \in Int /\ i \in Int /\ Max(S) >= i /\ Max(S) <= i BY <1>2
<1> QED BY <1>3

\* What an update by request r covers, and what it says.
LEMMA WriteSays ==
  ASSUME QueueType, NEW r \in Ids, Body(r).kind \in Writes, NEW u, u.req = r
  PROVE  /\ \A t, a : Covers(u, t, a) <=> TableOf(Body(r)) = t /\ a \in Addressed(Body(r))
         /\ \A a \in Addressed(Body(r)) :
              /\ Says(u, a) = Written(Body(r))[a - Body(r).at + 1]
              /\ Says(u, a) \in Values(TableOf(Body(r)))
<1> DEFINE body == Body(r)
<1>1. r # 0 /\ body \in Requests
  <2>1. r \in 1..Len(received) /\ Len(received) \in Nat /\ received[r] \in Entry BY IdsAre
  <2> QED BY <2>1 DEF Body, Entry
<1>2. \A t, a : Covers(u, t, a) <=> TableOf(body) = t /\ a \in Addressed(body)
  BY <1>1 DEF Covers
<1>3. ASSUME NEW a \in Addressed(body)
      PROVE  /\ Says(u, a) = Written(body)[a - body.at + 1]
             /\ Says(u, a) \in Values(TableOf(body))
  <2>1. Written(body)[a - body.at + 1] \in Values(TableOf(body)) BY <1>1, WrittenValues
  <2>2. CASE body.kind = "writeCoil"
    <3>1. body.n = 1 /\ body.at \in Nat BY <1>1, <2>2, ServerAssumption
    <3>2. a - body.at + 1 = 1 BY <3>1 DEF Addressed
    <3>3. Says(u, a) = (body.vals[1] = "FF00") BY <1>1, <2>2 DEF Says
    <3>4. Written(body) = <<body.vals[1] = "FF00">> BY <2>2 DEF Written, ParsedCoil
    <3>5. Says(u, a) = Written(body)[a - body.at + 1] BY <3>2, <3>3, <3>4
    <3> QED BY <3>5, <2>1
  <2>3. CASE body.kind # "writeCoil"
    BY <2>1, <2>3, <1>1 DEF Says, Written
  <2> QED BY <2>2, <2>3
<1> QED BY <1>2, <1>3

\* What an update says is a value of the table it covers.
LEMMA SaysValue ==
  ASSUME QueueType, UpdatesType, NEW t \in Tables, NEW a \in Cells(t), NEW i \in Covering(t, a)
  PROVE  Says(updates[i], a) \in Values(t)
<1> DEFINE u == updates[i]
<1>1. Update(u) /\ Covers(u, t, a) BY DEF UpdatesType, Covering
<1>2. CASE u.req = 0
  <2>1. u.req \notin Ids
    <3>1. Ids = 1..Len(received) BY IdsAre
    <3> QED BY <3>1, <1>2
  <2>2. u.table = t /\ u.val \in Values(u.table) BY <2>1, <1>1, <1>2 DEF Update, Covers
  <2> QED BY <2>2, <1>2 DEF Says
<1>3. CASE u.req # 0
  <2>1. u.req \in Ids /\ Body(u.req).kind \in Writes BY <1>1, <1>3 DEF Update
  <2> QED BY <2>1, <1>1, WriteSays
<1> QED BY <1>2, <1>3

\* The last update of a cell that has one.
LEMMA LatestIs ==
  ASSUME UpdatesType, LatestInv, NEW t \in Tables, NEW a \in Cells(t), Covering(t, a) # {}
  PROVE  Max(Covering(t, a)) \in Covering(t, a) /\ Max(Covering(t, a)) \in DOMAIN updates
<1>1. Covering(t, a) \subseteq DOMAIN updates BY DEF Covering
<1>2. DOMAIN updates = 1..Len(updates) BY LenProperties DEF UpdatesType
<1>3. Covering(t, a) \in SUBSET Int BY <1>1, <1>2
<1>4. PICK i \in Covering(t, a) : \A j \in Covering(t, a) : j <= i BY DEF LatestInv
<1>5. Max(Covering(t, a)) = i BY <1>3, <1>4, MaxIs
<1> QED BY <1>1, <1>5

LEMMA MeantIs ==
  ASSUME UpdatesType
  PROVE  \A t, a : Meant(t, a) = IF Covering(t, a) = {} THEN BlankTable(t)[a]
                                 ELSE Says(updates[Max(Covering(t, a))], a)
BY DEF Meant, Covering

LEMMA BlankIs == \A t \in Tables : BlankTable(t) \in Contents(t)
<1>1. (CHOOSE w \in Words : TRUE) \in Words BY ApplicationAssumption
<1> QED BY <1>1 DEF BlankTable, Contents, Values

\* What a table is meant to hold are values of its cells.
LEMMA MeantValues ==
  ASSUME QueueType, UpdatesType, LatestInv, NEW t \in Tables
  PROVE  MeantTable(t) \in Contents(t) /\ \A a \in Cells(t) : MeantTable(t)[a] = Meant(t, a)
<1>1. ASSUME NEW a \in Cells(t) PROVE Meant(t, a) \in Values(t)
  <2>1. CASE Covering(t, a) = {}
    <3>1. Meant(t, a) = BlankTable(t)[a] BY <2>1, MeantIs
    <3> QED BY <3>1, BlankIs DEF Contents
  <2>2. CASE Covering(t, a) # {}
    <3>1. Meant(t, a) = Says(updates[Max(Covering(t, a))], a) BY <2>2, MeantIs
    <3> QED BY <3>1, <2>2, LatestIs, SaysValue
  <2> QED BY <2>1, <2>2
<1> QED BY <1>1 DEF MeantTable, Contents

\* It stays while no update is made.
LEMMA MeantStays ==
  ASSUME QueueType, UpdatesType, LatestInv, updates' = updates, Ids \subseteq Ids',
         \A r \in Ids : received'[r] = received[r]
  PROVE  UpdatesType' /\ LatestInv' /\ \A t \in Tables : MeantTable(t)' = MeantTable(t)
<1>1. \A i \in DOMAIN updates : updates[i].req \in Ids \cup {0}
  BY DEF UpdatesType, Update
<1>2. \A r \in Ids : Body(r)' = Body(r) BY DEF Body
<1>3. \A i \in DOMAIN updates : \A t, a : Covers(updates[i], t, a)' = Covers(updates[i], t, a)
  BY <1>1, <1>2 DEF Covers, TableOf, Addressed
<1>4. \A i \in DOMAIN updates : \A a : Says(updates[i], a)' = Says(updates[i], a)
  BY <1>1, <1>2 DEF Says
<1>5. \A t, a : Covering(t, a)' = Covering(t, a) BY <1>3 DEF Covering
<1>6. UpdatesType'
  BY <1>1, <1>2 DEF UpdatesType, Update, Cells, Values
<1>7. LatestInv' BY <1>5 DEF LatestInv, Cells
<1>8. ASSUME NEW t \in Tables, NEW a \in Cells(t) PROVE Meant(t, a)' = Meant(t, a)
  <2> DEFINE last == Max(Covering(t, a))
  <2>1. Meant(t, a)' = IF Covering(t, a)' = {} THEN BlankTable(t)[a]
                       ELSE Says(updates[Max(Covering(t, a))], a)'
    BY DEF Meant, Covering, BlankTable, Cells
  <2>2. CASE Covering(t, a) = {} BY <2>1, <2>2, <1>5, MeantIs
  <2>3. CASE Covering(t, a) # {}
    <3>1. last \in DOMAIN updates BY <2>3, LatestIs
    <3>2. Says(updates[Max(Covering(t, a))], a)' = Says(updates[last], a)
      BY <3>1, <1>1, <1>2, <1>5 DEF Says
    <3> QED BY <2>1, <2>3, <3>2, <1>5, MeantIs
  <2> QED BY <2>2, <2>3
<1>9. \A t \in Tables : MeantTable(t)' = MeantTable(t) BY <1>8 DEF MeantTable, Cells
<1> QED BY <1>6, <1>7, <1>9

\* An update adds what it says, for the cells it covers.
LEMMA MeantAdds ==
  ASSUME QueueType, UpdatesType, LatestInv, received' = received,
         NEW u \in UpdateRecords, Update(u), updates' = Append(updates, u)
  PROVE  /\ UpdatesType' /\ LatestInv'
         /\ \A t \in Tables : \A a \in Cells(t) :
              MeantTable(t)'[a] = IF Covers(u, t, a) THEN Says(u, a) ELSE MeantTable(t)[a]
         /\ \A r : Storing(r)' = IF u.req = r THEN Storing(r) \cup {Len(updates) + 1} ELSE Storing(r)
<1> DEFINE n == Len(updates)
<1>1. updates \in Seq(UpdateRecords) /\ n \in Nat /\ DOMAIN updates = 1..n
  BY LenProperties DEF UpdatesType, UpdateRecords
<1>2. /\ updates' \in Seq(UpdateRecords) /\ Len(updates') = n + 1 /\ updates'[n + 1] = u
      /\ \A i \in 1..n : updates'[i] = updates[i]
  BY <1>1, AppendProperties
<1>3. DOMAIN updates' = 1..(n + 1) BY <1>2, LenProperties
<1> HIDE DEF n
<1>4. Ids' = Ids /\ \A r : Body(r)' = Body(r) BY DEF Ids, Body
<1>5. \A i \in 1..(n + 1) : i \in 1..n \/ i = n + 1 BY <1>1
<1>6. n + 1 \in 1..(n + 1) /\ n + 1 \notin 1..n /\ 1..n \subseteq 1..(n + 1) BY <1>1
<1>7. UpdatesType'
  <2>1. ASSUME NEW i \in 1..(n + 1) PROVE Update(updates[i])'
    <3>1. CASE i \in 1..n
      <4>1. Update(updates[i]) BY <3>1, <1>1 DEF UpdatesType
      <4> QED BY <4>1, <3>1, <1>2, <1>4 DEF Update, Cells, Values
    <3>2. CASE i = n + 1 BY <3>2, <1>2, <1>4 DEF Update, Cells, Values
    <3> QED BY <3>1, <3>2, <1>5
  <2> QED BY <2>1, <1>2, <1>3 DEF UpdatesType, UpdateRecords
<1>8. \A i \in 1..n : \A t, a : Covers(updates[i], t, a)' <=> Covers(updates[i], t, a)
  BY <1>2, <1>4 DEF Covers, TableOf, Addressed
<1>9. PICK m \in Nat : m = n + 1 BY <1>1
<1>10. ASSUME NEW t, NEW a
       PROVE  Covering(t, a)' = IF Covers(u, t, a) THEN Covering(t, a) \cup {n + 1}
                                ELSE Covering(t, a)
  <2>1. Covering(t, a)' = {i \in 1..(n + 1) : Covers(updates[i], t, a)'}
    BY <1>3 DEF Covering
  <2>2. Covering(t, a) = {i \in 1..n : Covers(updates[i], t, a)} BY <1>1 DEF Covering
  <2>3. updates'[m] = u BY <1>2, <1>9
  <2>4. Covers(updates[m], t, a)' <=> Covers(u, t, a)
    BY <2>3, <1>4 DEF Covers, TableOf, Addressed
  <2>5. ASSUME NEW i \in 1..(n + 1)
        PROVE  Covers(updates[i], t, a)'
                 <=> (i \in 1..n /\ Covers(updates[i], t, a)) \/ (i = m /\ Covers(u, t, a))
    <3>1. CASE i \in 1..n BY <3>1, <1>6, <1>8, <1>9
    <3>2. CASE i = m BY <3>2, <2>4, <1>6, <1>9
    <3> QED BY <3>1, <3>2, <1>5, <1>9
  <2>6. CASE Covers(u, t, a)
    <3>1. Covering(t, a)' = Covering(t, a) \cup {m} BY <2>1, <2>2, <2>5, <2>6, <1>6, <1>9
    <3> QED BY <3>1, <2>6, <1>9
  <2>7. CASE ~Covers(u, t, a)
    <3>1. Covering(t, a)' = Covering(t, a) BY <2>1, <2>2, <2>5, <2>7, <1>6
    <3> QED BY <3>1, <2>7
  <2> QED BY <2>6, <2>7
<1>11. \A t, a : Covering(t, a) \subseteq 1..n BY <1>1 DEF Covering
<1>12. LatestInv'
  <2>1. SUFFICES ASSUME NEW t \in Tables, NEW a \in Cells(t), Covering(t, a)' # {}
                 PROVE  \E i \in Covering(t, a)' : \A j \in Covering(t, a)' : j <= i
    BY DEF LatestInv, Cells
  <2>2. CASE Covers(u, t, a)
    <3>1. \A j \in Covering(t, a) \cup {n + 1} : j <= n + 1 BY <1>1, <1>11
    <3> QED BY <3>1, <2>2, <1>10
  <2>3. CASE ~Covers(u, t, a) BY <2>1, <2>3, <1>10 DEF LatestInv
  <2> QED BY <2>2, <2>3
<1>13. ASSUME NEW t \in Tables, NEW a \in Cells(t)
       PROVE  Meant(t, a)' = IF Covers(u, t, a) THEN Says(u, a) ELSE Meant(t, a)
  <2>1. Meant(t, a)' = IF Covering(t, a)' = {} THEN BlankTable(t)[a]
                       ELSE Says(updates[Max(Covering(t, a))], a)'
    BY DEF Meant, Covering, BlankTable, Cells
  <2>2. CASE Covers(u, t, a)
    <3>1. Covering(t, a)' = Covering(t, a) \cup {n + 1} BY <2>2, <1>10
    <3>2. Max(Covering(t, a) \cup {n + 1}) = n + 1
      <4>1. \A j \in Covering(t, a) \cup {n + 1} : j \in Int /\ j <= n + 1 BY <1>1, <1>11
      <4> QED BY <4>1, MaxIs
    <3>3. Says(updates[Max(Covering(t, a))], a)' = Says(u, a)
      BY <3>1, <3>2, <1>2, <1>4 DEF Says
    <3> QED BY <3>1, <3>3, <2>1, <2>2
  <2>3. CASE ~Covers(u, t, a)
    <3>1. Covering(t, a)' = Covering(t, a) BY <2>3, <1>10
    <3>2. CASE Covering(t, a) = {} BY <3>1, <3>2, <2>1, <2>3, MeantIs
    <3>3. CASE Covering(t, a) # {}
      <4>1. Max(Covering(t, a)) \in 1..n BY <3>3, <1>1, LatestIs
      <4>2. Says(updates[Max(Covering(t, a))], a)' = Says(updates[Max(Covering(t, a))], a)
        BY <4>1, <3>1, <1>2, <1>4 DEF Says
      <4> QED BY <4>2, <3>1, <3>3, <2>1, <2>3, MeantIs
    <3> QED BY <3>2, <3>3
  <2> QED BY <2>2, <2>3
<1>14. \A t \in Tables : \A a \in Cells(t) :
          MeantTable(t)'[a] = IF Covers(u, t, a) THEN Says(u, a) ELSE MeantTable(t)[a]
  BY <1>13 DEF MeantTable, Cells
<1>15. ASSUME NEW r
       PROVE  Storing(r)' = IF u.req = r THEN Storing(r) \cup {n + 1} ELSE Storing(r)
  <2>1. Storing(r)' = {i \in 1..(n + 1) : updates'[i].req = r} BY <1>3 DEF Storing
  <2>2. Storing(r) = {i \in 1..n : updates[i].req = r} BY <1>1 DEF Storing
  <2> QED BY <2>1, <2>2, <1>2, <1>5, <1>6
<1> QED BY <1>7, <1>12, <1>14, <1>15 DEF n

\* An update by the request in hand: its table is meant to hold what the write
\* makes of it.
LEMMA RequestAdds ==
  ASSUME ServeInv, MemoryInv, NEW t \in Tables, TableOf(Body(current)) = t, stage # "loop",
         Body(current).kind \in Writes, received' = received, current' = current,
         updates' = Append(updates, ByRequest(current))
  PROVE  /\ UpdatesType' /\ LatestInv'
         /\ MeantTable(t)' = Updated(MeantTable(t), Body(current))
         /\ \A x \in Tables \ {t} : MeantTable(x)' = MeantTable(x)
         /\ \A r : Storing(r)' = IF r = current THEN Storing(r) \cup {Len(updates) + 1}
                                                ELSE Storing(r)
<1> DEFINE body == Body(current)
<1>1. QueueType /\ UpdatesType /\ LatestInv /\ current \in Ids /\ body \in Requests /\ Ids \subseteq Nat
  BY ServeFacts DEF MemoryInv
<1>2. PICK u \in UpdateRecords : u = ByRequest(current)
  BY <1>1 DEF UpdateRecords, ByRequest
<1>3. u.req = current BY <1>2 DEF ByRequest
<1>4. Update(u) BY <1>1, <1>3 DEF Update
<1>5. /\ UpdatesType' /\ LatestInv'
      /\ \A x \in Tables : \A a \in Cells(x) :
           MeantTable(x)'[a] = IF Covers(u, x, a) THEN Says(u, a) ELSE MeantTable(x)[a]
      /\ \A r : Storing(r)' = IF u.req = r THEN Storing(r) \cup {Len(updates) + 1} ELSE Storing(r)
  BY <1>1, <1>2, <1>4, MeantAdds
<1>6. /\ \A x, a : Covers(u, x, a) <=> t = x /\ a \in Addressed(body)
      /\ \A a \in Addressed(body) : Says(u, a) = Written(body)[a - body.at + 1]
  BY <1>1, <1>3, WriteSays
<1>7. \A x \in Tables : MeantTable(x) \in Contents(x) BY <1>1, MeantValues
<1>8. \A x \in Tables : MeantTable(x)' = [a \in Cells(x) |-> MeantTable(x)'[a]]
  BY DEF MeantTable, Cells
<1>9. MeantTable(t)' = Updated(MeantTable(t), body)
  <2>1. /\ Updated(MeantTable(t), body) \in Contents(t)
        /\ \A a \in Cells(t) :
             Updated(MeantTable(t), body)[a] = IF a \in Addressed(body)
                                               THEN Written(body)[a - body.at + 1]
                                               ELSE MeantTable(t)[a]
    BY <1>1, <1>7, UpdateShows
  <2>2. \A a \in Cells(t) : MeantTable(t)'[a] = Updated(MeantTable(t), body)[a]
    BY <2>1, <1>5, <1>6
  <2> QED BY <2>1, <2>2, <1>8 DEF Contents
<1>10. ASSUME NEW x \in Tables \ {t} PROVE MeantTable(x)' = MeantTable(x)
  <2>1. \A a \in Cells(x) : MeantTable(x)'[a] = MeantTable(x)[a] BY <1>5, <1>6
  <2> QED BY <2>1, <1>7, <1>8 DEF Contents
<1>11. \A r : Storing(r)' = IF r = current THEN Storing(r) \cup {Len(updates) + 1}
                                           ELSE Storing(r)
  BY <1>3, <1>5
<1> QED BY <1>5, <1>9, <1>10, <1>11

\* An update by the application: one cell is meant to hold its value.
LEMMA ApplicationAdds ==
  ASSUME ServeInv, MemoryInv, NEW t \in Tables, NEW b \in Cells(t), NEW v \in Values(t),
         received' = received, updates' = Append(updates, ByApplication(t, b, v))
  PROVE  /\ UpdatesType' /\ LatestInv'
         /\ MeantTable(t)' = [MeantTable(t) EXCEPT ![b] = v]
         /\ \A x \in Tables \ {t} : MeantTable(x)' = MeantTable(x)
         /\ \A r \in Ids : Storing(r)' = Storing(r)
<1>1. QueueType /\ UpdatesType /\ LatestInv /\ Ids = 1..Len(received)
  BY ServeFacts DEF MemoryInv
<1>2. PICK u : u = ByApplication(t, b, v) OBVIOUS
<1>3. /\ u.req = 0 /\ u.table = t /\ u.at = b /\ u.val = v
      /\ u = [req |-> 0, table |-> t, at |-> b, val |-> v]
  BY <1>2 DEF ByApplication
<1>4. b \in Int
  <2>1. PICK size \in Nat : Cells(t) = 0 .. size - 1 BY CellsAre
  <2> QED BY <2>1
<1>5. v \in BOOLEAN \cup Words BY DEF Values
<1>6. u \in UpdateRecords BY <1>3, <1>4, <1>5 DEF UpdateRecords
<1>7. Update(u) BY <1>3 DEF Update
<1>8. /\ UpdatesType' /\ LatestInv'
      /\ \A x \in Tables : \A a \in Cells(x) :
           MeantTable(x)'[a] = IF Covers(u, x, a) THEN Says(u, a) ELSE MeantTable(x)[a]
      /\ \A r : Storing(r)' = IF u.req = r THEN Storing(r) \cup {Len(updates) + 1} ELSE Storing(r)
  BY <1>1, <1>2, <1>6, <1>7, MeantAdds
<1>9. \A x, a : /\ Covers(u, x, a) <=> t = x /\ b = a
                /\ Says(u, a) = v
  BY <1>3 DEF Covers, Says
<1>10. \A x \in Tables : MeantTable(x) \in Contents(x) BY <1>1, MeantValues
<1>11. \A x \in Tables : MeantTable(x)' = [a \in Cells(x) |-> MeantTable(x)'[a]]
  BY DEF MeantTable, Cells
<1>12. MeantTable(t)' = [MeantTable(t) EXCEPT ![b] = v]
  <2>1. \A a \in Cells(t) : MeantTable(t)'[a] = [MeantTable(t) EXCEPT ![b] = v][a]
    BY <1>8, <1>9, <1>10 DEF Contents
  <2>2. [MeantTable(t) EXCEPT ![b] = v] \in Contents(t) BY <1>10 DEF Contents
  <2> QED BY <2>1, <2>2, <1>11 DEF Contents
<1>13. ASSUME NEW x \in Tables \ {t} PROVE MeantTable(x)' = MeantTable(x)
  <2>1. \A a \in Cells(x) : MeantTable(x)'[a] = MeantTable(x)[a] BY <1>8, <1>9
  <2> QED BY <2>1, <1>10, <1>11 DEF Contents
<1>14. \A r \in Ids : Storing(r)' = Storing(r) BY <1>1, <1>3, <1>8
<1> QED BY <1>8, <1>12, <1>13, <1>14

\* What a cell of a table is meant to hold, and what it holds.
LEMMA KeptIs ==
  LostUpdateHasCause <=>
    \A t \in Tables : \A a \in Cells(t) :
      table[t][a] # MeantTable(t)[a] => t = "coils" /\ a \in clobbered
BY DEF LostUpdateHasCause, MeantTable

\* A write into table t is made in the tables and in what is meant alike.
LEMMA StoreKeepsMemory ==
  ASSUME ServeInv, MemoryInv, NEW t \in Tables, Store(t), stage = "pre", stage' # "mid",
         Body(current).kind \in Writes, TableOf(Body(current)) = t, newStatus' = newStatus,
         received' = received, current' = current
  PROVE  MemoryInv'
<1> DEFINE body == Body(current)
<1>1. body \in Requests BY ServeFacts
<1>2. /\ table[t] \in Contents(t) /\ MeantTable(t) \in Contents(t) /\ DOMAIN table = Tables
  BY ServeFacts, MeantValues DEF MemoryInv, TablesType
<1>3. /\ table' = [table EXCEPT ![t] = Updated(table[t], body)]
      /\ updates' = Append(updates, ByRequest(current)) /\ clobbered' = clobbered
  BY DEF Store, Fill
<1>4. /\ UpdatesType' /\ LatestInv' /\ MeantTable(t)' = Updated(MeantTable(t), body)
      /\ \A x \in Tables \ {t} : MeantTable(x)' = MeantTable(x)
  BY <1>3, RequestAdds
<1>5. Updated(table[t], body) \in Contents(t)
      /\ \A a \in Cells(t) : Updated(table[t], body)[a] # Updated(MeantTable(t), body)[a]
                               => table[t][a] # MeantTable(t)[a]
  BY <1>1, <1>2, UpdateShows
<1>6. TablesType'
  BY <1>2, <1>3, <1>5 DEF MemoryInv, TablesType, Contents, Cells, Values
<1>7. ASSUME NEW x \in Tables, NEW a \in Cells(x), table'[x][a] # MeantTable(x)'[a]
      PROVE  x = "coils" /\ a \in clobbered
  <2>1. table[x][a] # MeantTable(x)[a]
    <3>1. CASE x = t BY <3>1, <1>2, <1>3, <1>4, <1>5, <1>7
    <3>2. CASE x # t BY <3>2, <1>2, <1>3, <1>4, <1>7
    <3> QED BY <3>1, <3>2
  <2> QED BY <2>1, KeptIs DEF MemoryInv
<1>8. LostUpdateHasCause' BY <1>3, <1>7 DEF LostUpdateHasCause, MeantTable, Cells
<1>9. StatusInv' BY DEF StatusInv
<1> QED BY <1>4, <1>6, <1>8, <1>9 DEF MemoryInv

\* A step that touches no table.
LEMMA MemoryStays ==
  ASSUME ServeInv, MemoryInv, UNCHANGED memory, Ids \subseteq Ids',
         \A r \in Ids : received'[r] = received[r],
         \/ stage' # "mid" /\ newStatus' \in {newStatus, <<>>}
         \/ stage = "mid" /\ UNCHANGED <<newStatus, current>>
  PROVE  MemoryInv'
<1>1. UNCHANGED <<table, updates, clobbered>> BY DEF memory
<1>2. QueueType /\ UpdatesType /\ LatestInv BY ServeFacts DEF MemoryInv
<1>3. UpdatesType' /\ LatestInv' /\ \A t \in Tables : MeantTable(t)' = MeantTable(t)
  BY <1>1, <1>2, MeantStays
<1>4. TablesType' BY <1>1 DEF MemoryInv, TablesType, Contents, Cells, Values
<1>5. \A t \in Tables : \A a \in Cells(t) :
        table'[t][a] # MeantTable(t)'[a] => t = "coils" /\ a \in clobbered'
  BY <1>1, <1>3, KeptIs DEF MemoryInv
<1>6. LostUpdateHasCause' BY <1>5 DEF LostUpdateHasCause, MeantTable, Cells
<1>7. StatusInv'
  <2>1. CASE stage' # "mid" BY <2>1 DEF StatusInv
  <2>2. CASE stage = "mid" /\ UNCHANGED <<newStatus, current>>
    <3>1. current \in Ids /\ "coils" \in Tables
      BY <2>2, ServeFacts DEF ServeInv, HandlerInvs, StageInv, Begins, TableOf
    <3>2. Body(current)' = Body(current) BY <3>1, <2>2 DEF Body
    <3>3. MeantTable("coils")' = MeantTable("coils") BY <3>1, <1>3
    <3>4. Updated(MeantTable("coils"), Body(current))' = Updated(MeantTable("coils"), Body(current))
      BY <3>2, <3>3 DEF Updated, Addressed, Written, ParsedCoil
    <3> QED BY <3>4, <2>2, <1>1 DEF MemoryInv, StatusInv, Cells
  <2> QED BY <2>1, <2>2
<1> QED BY <1>3, <1>4, <1>6, <1>7 DEF MemoryInv

\* The two steps of a write of several coils.
LEMMA CoilsKeepMemory ==
  ASSUME ServeInv, MemoryInv, WriteMultipleCoils \/ FillCoils
  PROVE  MemoryInv'
<1> DEFINE body == Body(current)
           meant == MeantTable("coils")
<1>1. stage \in {"pre", "mid"} /\ UNCHANGED <<received, current>> /\ Ids' = Ids
  BY DEF WriteMultipleCoils, FillCoils, Serving, Ids
<1>2. current \in Ids /\ body \in Requests /\ Begins(body) /\ body.kind = "writeCoils"
  BY <1>1, ServeFacts
     DEF WriteMultipleCoils, FillCoils, Serving, ServeInv, HandlerInvs, StageInv
<1>3. TableOf(body) = "coils" /\ "coils" \in Tables /\ body.kind \in Writes
  BY <1>2 DEF Begins, TableOf, Writes
<1>4. QueueType /\ UpdatesType /\ LatestInv BY ServeFacts DEF MemoryInv
<1>5. table["coils"] \in Contents("coils") /\ meant \in Contents("coils") /\ DOMAIN table = Tables
  BY <1>3, <1>4, MeantValues DEF MemoryInv, TablesType
<1>6. Contents("coils") = [Cells("coils") -> BOOLEAN] BY DEF Contents, Values, BitTables
<1>7. Body(current)' = body BY <1>1 DEF Body
<1>8. CASE WriteMultipleCoils
  <2>1. UNCHANGED <<table, updates, clobbered>> /\ newStatus' = Updated(table["coils"], body)
    BY <1>8 DEF WriteMultipleCoils, memory
  <2>2. UpdatesType' /\ LatestInv' /\ \A t \in Tables : MeantTable(t)' = MeantTable(t)
    BY <2>1, <1>1, <1>4, MeantStays
  <2>3. /\ newStatus' \in Contents("coils")
        /\ \A a \in Cells("coils") : newStatus'[a] # Updated(meant, body)[a] => a \in clobbered
    <3>1. /\ Updated(table["coils"], body) \in Contents("coils")
          /\ \A a \in Cells("coils") :
               Updated(table["coils"], body)[a] # Updated(meant, body)[a]
                 => table["coils"][a] # meant[a]
      BY <1>2, <1>3, <1>5, UpdateShows
    <3> QED BY <3>1, <2>1, <1>3, KeptIs DEF MemoryInv
  <2>4. TablesType'
    BY <2>1, <2>3, <1>6 DEF MemoryInv, TablesType, Contents, Cells, Values
  <2>5. \A t \in Tables : \A a \in Cells(t) :
          table'[t][a] # MeantTable(t)'[a] => t = "coils" /\ a \in clobbered'
    BY <2>1, <2>2, KeptIs DEF MemoryInv
  <2>6. LostUpdateHasCause' BY <2>5 DEF LostUpdateHasCause, MeantTable, Cells
  <2>7. StatusInv'
    <3>1. Updated(MeantTable("coils"), Body(current))' = Updated(meant, body)
      BY <2>2, <1>3, <1>7 DEF Updated, Addressed, Written, ParsedCoil
    <3> QED BY <3>1, <2>1, <2>3 DEF StatusInv, Cells
  <2> QED BY <2>2, <2>4, <2>6, <2>7 DEF MemoryInv
<1>9. CASE FillCoils
  <2>1. /\ table' = [table EXCEPT !["coils"] = newStatus]
        /\ updates' = Append(updates, ByRequest(current))
        /\ clobbered' = clobbered /\ newStatus' = <<>> /\ stage = "mid" /\ stage' = "stored"
    BY <1>9 DEF FillCoils, Fill
  <2>2. newStatus \in Contents("coils")
    BY <2>1, <1>6 DEF ServeInv, HandlerInvs, StageInv
  <2>3. /\ UpdatesType' /\ LatestInv' /\ MeantTable("coils")' = Updated(meant, body)
        /\ \A x \in Tables \ {"coils"} : MeantTable(x)' = MeantTable(x)
    BY <2>1, <1>1, <1>3, RequestAdds
  <2>4. TablesType'
    BY <2>1, <2>2, <1>3, <1>5 DEF MemoryInv, TablesType, Contents, Cells, Values
  <2>5. ASSUME NEW x \in Tables, NEW a \in Cells(x), table'[x][a] # MeantTable(x)'[a]
        PROVE  x = "coils" /\ a \in clobbered
    <3>1. CASE x = "coils" BY <3>1, <2>1, <2>3, <2>5, <1>5 DEF MemoryInv, StatusInv
    <3>2. CASE x # "coils"
      <4>1. table[x][a] # MeantTable(x)[a] BY <3>2, <2>1, <2>3, <2>5, <1>5
      <4> QED BY <4>1, KeptIs DEF MemoryInv
    <3> QED BY <3>1, <3>2
  <2>6. LostUpdateHasCause' BY <2>1, <2>5 DEF LostUpdateHasCause, MeantTable, Cells
  <2>7. StatusInv' BY <2>1 DEF StatusInv
  <2> QED BY <2>3, <2>4, <2>6, <2>7 DEF MemoryInv
<1> QED BY <1>8, <1>9

\* The application changes a cell.
LEMMA ApplicationKeepsMemory ==
  ASSUME ServeInv, MemoryInv, NEW cell \in AppCells, NEW v \in Values(cell[1]),
         AppWrite(cell[1], cell[2], v)
  PROVE  MemoryInv'
<1> DEFINE t == cell[1]
           b == cell[2]
<1>1. t \in Tables /\ b \in Cells(t) BY ApplicationAssumption
<1>2. QueueType /\ UpdatesType /\ LatestInv BY ServeFacts DEF MemoryInv
<1>3. \A x \in Tables : table[x] \in Contents(x) /\ MeantTable(x) \in Contents(x)
  BY <1>2, MeantValues DEF MemoryInv, TablesType
<1>4. DOMAIN table = Tables BY DEF MemoryInv, TablesType
<1>5. /\ table' = [table EXCEPT ![t] = [table[t] EXCEPT ![b] = v]]
      /\ updates' = Append(updates, ByApplication(t, b, v))
      /\ clobbered' = IF stage = "mid" /\ t = "coils" THEN clobbered \cup {b} ELSE clobbered
      /\ UNCHANGED <<received, stage, current, newStatus>>
  BY DEF AppWrite
<1>6. /\ UpdatesType' /\ LatestInv' /\ MeantTable(t)' = [MeantTable(t) EXCEPT ![b] = v]
      /\ \A x \in Tables \ {t} : MeantTable(x)' = MeantTable(x)
  BY <1>1, <1>5, ApplicationAdds
<1> HIDE DEF t, b
<1>7. [table[t] EXCEPT ![b] = v] \in Contents(t)
  BY <1>1, <1>3 DEF Contents, t
<1>8. TablesType'
  BY <1>1, <1>4, <1>5, <1>7 DEF MemoryInv, TablesType, Contents, Cells, Values
<1>9. ASSUME NEW a \in Cells(t)
      PROVE  /\ table'[t][a] = IF a = b THEN v ELSE table[t][a]
             /\ MeantTable(t)'[a] = IF a = b THEN v ELSE MeantTable(t)[a]
  BY <1>1, <1>3, <1>4, <1>5, <1>6 DEF Contents
<1>10. ASSUME NEW x \in Tables, NEW a \in Cells(x), table'[x][a] # MeantTable(x)'[a]
       PROVE  x = "coils" /\ a \in clobbered
  <2>1. table[x][a] # MeantTable(x)[a]
    <3>1. CASE x = t BY <3>1, <1>9, <1>10
    <3>2. CASE x # t BY <3>2, <1>1, <1>4, <1>5, <1>6, <1>10
    <3> QED BY <3>1, <3>2
  <2> QED BY <2>1, KeptIs DEF MemoryInv
<1>11. LostUpdateHasCause' BY <1>5, <1>10 DEF LostUpdateHasCause, MeantTable, Cells
<1>12. StatusInv'
  <2> DEFINE next == MeantTable("coils")'
             body == Body(current)
  <2>1. SUFFICES ASSUME stage = "mid", NEW a \in Cells("coils"),
                        newStatus[a] # Updated(next, body)[a]
                 PROVE  a \in clobbered'
    <3>1. Body(current)' = body BY <1>5 DEF Body
    <3>2. Updated(MeantTable("coils"), Body(current))' = Updated(next, body)
      BY <3>1 DEF Updated, Addressed, Written, ParsedCoil
    <3> QED BY <3>2, <1>5 DEF StatusInv, Cells
  <2>2. body \in Requests /\ body.kind \in Writes /\ "coils" \in Tables /\ TableOf(body) = "coils"
    BY <2>1, ServeFacts DEF ServeInv, HandlerInvs, StageInv, Begins, TableOf, Writes
  <2>3. MeantTable("coils") \in Contents("coils") /\ next \in Contents("coils")
    <3>1. MeantTable("coils") \in Contents("coils") BY <2>2, <1>3
    <3>2. CASE t = "coils"
      <4>1. [MeantTable(t) EXCEPT ![b] = v] \in Contents(t) BY <1>1, <1>3 DEF Contents, t
      <4> QED BY <4>1, <3>1, <3>2, <1>6
    <3>3. CASE t # "coils" BY <3>1, <3>3, <2>2, <1>6
    <3> QED BY <3>2, <3>3, <3>1
  <2> HIDE DEF next, body
  <2>4. CASE next[a] = MeantTable("coils")[a]
    <3>1. Updated(next, body)[a] = Updated(MeantTable("coils"), body)[a]
      BY <2>2, <2>3, <2>4, UpdateShows
    <3>2. a \in clobbered BY <3>1, <2>1 DEF MemoryInv, StatusInv, body
    <3> QED BY <3>2, <1>5
  <2>5. CASE next[a] # MeantTable("coils")[a]
    <3>1. t = "coils" BY <2>2, <2>5, <1>6 DEF next
    <3>2. a = b BY <3>1, <2>5, <1>9 DEF next
    <3> QED BY <3>1, <3>2, <2>1, <1>5
  <2> QED BY <2>4, <2>5
<1> QED BY <1>6, <1>8, <1>11, <1>12 DEF MemoryInv

\* Every step keeps the tables as they are meant to be.
LEMMA MemoryStep ==
  ASSUME ServeInv, MemoryInv, [Next]_vars
  PROVE  MemoryInv'
<1> DEFINE body == Body(current)
<1>1. ASSUME UNCHANGED <<table, updates, clobbered>>, received' = received,
             newStatus' \in {newStatus, <<>>}, stage' # "mid"
      PROVE  MemoryInv'
  BY <1>1, MemoryStays DEF memory, Ids
<1>2. ASSUME stage \in {"pre", "mid"}, body.kind # "identify" PROVE TableOf(body) \in Tables
  BY <1>2 DEF ServeInv, HandlerInvs, StageInv, Begins
<1>3. CASE UNCHANGED vars
  <2>1. UNCHANGED memory /\ UNCHANGED <<stage, newStatus, current, received>> /\ Ids' = Ids
    BY <1>3 DEF vars, memory, Ids
  <2> QED BY <2>1, <1>1, MemoryStays
<1>4. ASSUME NEW c \in Conns, NEW k \in 1..MaxChunk, NEW bodies \in [1..k -> Requests],
             DataEvent(c, bodies)
      PROVE  MemoryInv'
  <2>1. k \in Nat \ {0} /\ QueueType BY BoundAssumption, ServeFacts
  <2>2. Ids = 1..Len(received) /\ Len(received) \in Nat BY <2>1, IdsAre
  <2>3. /\ Ids' = 1..(Len(received) + k) /\ \A r \in Ids : received'[r] = received[r]
        /\ stage' = "loop" /\ UNCHANGED <<newStatus, memory>>
    BY <2>1, <1>4, DataEventAdds
  <2>4. Ids \subseteq Ids' BY <2>1, <2>2, <2>3
  <2> QED BY <2>3, <2>4, MemoryStays
<1>5. ASSUME NEW r \in Ids, OtherUnit(r) \/ RefuseIdentify(r) \/ HandToListener(r) \/ Begin(r)
      PROVE  MemoryInv'
  <2>1. Take(r) /\ stage' \in {"loop", "pre", "post"}
    BY <1>5 DEF OtherUnit, RefuseIdentify, HandToListener, Begin, Take
  <2> QED BY <2>1, <1>1 DEF Take, memory
<1>6. ASSUME NEW r \in Ids, ListenerAnswers(r) PROVE MemoryInv'
  <2>1. UNCHANGED memory /\ UNCHANGED <<stage, newStatus, current, received>> /\ Ids' = Ids
    BY <1>6 DEF ListenerAnswers, Ids
  <2> QED BY <2>1, <1>1, MemoryStays
<1>7. CASE LoopEnds BY <1>1, <1>7 DEF LoopEnds, memory
<1>8. CASE HandleReturns BY <1>1, <1>8 DEF HandleReturns, memory
<1>9. CASE HookThrows BY <1>1, <1>9 DEF HookThrows, memory
<1>10. CASE Handler
  <2>1. CASE Read BY <2>1, <1>1 DEF Read, Serving, Reply, Throw, memory
  <2>2. CASE ReadHolding BY <2>2, <1>1 DEF ReadHolding, Serving, Reply, Throw, memory
  <2>3. ASSUME NEW t \in {"coils", "holding"}, Store(t), stage = "pre", stage' # "mid",
               body.kind \in Writes, TableOf(body) = t, UNCHANGED <<newStatus, received, current>>
        PROVE  MemoryInv'
    <3>1. t \in Tables BY <2>3, <1>2 DEF Writes
    <3> QED BY <3>1, <2>3, StoreKeepsMemory
  <2>4. CASE WriteSingleCoil
    <3>1. CASE Throw BY <3>1, <2>4, <1>1 DEF Throw, WriteSingleCoil, Serving, memory
    <3>2. CASE Reply(Success) /\ Store("coils")
      BY <3>2, <2>3, <2>4 DEF WriteSingleCoil, Serving, Reply, TableOf, Writes
    <3> QED BY <2>4, <3>1, <3>2 DEF WriteSingleCoil
  <2>5. CASE WriteSingleRegister
    <3>1. stage = "pre" /\ body.kind = "writeRegister" /\ TableOf(body) = "holding"
          /\ UNCHANGED <<received, current>>
      BY <2>5 DEF WriteSingleRegister, Serving, TableOf
    <3>2. Bytes["holding"] \in Nat /\ body.at \in Nat
      BY <3>1, <1>2, ServeFacts, ServerAssumption
    <3>3. CASE Throw BY <3>1, <3>3, <1>1 DEF Throw, memory
    <3>4. CASE Refuse BY <3>1, <3>4, <1>1 DEF Refuse, memory
    <3>5. CASE Reply(Success) /\ Store("holding")
      BY <3>1, <3>5, <2>3 DEF Reply, Writes
    <3>6. Throw \/ Refuse \/ (Reply(Success) /\ Store("holding"))
      BY <3>2, <2>5 DEF WriteSingleRegister
    <3> QED BY <3>3, <3>4, <3>5, <3>6
  <2>6. CASE WriteMultipleRegisters
    <3>1. stage = "pre" /\ body.kind = "writeRegisters" /\ TableOf(body) = "holding"
          /\ UNCHANGED <<received, current>>
      BY <2>6 DEF WriteMultipleRegisters, Serving, TableOf
    <3>2. CASE Refuse BY <3>1, <3>2, <1>1 DEF Refuse, memory
    <3>3. CASE Store("holding") /\ stage' = "stored" /\ UNCHANGED newStatus
      BY <3>1, <3>3, <2>3 DEF Writes
    <3> QED BY <3>2, <3>3, <2>6 DEF WriteMultipleRegisters
  <2>7. CASE Identify
    BY <2>7, <1>1 DEF Identify, Serving, Reply, memory
  <2>8. CASE WriteMultipleCoils \/ FillCoils BY <2>8, CoilsKeepMemory
  <2>9. CASE Acknowledge BY <2>9, <1>1 DEF Acknowledge, Reply, memory
  <2> QED BY <1>10, <2>1, <2>2, <2>4, <2>5, <2>6, <2>7, <2>8, <2>9 DEF Handler
<1>11. ASSUME NEW cell \in AppCells, NEW v \in Values(cell[1]), AppWrite(cell[1], cell[2], v)
       PROVE  MemoryInv'
  BY <1>11, ApplicationKeepsMemory
<1> QED BY <1>3, <1>4, <1>5, <1>6, <1>7, <1>8, <1>9, <1>10, <1>11 DEF Next

-----------------------------------------------------------------------------
(* Writes and their answers.                                                 *)

\* What agreed stays so while nothing happens to its request, but that a
\* listener throws.
LEMMA AgreesStays ==
  ASSUME NEW r, received'[r] = received[r], Storing(r)' = Storing(r), replies'[r] = replies[r],
         Agrees(r), hookThrew \subseteq hookThrew', UnderWay(r) => UnderWay(r)' \/ r \in hookThrew'
  PROVE  Agrees(r)'
<1>1. Body(r)' = Body(r) BY DEF Body
<1>2. Addressed(Body(r))' = Addressed(Body(r)) /\ TableOf(Body(r))' = TableOf(Body(r))
  BY <1>1 DEF Addressed, TableOf
<1>3. Cells(TableOf(Body(r)))' = Cells(TableOf(Body(r))) BY <1>2 DEF Cells
<1> QED BY <1>1, <1>2, <1>3 DEF Agrees

\* Answers a request has had, and one more.
LEMMA FirstAnswer ==
  ASSUME NEW s \in Seq(Answers), NEW a \in Answers, Len(s) = 0
  PROVE  Range(s) = {} /\ Range(Append(s, a)) = {a}
<1>1. s = <<>> BY EmptySeq
<1>2. Append(s, a) = <<a>> BY <1>1
<1> QED BY <1>1, <1>2 DEF Range

\* What the handlers do to the request in hand: nothing yet, an answer that
\* stores nothing, a write stored and answered, stored only, or answered only.
Stores == updates' = Append(updates, ByRequest(current))
Within(body) == Addressed(body) \subseteq Cells(TableOf(body))
LEMMA HandlerStores ==
  ASSUME ServeInv, TablesType, Handler
  PROVE  /\ UNCHANGED <<received, order, current, hookThrew>> /\ stage' \in Stages
         /\ \/ stage = "pre" /\ stage' # "stored" /\ UNCHANGED <<updates, replies>>
            \/ /\ stage = "pre" /\ stage' # "stored" /\ stage' # "mid" /\ UNCHANGED updates
               /\ \E a \in Answers : /\ Answer(current, a)
                                     /\ a = Exception(2) \/ Body(current).kind \notin Writes
            \/ /\ stage = "pre" /\ stage' = "post" /\ Stores /\ Answer(current, Success)
               /\ Body(current).kind \in Writes /\ Within(Body(current))
            \/ /\ stage \in {"pre", "mid"} /\ stage' = "stored" /\ Stores
               /\ running' = running /\ replies' = replies
               /\ Body(current).kind \in Writes
               /\ Body(current).kind = "writeCoils" \/ Within(Body(current))
            \/ /\ stage = "stored" /\ stage' = "post" /\ UNCHANGED updates
               /\ Answer(current, Success)
<1> DEFINE body == Body(current)
           t == TableOf(body)
<1>1. stage \in {"pre", "mid", "stored"} /\ UNCHANGED <<received, order, current, hookThrew>>
  BY DEF Handler, Read, ReadHolding, WriteSingleCoil, WriteSingleRegister,
         WriteMultipleRegisters, Identify, WriteMultipleCoils, FillCoils, Acknowledge, Serving
<1>2. current \in Ids /\ body \in Requests /\ Begins(body)
  BY <1>1, ServeFacts DEF ServeInv, HandlerInvs, StageInv
<1>3. body.at \in Nat /\ body.n \in Nat \ {0}
      /\ (body.kind \in {"writeCoil", "writeRegister"} => body.n = 1)
  BY <1>2, ServerAssumption
<1>4. body.kind # "identify" => t \in Tables BY <1>2 DEF Begins
<1>5. ASSUME t \in Tables PROVE Slice(table[t], body) \in Answers
  BY <1>2, <1>5, SliceShows DEF TablesType
<1>6. Exception(1) \in Answers /\ Exception(2) \in Answers BY DEF Answers, Exception
<1>7. Addressed(body) = body.at .. body.at + body.n - 1 BY DEF Addressed
<1>8. ASSUME t \in Tables, t = "holding", 2 * body.at + 2 * body.n <= Bytes["holding"]
      PROVE  Within(body)
  <2>1. Bytes[t] \in Nat BY <1>8, ServerAssumption
  <2>2. Cells(t) = 0 .. (Bytes[t] \div 2) - 1 BY <1>8 DEF Cells, BitTables
  <2>3. body.at + body.n <= Bytes[t] \div 2 BY <2>1, <1>3, <1>8
  <2>4. \A a \in body.at .. body.at + body.n - 1 : a \in 0 .. (Bytes[t] \div 2) - 1
    BY <2>1, <2>3, <1>3
  <2> QED BY <2>2, <2>4, <1>7 DEF Within
<1>9. CASE Read
  <2>1. body.kind \in Reads /\ body.kind # "identify" /\ body.kind \notin Writes
    BY <1>9 DEF Read, Serving, Reads, Writes
  <2>2. CASE Fits(body)
    BY <2>1, <2>2, <1>1, <1>4, <1>5, <1>9 DEF Read, Serving, Reply, memory, Stages
  <2>3. CASE ~Fits(body) BY <2>3, <1>1, <1>9 DEF Read, Serving, Throw, memory, Stages
  <2> QED BY <2>2, <2>3
<1>10. CASE ReadHolding
  <2>1. body.kind = "readHolding" /\ t = "holding" /\ body.kind \notin Writes
    BY <1>10 DEF ReadHolding, Serving, TableOf, Writes
  <2>2. CASE Throw BY <2>2, <1>1, <1>10 DEF ReadHolding, Serving, Throw, memory, Stages
  <2>3. CASE Reply(Slice(table["holding"], body)) /\ UNCHANGED memory
    BY <2>1, <2>3, <1>1, <1>4, <1>5, <1>10 DEF ReadHolding, Serving, Reply, memory, Stages
  <2> QED BY <2>2, <2>3, <1>10 DEF ReadHolding
<1>11. CASE WriteSingleCoil
  <2>1. body.kind = "writeCoil" /\ t = "coils" /\ body.kind \in Writes
    BY <1>11 DEF WriteSingleCoil, Serving, TableOf, Writes
  <2>2. CASE body.at \in Cells("coils")
    <3>1. Within(body) BY <2>1, <2>2, <1>3, <1>7 DEF Within
    <3> QED BY <3>1, <2>1, <2>2, <1>1, <1>11
            DEF WriteSingleCoil, Serving, Reply, Store, Fill, Stores, Stages
  <2>3. CASE body.at \notin Cells("coils")
    BY <2>3, <1>1, <1>11 DEF WriteSingleCoil, Serving, Throw, memory, Stages
  <2> QED BY <2>2, <2>3
<1>12. CASE WriteSingleRegister
  <2>1. body.kind = "writeRegister" /\ t = "holding" /\ body.kind \in Writes /\ stage = "pre"
    BY <1>12 DEF WriteSingleRegister, Serving, TableOf, Writes
  <2>2. t \in Tables BY <2>1, <1>4
  <2>3. Bytes["holding"] \in Nat BY <2>1, <2>2, ServerAssumption
  <2>4. CASE Throw BY <2>1, <2>4, <1>1 DEF Throw, memory, Stages
  <2>5. CASE Refuse BY <2>1, <2>5, <1>1, <1>6 DEF Refuse, memory, Stages
  <2>6. CASE 2 * body.at + 2 <= Bytes["holding"] /\ Reply(Success) /\ Store("holding")
    <3>1. Within(body) BY <2>1, <2>2, <2>6, <1>3, <1>8
    <3> QED BY <3>1, <2>1, <2>6, <1>1 DEF Reply, Store, Fill, Stores, Stages
  <2>7. \/ Throw \/ Refuse
        \/ 2 * body.at + 2 <= Bytes["holding"] /\ Reply(Success) /\ Store("holding")
    BY <2>3, <1>3, <1>12 DEF WriteSingleRegister
  <2> QED BY <2>4, <2>5, <2>6, <2>7
<1>13. CASE WriteMultipleRegisters
  <2>1. body.kind = "writeRegisters" /\ t = "holding" /\ body.kind \in Writes /\ stage = "pre"
    BY <1>13 DEF WriteMultipleRegisters, Serving, TableOf, Writes
  <2>2. t \in Tables /\ Bytes["holding"] \in Nat BY <2>1, <1>4, ServerAssumption
  <2>3. CASE 2 * body.at + 2 * body.n > Bytes["holding"]
    BY <2>1, <2>3, <1>1, <1>6, <1>13 DEF WriteMultipleRegisters, Refuse, memory, Stages
  <2>4. CASE ~(2 * body.at + 2 * body.n > Bytes["holding"])
    <3>1. 2 * body.at + 2 * body.n <= Bytes["holding"] BY <2>2, <2>4, <1>3
    <3>2. Within(body) BY <3>1, <2>1, <2>2, <1>8
    <3> QED BY <3>2, <2>1, <2>4, <1>1, <1>13
            DEF WriteMultipleRegisters, Store, Fill, Stores, Stages
  <2> QED BY <2>3, <2>4
<1>14. CASE Identify
  BY <1>1, <1>6, <1>14 DEF Identify, Serving, Reply, memory, Stages, Writes
<1>15. CASE WriteMultipleCoils
  BY <1>1, <1>15 DEF WriteMultipleCoils, Serving, memory, Stages
<1>16. CASE FillCoils
  <2>1. body.kind = "writeCoils" /\ stage = "mid"
    BY <1>16 DEF FillCoils, ServeInv, HandlerInvs, StageInv
  <2> QED BY <2>1, <1>1, <1>16 DEF FillCoils, Fill, Stores, Stages, Writes
<1>17. CASE Acknowledge
  BY <1>1, <1>17 DEF Acknowledge, Reply, memory, Stages
<1> QED BY <1>9, <1>10, <1>11, <1>12, <1>13, <1>14, <1>15, <1>16, <1>17 DEF Handler

\* The handlers keep effect and answer in agreement.
LEMMA HandlerAgrees ==
  ASSUME ServeInv, MemoryInv, StoreInv, Handler
  PROVE  StoreInv'
<1> DEFINE n == Len(updates)
<1>1. /\ stage \in {"pre", "mid", "stored"} /\ TablesType
      /\ UNCHANGED <<received, order, current, hookThrew>> /\ Ids' = Ids
  BY HandlerStores
     DEF MemoryInv, Ids, Handler, Read, ReadHolding, WriteSingleCoil, WriteSingleRegister,
         WriteMultipleRegisters, Identify, WriteMultipleCoils, FillCoils, Acknowledge, Serving
<1>2. PICK c \in Ids : c = current BY <1>1, ServeFacts
<1>3. current' = c BY <1>1, <1>2
<1> DEFINE body == Body(c)
<1>4. /\ c \in Range(order) /\ Range(order) \subseteq Ids
      /\ body \in Requests /\ Begins(body) /\ Unanswered(c) /\ running # Idle
      /\ \A x \in Ids : replies[x] \in Seq(Answers)
      /\ stage = "stored" => body.kind \in {"writeCoils", "writeRegisters"}
  BY <1>1, <1>2, ServeFacts DEF ServeInv, HandlerInvs, StageInv
<1>5. n \in Nat /\ DOMAIN updates = 1..n /\ updates \in Seq(UpdateRecords)
  BY LenProperties DEF MemoryInv, UpdatesType, UpdateRecords
<1>6. /\ Body(c)' = body /\ TableOf(body)' = TableOf(body)
      /\ Addressed(body)' = Addressed(body) /\ Cells(TableOf(body))' = Cells(TableOf(body))
  BY <1>1 DEF Body, TableOf, Addressed, Cells
<1>7. Success \in Answers /\ Success # Exception(2) /\ Exception(2) \in Answers
  BY DEF Answers, Success, Exception
<1>8. Agrees(c) /\ (stage = "stored" => Storing(c) # {})
      /\ (stage \in {"pre", "mid"} => Storing(c) = {})
  BY <1>2, <1>4 DEF StoreInv
<1>9. ASSUME \A x \in Ids \ {c} : replies'[x] = replies[x] /\ Storing(x)' = Storing(x),
             Agrees(c)', stage' \in {"pre", "mid"} => Storing(c)' = {},
             stage' = "stored" => Storing(c)' # {}, updates' = updates \/ Stores
      PROVE  StoreInv'
  <2>1. ASSUME NEW x \in Range(order) \ {c} PROVE Agrees(x)'
    <3>1. ~UnderWay(x) BY <1>2, <2>1 DEF UnderWay
    <3>2. Agrees(x) /\ x \in Ids \ {c} BY <2>1, <1>4 DEF StoreInv
    <3> QED BY <3>1, <3>2, <1>1, <1>9, AgreesStays
  <2>2. \A i \in DOMAIN updates' : updates'[i].req \in Range(order) \cup {0}
    <3>1. CASE updates' = updates BY <3>1 DEF StoreInv
    <3>2. CASE Stores
      <4>1. ByRequest(current) \in UpdateRecords /\ ByRequest(current).req = c
        BY <1>2, ServeFacts DEF ByRequest, UpdateRecords
      <4>2. /\ Len(updates') = n + 1 /\ updates' \in Seq(UpdateRecords)
            /\ updates'[n + 1] = ByRequest(current)
            /\ \A i \in 1..n : updates'[i] = updates[i]
        BY <3>2, <4>1, <1>5, AppendProperties DEF Stores
      <4>3. DOMAIN updates' = 1..(n + 1) BY <4>2, LenProperties
      <4>4. \A i \in 1..(n + 1) : i \in 1..n \/ i = n + 1 BY <1>5
      <4> QED BY <4>1, <4>2, <4>3, <4>4, <1>4, <1>5 DEF StoreInv
    <3> QED BY <3>1, <3>2, <1>9
  <2>3. \A x \in Range(order) : Agrees(x)' BY <2>1, <1>9
  <2>4. Storing(current)' = Storing(c)' BY <1>3
  <2> QED BY <2>2, <2>3, <2>4, <1>1, <1>9 DEF StoreInv
<1>10. ASSUME NEW a \in Answers, Answer(current, a)
       PROVE  (\A x \in Ids \ {c} : replies'[x] = replies[x]) /\ Range(replies'[c]) = {a}
  <2>1. Answer(c, a) BY <1>2, <1>10
  <2>2. /\ \A x \in Ids \ {c} : replies'[x] = replies[x]
        /\ replies'[c] = Append(replies[c], a)
    BY <2>1, <1>1, AnswerAdds
  <2>3. Range(Append(replies[c], a)) = {a} BY <1>4, FirstAnswer DEF Unanswered
  <2> QED BY <2>2, <2>3
<1>11. ASSUME body.kind \in Writes, Stores
       PROVE  /\ \A x \in Ids \ {c} : Storing(x)' = Storing(x)
              /\ Storing(c)' = Storing(c) \cup {n + 1}
  <2>1. TableOf(body) \in Tables BY <1>4, <1>11 DEF Begins, Writes
  <2>2. \A x : Storing(x)' = IF x = current THEN Storing(x) \cup {n + 1} ELSE Storing(x)
    BY <2>1, <1>1, <1>2, <1>11, RequestAdds DEF Stores
  <2> QED BY <2>2, <1>2
<1>12. ASSUME updates' = updates PROVE \A x : Storing(x)' = Storing(x)
  BY <1>12 DEF Storing
<1>13. Range(replies[c]) = {} BY <1>4, <1>7, FirstAnswer DEF Unanswered
<1> HIDE DEF n
\* Nothing yet.
<1>14. CASE stage = "pre" /\ stage' # "stored" /\ UNCHANGED <<updates, replies>>
  <2>1. ~UnderWay(c) BY <1>14 DEF UnderWay
  <2>2. Storing(c)' = {} /\ \A x : Storing(x)' = Storing(x) BY <1>8, <1>12, <1>14
  <2>3. received'[c] = received[c] /\ replies'[c] = replies[c] /\ hookThrew \subseteq hookThrew'
    BY <1>1, <1>14
  <2>4. Agrees(c)' BY <2>1, <2>2, <2>3, <1>8, AgreesStays
  <2> QED BY <2>2, <2>4, <1>9, <1>14
\* An answer that stores nothing.
<1>15. ASSUME stage = "pre", stage' # "stored", stage' # "mid", UNCHANGED updates,
              NEW a \in Answers, Answer(current, a), a = Exception(2) \/ body.kind \notin Writes
       PROVE  StoreInv'
  <2>1. Storing(c)' = {} /\ \A x : Storing(x)' = Storing(x) BY <1>8, <1>12, <1>15
  <2>2. Range(replies'[c]) = {a} /\ \A x \in Ids \ {c} : replies'[x] = replies[x]
    BY <1>10, <1>15
  <2>3. Agrees(c)' BY <2>1, <2>2, <1>6, <1>7, <1>15 DEF Agrees
  <2> QED BY <2>1, <2>2, <2>3, <1>9, <1>15
\* Stored and answered.
<1>16. ASSUME stage = "pre", stage' = "post", Stores, Answer(current, Success),
              body.kind \in Writes, Within(body)
       PROVE  StoreInv'
  <2>1. Storing(c)' = {n + 1} /\ \A x \in Ids \ {c} : Storing(x)' = Storing(x)
    BY <1>8, <1>11, <1>16
  <2>2. Range(replies'[c]) = {Success} /\ \A x \in Ids \ {c} : replies'[x] = replies[x]
    BY <1>7, <1>10, <1>16
  <2>3. Agrees(c)' BY <2>1, <2>2, <1>6, <1>7, <1>16 DEF Agrees, Within
  <2> QED BY <2>1, <2>2, <2>3, <1>9, <1>16
\* Stored, and about to be answered.
<1>17. ASSUME stage \in {"pre", "mid"}, stage' = "stored", Stores, running' = running,
              replies' = replies, body.kind \in Writes,
              body.kind = "writeCoils" \/ Within(body)
       PROVE  StoreInv'
  <2>1. Storing(c)' = {n + 1} /\ \A x \in Ids \ {c} : Storing(x)' = Storing(x)
    BY <1>8, <1>11, <1>17
  <2>2. UnderWay(c)' BY <1>3, <1>4, <1>17 DEF UnderWay
  <2>3. Range(replies'[c]) = {} BY <1>13, <1>17
  <2>4. Agrees(c)' BY <2>1, <2>2, <2>3, <1>6, <1>17 DEF Agrees, Within
  <2> QED BY <2>1, <2>4, <1>9, <1>17
\* Answered.
<1>18. CASE /\ stage = "stored" /\ stage' = "post" /\ UNCHANGED updates
            /\ Answer(current, Success)
  <2>1. Storing(c) # {} /\ \A x : Storing(x)' = Storing(x) BY <1>8, <1>12, <1>18
  <2>2. Range(replies'[c]) = {Success} /\ \A x \in Ids \ {c} : replies'[x] = replies[x]
    BY <1>7, <1>10, <1>18
  <2>3. Storing(c)' = Storing(c) BY <2>1
  <2>4. Agrees(c)' BY <2>1, <2>2, <2>3, <1>6, <1>7, <1>8 DEF Agrees
  <2> QED BY <2>1, <2>2, <2>4, <1>9, <1>18
<1>19. \/ stage = "pre" /\ stage' # "stored" /\ UNCHANGED <<updates, replies>>
       \/ /\ stage = "pre" /\ stage' # "stored" /\ stage' # "mid" /\ UNCHANGED updates
          /\ \E a \in Answers : /\ Answer(current, a)
                                /\ a = Exception(2) \/ body.kind \notin Writes
       \/ /\ stage = "pre" /\ stage' = "post" /\ Stores /\ Answer(current, Success)
          /\ body.kind \in Writes /\ Within(body)
       \/ /\ stage \in {"pre", "mid"} /\ stage' = "stored" /\ Stores
          /\ running' = running /\ replies' = replies /\ body.kind \in Writes
          /\ body.kind = "writeCoils" \/ Within(body)
       \/ /\ stage = "stored" /\ stage' = "post" /\ UNCHANGED updates
          /\ Answer(current, Success)
  BY <1>1, <1>2, HandlerStores
<1> QED BY <1>14, <1>15, <1>16, <1>17, <1>18, <1>19

\* Every step does.
LEMMA StoreStep ==
  ASSUME ServeInv, MemoryInv, StoreInv, [Next]_vars
  PROVE  StoreInv'
<1>1. /\ QueueType /\ Ids = 1..Len(received) /\ Len(received) \in Nat
      /\ Range(order) \subseteq Ids /\ Control
      /\ \A x \in Ids : Len(replies[x]) \in Nat /\ replies[x] \in Seq(Answers)
      /\ (stage # "loop" => current \in Ids /\ current \in Range(order) /\ running # Idle)
  BY ServeFacts DEF ServeInv, HandlerInvs, StageInv
\* A step that stores nothing and answers nobody.
<1>2. ASSUME order' = order, \A x \in Ids : received'[x] = received[x] /\ replies'[x] = replies[x],
             \A i \in DOMAIN updates' : updates'[i].req \in Range(order) \cup {0},
             \A x \in Ids : Storing(x)' = Storing(x),
             \/ stage' = stage /\ UNCHANGED <<current, running, hookThrew>>
             \/ /\ stage' = "loop" /\ hookThrew \subseteq hookThrew'
                /\ stage = "stored" /\ running # Idle => current \in hookThrew'
      PROVE  StoreInv'
  <2>1. \A x \in Range(order) : UnderWay(x) => UnderWay(x)' \/ x \in hookThrew'
    BY <1>2 DEF UnderWay
  <2>2. \A x \in Range(order) : Agrees(x)'
    BY <2>1, <1>1, <1>2, AgreesStays DEF StoreInv
  <2>3. CASE stage' = stage /\ current' = current
    BY <2>2, <2>3, <1>1, <1>2 DEF StoreInv
  <2>4. CASE stage' = "loop" BY <2>2, <2>4, <1>2 DEF StoreInv
  <2> QED BY <2>3, <2>4, <1>2
<1>3. ASSUME updates' = updates
      PROVE  /\ \A i \in DOMAIN updates' : updates'[i].req \in Range(order) \cup {0}
             /\ \A x : Storing(x)' = Storing(x)
  BY <1>3 DEF StoreInv, Storing
<1>4. CASE UNCHANGED vars BY <1>2, <1>3, <1>4 DEF vars, memory
<1>5. ASSUME NEW c \in Conns, NEW k \in 1..MaxChunk, NEW bodies \in [1..k -> Requests],
             DataEvent(c, bodies)
      PROVE  StoreInv'
  <2>1. k \in Nat \ {0} BY BoundAssumption
  <2>2. \A x \in Ids : replies'[x] = replies[x] BY <2>1, <1>5, DataEventServes
  <2>3. /\ order' = order /\ hookThrew' = hookThrew /\ stage' = "loop" /\ running = Idle
        /\ updates' = updates /\ \A x \in Ids : received'[x] = received[x]
    BY <2>1, <1>1, <1>5, DataEventAdds DEF memory
  <2> QED BY <2>2, <2>3, <1>2, <1>3
<1>6. ASSUME NEW r \in Ids, OtherUnit(r) \/ RefuseIdentify(r) \/ HandToListener(r) \/ Begin(r)
      PROVE  StoreInv'
  <2>1. Take(r) BY <1>6 DEF OtherUnit, RefuseIdentify, HandToListener, Begin
  <2>2. /\ stage = "loop" /\ Range(order') = Range(order) \cup {r} /\ updates' = updates
        /\ UNCHANGED <<received, hookThrew>> /\ Ids' = Ids
        /\ running \in Conns /\ r = queue[running][1] /\ 1 \in 1..Len(queue[running])
    BY <2>1, <1>1, TakeShifts DEF Control, memory, Ids
  <2>3. r \notin Range(order) /\ r # 0 BY <2>2, <1>1 DEF ServeInv, QueueInvs, QueueInv
  <2>4. Storing(r)' = {} /\ \A x : Storing(x)' = Storing(x)
    <3>1. Storing(r) = {} BY <2>3 DEF StoreInv, Storing
    <3> QED BY <3>1, <2>2, <1>3
  <2>5. Len(replies[r]) = 0 BY <2>3 DEF ServeInv, HandlerInvs, AnswerInv, Unanswered
  <2>6. Range(replies[r]) = {}
    <3>1. replies[r] = <<>> BY <2>5, <1>1, EmptySeq
    <3> QED BY <3>1 DEF Range
  <2>7. /\ \A x \in Ids \ {r} : replies'[x] = replies[x]
        /\ replies'[r] = replies[r] \/ Body(r).kind \notin Writes
        /\ stage' \in {"loop", "pre", "post"}
        /\ stage' = "pre" => current' = r
    <3>1. CASE RefuseIdentify(r)
      <4>1. PICK a \in {Exception(1), Exception(3)} : Answer(r, a)
        BY <3>1 DEF RefuseIdentify
      <4>2. a \in Answers BY DEF Answers, Exception
      <4>3. \A x \in Ids \ {r} : replies'[x] = replies[x] BY <4>1, <4>2, <2>2, AnswerAdds
      <4> QED BY <4>3, <3>1, <2>2 DEF RefuseIdentify, Refused, Writes
    <3>2. CASE OtherUnit(r) \/ HandToListener(r) \/ Begin(r)
      BY <3>2, <2>2 DEF OtherUnit, HandToListener, Begin
    <3> QED BY <3>1, <3>2, <1>6
  <2>8. Body(r)' = Body(r) BY <2>2 DEF Body
  <2>9. Agrees(r)' BY <2>4, <2>6, <2>7, <2>8 DEF Agrees
  <2>10. ASSUME NEW x \in Range(order) PROVE Agrees(x)'
    <3>1. ~UnderWay(x) BY <2>2 DEF UnderWay
    <3> QED BY <3>1, <2>2, <2>3, <2>4, <2>7, <1>1, AgreesStays DEF StoreInv
  <2>11. \A i \in DOMAIN updates' : updates'[i].req \in Range(order') \cup {0}
    BY <2>2, <1>3
  <2> QED BY <2>2, <2>4, <2>7, <2>9, <2>10, <2>11 DEF StoreInv
<1>7. ASSUME NEW r \in Ids, ListenerAnswers(r) PROVE StoreInv'
  BY <1>2, <1>3, <1>7 DEF ListenerAnswers, memory
<1>8. CASE LoopEnds BY <1>2, <1>3, <1>8 DEF LoopEnds, memory
<1>9. CASE HandleReturns BY <1>2, <1>3, <1>9 DEF HandleReturns, memory
<1>10. CASE HookThrows BY <1>2, <1>3, <1>10 DEF HookThrows, memory
<1>11. CASE Handler BY <1>11, HandlerAgrees
<1>12. ASSUME NEW cell \in AppCells, NEW v \in Values(cell[1]), AppWrite(cell[1], cell[2], v)
       PROVE  StoreInv'
  <2>1. cell[1] \in Tables /\ cell[2] \in Cells(cell[1]) BY ApplicationAssumption
  <2>2. /\ received' = received /\ updates' = Append(updates, ByApplication(cell[1], cell[2], v))
        /\ UNCHANGED <<order, replies, stage, current, running, hookThrew>>
    BY <1>12 DEF AppWrite
  <2>3. UpdatesType' /\ \A x \in Ids : Storing(x)' = Storing(x)
    BY <2>1, <2>2, ApplicationAdds
  <2>4. \A i \in DOMAIN updates' : updates'[i].req \in Range(order) \cup {0}
    <3> TAKE i \in DOMAIN updates'
    <3>1. updates'[i].req \in Ids \cup {0}
      <4>1. Update(updates[i])' BY <2>3 DEF UpdatesType
      <4>2. Ids' = Ids BY <2>2 DEF Ids
      <4> QED BY <4>1, <4>2 DEF Update
    <3>2. CASE updates'[i].req \in Ids
      <4>1. PICK x \in Ids : x = updates'[i].req BY <3>2
      <4>2. i \in Storing(x)' BY <4>1 DEF Storing
      <4>3. i \in Storing(x) BY <4>2, <2>3
      <4>4. i \in DOMAIN updates /\ updates[i].req = x BY <4>3 DEF Storing
      <4> QED BY <4>1, <4>4 DEF StoreInv
    <3> QED BY <3>1, <3>2
  <2> QED BY <2>2, <2>3, <2>4, <1>2
<1> QED BY <1>4, <1>5, <1>6, <1>7, <1>8, <1>9, <1>10, <1>11, <1>12 DEF Next

-----------------------------------------------------------------------------
(* The theorems.                                                             *)
SMInv == ServeInv /\ MemoryInv /\ StoreInv /\ OutOfOrderHasCause

LEMMA SMInvInit == ASSUME Init PROVE SMInv
<1>1. received = <<>> /\ order = <<>> /\ replies = <<>> /\ Ids = {} /\ Len(received) = 0
  BY DEF Init, Ids
<1>2. /\ running = Idle /\ stage = "loop" /\ current = 0 /\ newStatus = <<>>
      /\ given = {} /\ heard = <<>> /\ threw = {} /\ hookThrew = {} /\ updates = <<>>
      /\ queue = [c \in Conns |-> <<>>] /\ table = [t \in Tables |-> BlankTable(t)]
  BY DEF Init
<1>3. \A c \in Conns : queue[c] = <<>> /\ Len(queue[c]) = 0 /\ 1..Len(queue[c]) = {}
  BY <1>2
<1>4. Range(order) = {} /\ DOMAIN order = {} /\ Len(order) = 0 /\ DOMAIN updates = {}
  BY <1>1, <1>2 DEF Range
<1>5. QueueType
  <2>1. received \in Seq(Entry) /\ order \in Seq(Ids) BY <1>1
  <2>2. queue \in [Conns -> Seq(Ids)] BY <1>2
  <2> QED BY <2>1, <2>2, <1>1 DEF QueueType
<1>6. QueueInvs BY <1>1, <1>3, <1>4, <1>5 DEF QueueInvs, QueueInv, EventInv, ShiftInv
<1>7. RepliesType BY <1>1 DEF RepliesType
<1>8. ControlType /\ StageInv /\ AnswerInv
  BY <1>1, <1>2, <1>4 DEF ControlType, Stages, StageInv, AnswerInv
<1>9. TablesType BY <1>2, BlankIs DEF TablesType
<1>10. UpdatesType BY <1>2, <1>4 DEF UpdatesType
<1>11. \A t \in Tables : \A a \in Cells(t) : Covering(t, a) = {} /\ table[t][a] = Meant(t, a)
  <2>1. \A t \in Tables : \A a \in Cells(t) : Covering(t, a) = {} BY <1>4 DEF Covering
  <2> QED BY <2>1, <1>2, <1>10, MeantIs
<1>12. LatestInv /\ LostUpdateHasCause /\ StatusInv /\ StoreInv /\ OutOfOrderHasCause
  BY <1>2, <1>4, <1>11
     DEF LatestInv, LostUpdateHasCause, StatusInv, StoreInv, OutOfOrderHasCause
<1> QED BY <1>6, <1>7, <1>8, <1>9, <1>10, <1>12 DEF SMInv, ServeInv, HandlerInvs, MemoryInv

LEMMA SMInvStep == ASSUME SMInv, [Next]_vars PROVE SMInv'
BY ServeStep, MemoryStep, StoreStep DEF SMInv, MemoryInv

\* The invariant of the server's loop, its handlers and its tables.
THEOREM ServerInvariant == Spec => []SMInv
<1>1. Init => SMInv BY SMInvInit
<1>2. SMInv /\ [Next]_vars => SMInv' BY SMInvStep
<1> QED BY <1>1, <1>2, PTL DEF Spec

\* Every state is of the types declared for it.
THEOREM ServerTypeCorrect == Spec => []TypeOK
<1>1. SMInv => TypeOK
  BY PartsAre DEF SMInv, ServeInv, HandlerInvs, QueueInvs, MemoryInv
<1> QED BY <1>1, ServerInvariant, PTL

\* Every cell of every table holds what the last of all updates says it holds,
\* the value a master sent or the application set, however writes, changes by
\* listeners and exceptions interleave; but for coils the application sets in a
\* listener of writeMultipleCoils.
THEOREM UpdatesAreKept == Spec => []LostUpdateHasCause
<1>1. SMInv => LostUpdateHasCause BY DEF SMInv, MemoryInv
<1> QED BY <1>1, ServerInvariant, PTL

\* What is acknowledged is stored, once and whole; what is refused is not; and
\* what is stored without an answer is just being answered or met a listener
\* that threw.
THEOREM EffectAndAnswerAgree == Spec => []AcknowledgedIsStored
<1>1. SMInv => AcknowledgedIsStored BY PartsAre DEF SMInv, StoreInv
<1> QED BY <1>1, ServerInvariant, PTL

\* The handler itself answers every request that is its own exactly once, those
\* for others never, and breaks off without an answer only where it must.
THEOREM HandlerAnswersOnce == Spec => []AnsweredOnce
<1>1. SMInv => AnsweredOnce BY PartsAre DEF SMInv, ServeInv, HandlerInvs, AnswerInv
<1> QED BY <1>1, ServerInvariant, PTL

\* When no data event runs, only an exception has left requests in a queue.
THEOREM QueueLeftByException == Spec => []LeftBehindHasCause
<1>1. ASSUME SMInv PROVE LeftBehindHasCause
  <2>1. SUFFICES ASSUME running = Idle, NEW c \in Conns, NEW r \in Range(queue[c])
                 PROVE  Excused(r)
    BY DEF LeftBehindHasCause, Excused, Event
  <2>2. QueueType BY <1>1 DEF SMInv, ServeInv, QueueInvs
  <2>3. queue[c] \in Seq(Ids) BY <2>2, IdsAre
  <2>4. PICK i \in 1..Len(queue[c]) : r = queue[c][i] BY <2>1, <2>3, RangeEquality
  <2>5. running # c BY <2>1, ApplicationAssumption
  <2> QED BY <2>4, <2>5, <1>1 DEF SMInv, ServeInv, QueueInvs, EventInv
<1> QED BY <1>1, ServerInvariant, PTL

\* Requests of one connection are handled out of order only within a data event
\* or past one that an exception had left behind.
THEOREM OrderKept == Spec => []OutOfOrderHasCause
<1>1. SMInv => OutOfOrderHasCause BY DEF SMInv
<1> QED BY <1>1, ServerInvariant, PTL

\* What a step adds to the replies of a request for a table that reads it: the
\* slice of the table, as its reader finds it.
LEMMA ReadsAnswerSlices ==
  ASSUME ServeInv, TablesType, [Next]_vars, NEW r \in Ids, Body(r).kind \in Reads,
         TableOf(Body(r)) \in Tables, Len(replies'[r]) > Len(replies[r])
  PROVE  replies'[r] = Append(replies[r], Slice(table[TableOf(Body(r))], Body(r)))
<1> DEFINE body == Body(current)
<1>1. \A x \in Ids : Len(replies[x]) \in Nat /\ replies[x] \in Seq(Answers) BY ServeFacts
<1>2. ~(replies'[r] = replies[r]) BY <1>1
<1>3. replies' # replies BY <1>2
<1>4. ASSUME NEW x \in Ids, NEW a \in Answers, Answer(x, a), received' = received
      PROVE  x = r /\ replies'[r] = Append(replies[r], a)
  <2>1. Ids' = Ids BY <1>4 DEF Ids
  <2> QED BY <2>1, <1>2, <1>4, AnswerAdds
<1>5. ASSUME NEW c \in Conns, NEW k \in 1..MaxChunk, NEW bodies \in [1..k -> Requests],
             DataEvent(c, bodies)
      PROVE  FALSE
  <2>1. k \in Nat \ {0} BY BoundAssumption
  <2> QED BY <2>1, <1>2, <1>5, DataEventServes
<1>6. ASSUME NEW x \in Ids, RefuseIdentify(x) PROVE FALSE
  <2>1. PICK a \in {Exception(1), Exception(3)} : Answer(x, a) BY <1>6 DEF RefuseIdentify
  <2>2. a \in Answers /\ received' = received /\ Refused(Body(x))
    BY <1>6 DEF Answers, Exception, RefuseIdentify, Take
  <2>3. x = r BY <2>1, <2>2, <1>4
  <2> QED BY <2>2, <2>3 DEF Reads, Refused
<1>7. ASSUME Handler, body.kind \notin Reads PROVE FALSE
  <2>1. stage # "loop" /\ received' = received
    BY <1>7 DEF Handler, Read, ReadHolding, WriteSingleCoil, WriteSingleRegister,
         WriteMultipleRegisters, Identify, WriteMultipleCoils, FillCoils, Acknowledge, Serving
  <2>2. current \in Ids BY <2>1, ServeFacts
  <2>3. CASE ServeAnswers
    <3>1. PICK a \in Answers : Answer(current, a) BY <2>3 DEF ServeAnswers
    <3>2. current = r BY <3>1, <2>1, <2>2, <1>4
    <3> QED BY <3>2, <1>7
  <2> QED BY <2>3, <1>3, <1>7, HandlerShapes
          DEF ServeThrows, ServeHandsOn, ServeStores, WriteMultipleCoils
<1>8. CASE Handler /\ body.kind \in Reads
  <2>1. /\ stage = "pre" /\ received' = received
        /\ Answer(current, Slice(table[TableOf(body)], body))
    <3>1. CASE Read BY <3>1, <1>3 DEF Read, Serving, Reply, Throw
    <3>2. CASE ReadHolding
      BY <3>2, <1>3 DEF ReadHolding, Serving, Reply, Throw, TableOf
    <3>3. CASE FillCoils \/ Acknowledge
      BY <3>3, <1>8 DEF FillCoils, Acknowledge, ServeInv, HandlerInvs, StageInv, Reads
    <3> QED BY <3>1, <3>2, <3>3, <1>8
            DEF Handler, WriteSingleCoil, WriteSingleRegister, WriteMultipleRegisters, Identify,
                WriteMultipleCoils, Serving, Reads
  <2>2. current \in Ids /\ body \in Requests /\ Begins(body) /\ body.kind # "identify"
    BY <2>1, <1>8, ServeFacts DEF ServeInv, HandlerInvs, StageInv, Reads
  <2>3. TableOf(body) \in Tables BY <2>2 DEF Begins
  <2>4. Slice(table[TableOf(body)], body) \in Answers
    BY <2>2, <2>3, SliceShows DEF TablesType
  <2>5. current = r /\ replies'[r] = Append(replies[r], Slice(table[TableOf(body)], body))
    BY <2>1, <2>2, <2>4, <1>4
  <2> QED BY <2>5
<1> QED BY <1>3, <1>5, <1>6, <1>7, <1>8
        DEF Next, vars, OtherUnit, HandToListener, Begin, LoopEnds, HandleReturns, HookThrows,
            AppWrite, ListenerAnswers

\* A read of a table answers with the cells as they were meant to be, cut off at
\* the end of the table.
THEOREM ReadsAreTrue == Spec => ReadsSeeUpdates
<1> DEFINE Sees(r) ==
      LET body == Body(r)
          t == TableOf(body)
          existing == Addressed(body) \cap Cells(t)
      IN body.kind \in Reads /\ t \in Tables /\ Len(replies'[r]) > Len(replies[r]) =>
           /\ Len(Last(replies'[r]).vals) = Cardinality(existing)
           /\ \A a \in existing \ clobbered :
                Last(replies'[r]).vals[a - body.at + 1] = Meant(t, a)
<1>1. ASSUME SMInv, [Next]_vars, NEW r \in Ids PROVE Sees(r)
  <2> DEFINE body == Body(r)
             t == TableOf(body)
             existing == Addressed(body) \cap Cells(t)
             slice == Slice(table[t], body)
  <2> SUFFICES ASSUME body.kind \in Reads, t \in Tables, Len(replies'[r]) > Len(replies[r])
               PROVE  /\ Len(Last(replies'[r]).vals) = Cardinality(existing)
                      /\ \A a \in existing \ clobbered :
                           Last(replies'[r]).vals[a - body.at + 1] = Meant(t, a)
    OBVIOUS
  <2>1. ServeInv /\ TablesType /\ LostUpdateHasCause BY <1>1 DEF SMInv, MemoryInv
  <2>2. body \in Requests /\ replies[r] \in Seq(Answers) BY <2>1, ServeFacts
  <2>3. table[t] \in Contents(t) /\ DOMAIN table[t] = Cells(t)
    BY <2>1 DEF TablesType, Contents
  <2>4. /\ slice \in Answers /\ Len(slice.vals) = Existing(table[t], body)
        /\ \A a \in existing : slice.vals[a - body.at + 1] = table[t][a]
    BY <2>2, <2>3, SliceShows
  <2>5. replies'[r] = Append(replies[r], slice) BY <2>1, <1>1, ReadsAnswerSlices
  <2> HIDE DEF slice
  <2>6. Last(replies'[r]) = slice
    <3>1. /\ Len(replies'[r]) = Len(replies[r]) + 1
          /\ replies'[r][Len(replies[r]) + 1] = slice
      BY <2>2, <2>4, <2>5, AppendProperties
    <3> QED BY <3>1 DEF Last
  <2>7. \A a \in Cells(t) : a \notin clobbered => table[t][a] = Meant(t, a)
    BY <2>1 DEF LostUpdateHasCause
  <2> QED BY <2>3, <2>4, <2>6, <2>7 DEF Existing
<1>2. ASSUME SMInv, [Next]_vars PROVE [\A r \in Ids : Sees(r)]_vars BY <1>1, <1>2
<1>3. SMInv /\ [Next]_vars => [\A r \in Ids : Sees(r)]_vars BY <1>2
<1>4. Spec => [][\A r \in Ids : Sees(r)]_vars BY <1>3, ServerInvariant, PTL DEF Spec
<1> QED BY <1>4 DEF ReadsSeeUpdates
=============================================================================
