--------------------- MODULE ClientRequestHandlerProofs ---------------------
(* The request line of ClientRequestHandler, proved for every MaxRequests,   *)
(* MaxInbox, FC and Noise: each handler preserves the inductive invariant    *)
(* IInv.  TcpClientProofs and RtuClientProofs combine these lemmas into      *)
(* theorems about the two clients.                                           *)
EXTENDS ClientRequestHandler, SequenceTheorems, TLAPS

-----------------------------------------------------------------------------
(* The operators on a line.                                                  *)

\* Settling any promise with an outcome keeps the function well typed, and
\* changes nothing but pending promises of the given set.
LEMMA SettleAllType ==
  ASSUME NEW out \in [Req -> Outcomes], NEW S, NEW how \in Outcomes
  PROVE  /\ SettleAll(out, S, how) \in [Req -> Outcomes]
         /\ \A r \in Req : SettleAll(out, S, how)[r] =
                             IF r \in S /\ out[r] = "pending" THEN how ELSE out[r]
BY DEF SettleAll

\* Rejecting or resolving the request in service leaves a well-formed queue,
\* whether the request then stays in service or is cleared.
LEMMA SettleCurrent ==
  ASSUME NEW n \in Nat, NEW cur, NEW q, NEW out, n <= MaxRequests,
         cur \in 0..n, Waiting(n, cur, q, out),
         NEW how \in Outcomes \ {"none", "pending"}
  PROVE  /\ Waiting(n, cur, q, Settle(out, cur, how))
         /\ Waiting(n, None, q, Settle(out, cur, how))
<1> DEFINE res == Settle(out, cur, how)
<1>1. out \in [Req -> Outcomes] /\ q \in Seq(1..n) BY DEF Waiting
<1>2. /\ res \in [Req -> Outcomes]
      /\ \A r \in Req : res[r] = IF r = cur /\ out[r] = "pending" THEN how ELSE out[r]
  BY <1>1, SettleAllType DEF Settle
<1>3. \A i \in 1..Len(q) : q[i] \in Req /\ q[i] \in 1..n
  BY <1>1, BoundsAssumption, ElementOfSeq DEF Req
<1> HIDE DEF res
<1>4. \A i \in 1..Len(q) : cur < q[i] /\ None < q[i] /\ res[q[i]] = "pending"
  BY <1>2, <1>3 DEF Waiting, None
<1>5. \A r \in Req : /\ res[r] = "none" <=> r > n
                     /\ res[r] = "pending" => \E i \in 1..Len(q) : q[i] = r
  BY <1>2 DEF Waiting
<1> QED BY <1>1, <1>2, <1>4, <1>5 DEF Waiting, res

\* A request that registers joins the end of a well-formed queue.
LEMMA JoinQueue ==
  ASSUME NEW n \in Nat, NEW cur, NEW q, NEW out, n < MaxRequests,
         cur \in 0..n, Waiting(n, cur, q, out)
  PROVE  Waiting(n + 1, cur, Append(q, n + 1), [out EXCEPT ![n + 1] = "pending"])
<1> DEFINE m == n + 1
           res == [out EXCEPT ![m] = "pending"]
           a == Append(q, m)
<1>1. out \in [Req -> Outcomes] /\ q \in Seq(1..n) BY DEF Waiting
<1>2. m \in Req /\ m \in 1..m BY BoundsAssumption DEF Req
<1>3. /\ res \in [Req -> Outcomes]
      /\ \A r \in Req : res[r] = IF r = m THEN "pending" ELSE out[r]
  BY <1>1, <1>2 DEF Outcomes
<1>4. q \in Seq(1..m) BY <1>1, SeqMonotonic, 1..n \subseteq 1..m
<1>5. /\ a \in Seq(1..m) /\ Len(a) = Len(q) + 1
      /\ \A i \in 1..Len(q) : a[i] = q[i]
      /\ a[Len(q) + 1] = m
  BY <1>2, <1>4, AppendProperties
<1>6. \A i \in 1..Len(q) : q[i] \in 1..n /\ q[i] \in Req /\ q[i] < m
  BY <1>1, ElementOfSeq, BoundsAssumption DEF Req
<1>7. Len(q) \in Nat BY <1>1, LenProperties
<1> HIDE DEF a, res
<1>8. \A i, j \in 1..Len(a) : i < j => a[i] < a[j]
  <2> TAKE i, j \in 1..Len(a)
  <2> HAVE i < j
  <2>1. i \in 1..Len(q) /\ a[i] = q[i] BY <1>5, <1>7
  <2>2. CASE j \in 1..Len(q) BY <2>1, <2>2, <1>5 DEF Waiting
  <2>3. CASE j = Len(q) + 1 BY <2>1, <2>3, <1>5, <1>6
  <2> QED BY <2>2, <2>3, <1>5, <1>7
<1>9. \A i \in 1..Len(a) : cur < a[i] /\ res[a[i]] = "pending"
  <2> TAKE i \in 1..Len(a)
  <2>1. CASE i \in 1..Len(q)
    <3>1. a[i] = q[i] /\ q[i] # m /\ q[i] \in Req BY <2>1, <1>5, <1>6
    <3>2. cur < q[i] /\ out[q[i]] = "pending" BY <2>1 DEF Waiting
    <3> QED BY <3>1, <3>2, <1>3
  <2>2. CASE i = Len(q) + 1 BY <2>2, <1>2, <1>3, <1>5
  <2> QED BY <2>1, <2>2, <1>5, <1>7
<1>10. \A r \in Req : /\ res[r] = "none" <=> r > m
                      /\ res[r] = "pending" => r = cur \/ \E i \in 1..Len(a) : a[i] = r
  <2> TAKE r \in Req
  <2>1. r \in Nat BY BoundsAssumption DEF Req
  <2>2. res[r] = "none" <=> r > m BY <1>3, <2>1 DEF Waiting
  <2>3. ASSUME res[r] = "pending", r # cur
        PROVE  \E i \in 1..Len(a) : a[i] = r
    <3>1. CASE r = m BY <3>1, <1>5, <1>7
    <3>2. CASE r # m BY <3>2, <2>3, <1>3, <1>5, <1>7 DEF Waiting
    <3> QED BY <3>1, <3>2
  <2> QED BY <2>2, <2>3
<1> QED BY <1>3, <1>5, <1>8, <1>9, <1>10 DEF Waiting, a, res

\* _flush, called with nobody in service and no timeout armed, leaves a
\* well-formed line.  Offline it may find one request at most.
LEMMA FlushLine ==
  ASSUME NEW n \in Nat, n <= MaxRequests, NEW q, NEW out, NEW imm \in Nat,
         Waiting(n, None, q, out), state \in {"online", "offline"},
         state = "offline" => Len(q) <= 1, delivered \subseteq 1..n,
         Flush(q, out, {}, imm)
  PROVE  /\ LineInv(n, current', requests', outcome', timers')
         /\ immediates' \in Nat /\ delivered' \subseteq 1..n
         /\ state = "offline" => current' = None
<1>1. out \in [Req -> Outcomes] /\ q \in Seq(1..n) /\ Len(q) \in Nat
  BY LenProperties DEF Waiting
<1>2. CASE q = <<>>
  <2>1. /\ current' = None /\ requests' = q /\ outcome' = out /\ timers' = {}
        /\ immediates' = imm /\ delivered' = delivered
    BY <1>2 DEF Flush
  <2> QED BY <2>1, <1>2 DEF LineInv, None
<1>3. CASE q # <<>>
  <2>1. /\ Head(q) \in 1..n /\ Tail(q) \in Seq(1..n)
        /\ Len(q) > 0 /\ Len(Tail(q)) = Len(q) - 1 /\ Head(q) = q[1]
        /\ \A i \in 1..Len(Tail(q)) : Tail(q)[i] = q[i + 1]
    BY <1>3, <1>1, HeadTailProperties, EmptySeq
  <2>2. Head(q) \in Req BY <2>1, BoundsAssumption DEF Req
  <2>3. \A i \in 1..Len(Tail(q)) : i + 1 \in 1..Len(q) /\ Tail(q)[i] = q[i + 1]
    BY <1>1, <2>1
  <2>4. \A i \in 1..Len(q) : i = 1 \/ (i - 1 \in 1..Len(Tail(q)) /\ q[i] = Tail(q)[i - 1])
    BY <1>1, <2>1
  <2>5. Waiting(n, Head(q), Tail(q), out)
    <3>1. \A i, j \in 1..Len(Tail(q)) : i < j => Tail(q)[i] < Tail(q)[j]
      BY <1>1, <2>1, <2>3 DEF Waiting
    <3>2. \A i \in 1..Len(Tail(q)) : Head(q) < Tail(q)[i] /\ out[Tail(q)[i]] = "pending"
      BY <1>1, <2>1, <2>3 DEF Waiting
    <3>3. ASSUME NEW r \in Req
          PROVE  /\ out[r] = "none" <=> r > n
                 /\ out[r] = "pending" =>
                      r = Head(q) \/ \E i \in 1..Len(Tail(q)) : Tail(q)[i] = r
      <4>1. out[r] = "none" <=> r > n BY DEF Waiting
      <4>2. ASSUME out[r] = "pending", r # Head(q)
            PROVE  \E i \in 1..Len(Tail(q)) : Tail(q)[i] = r
        <5>1. r # None BY BoundsAssumption DEF Req, None
        <5>2. PICK i \in 1..Len(q) : q[i] = r BY <4>2, <5>1 DEF Waiting
        <5> QED BY <5>2, <4>2, <2>1, <2>4
      <4> QED BY <4>1, <4>2
    <3> QED BY <1>1, <2>1, <3>1, <3>2, <3>3 DEF Waiting
  <2>6. CASE state = "online"
    <3>1. /\ current' = Head(q) /\ requests' = Tail(q) /\ outcome' = out
          /\ timers' = {Head(q)} /\ immediates' = imm
          /\ delivered' = delivered \/ delivered' = delivered \cup {Head(q)}
      BY <1>3, <2>6 DEF Flush
    <3>2. delivered' \subseteq 1..n BY <2>1, <3>1
    <3>3. timers' = {current'} \ {None} /\ current' # None /\ current' \in 0..n
      BY <2>1, <3>1 DEF None
    <3> QED BY <2>5, <2>6, <3>1, <3>2, <3>3 DEF LineInv
  <2>7. CASE state = "offline"
    <3>1. Tail(q) = <<>>
      <4>1. Len(Tail(q)) = 0 /\ Tail(q) \in Seq(1..n) BY <1>1, <2>1, <2>7
      <4> QED BY <4>1, EmptySeq
    <3>2. Waiting(n, None, Tail(q), Settle(out, Head(q), "Offline"))
      BY <2>1, <2>5, SettleCurrent DEF Outcomes, Errors
    <3>3. /\ current' = None /\ requests' = Tail(q) /\ timers' = {}
          /\ outcome' = Settle(out, Head(q), "Offline") /\ immediates' = imm + 1
          /\ UNCHANGED delivered
      BY <1>3, <2>7 DEF Flush
    <3> QED BY <3>1, <3>2, <3>3 DEF LineInv, None
  <2> QED BY <2>6, <2>7
<1> QED BY <1>2, <1>3

\* _clearAllRequests leaves an empty line and no pending promise.
LEMMA ClearLine ==
  ASSUME NEW n \in Nat, n <= MaxRequests, NEW how \in Outcomes \ {"none", "pending"},
         LineInv(n, current, requests, outcome, timers), ClearAllRequests(how)
  PROVE  /\ LineInv(n, current', requests', outcome', timers')
         /\ current' = None /\ UNCHANGED immediates
<1> DEFINE mid == Settle(outcome, current, how)
<1>1. Waiting(n, None, requests, mid) BY SettleCurrent DEF LineInv
<1>2. mid \in [Req -> Outcomes] /\ requests \in Seq(1..n) BY <1>1 DEF Waiting
<1>3. \A r \in Req : mid[r] = "pending" => r \in Range(requests)
  <2> TAKE r \in Req
  <2> HAVE mid[r] = "pending"
  <2>1. r # None BY BoundsAssumption DEF Req, None
  <2>2. PICK i \in 1..Len(requests) : requests[i] = r BY <1>1, <2>1 DEF Waiting
  <2> QED BY <2>2, <1>2, RangeEquality
<1>4. \A r \in Req : mid[r] = "none" <=> r > n BY <1>1 DEF Waiting
<1> HIDE DEF mid
<1>5. /\ outcome' \in [Req -> Outcomes]
      /\ \A r \in Req : outcome'[r] # "pending" /\ (outcome'[r] = "none" <=> r > n)
  <2>1. outcome' = SettleAll(mid, Range(requests), "OutOfSync")
    BY DEF ClearAllRequests, mid
  <2>2. "OutOfSync" \in Outcomes BY DEF Outcomes, Errors
  <2> QED BY <2>1, <2>2, <1>2, <1>3, <1>4, SettleAllType
<1>6. requests' = <<>> /\ current' = None /\ timers' = {} /\ UNCHANGED immediates
  BY DEF ClearAllRequests, LineInv
<1>7. <<>> \in Seq(1..n) /\ Len(<<>>) = 0 BY EmptySeq
<1> QED BY <1>5, <1>6, <1>7 DEF LineInv, Waiting, None

-----------------------------------------------------------------------------
(* The handlers.  IInv falls into what a flush or a rejection can disturb    *)
(* (Core) and the rest of the types (Env).                                   *)

Env == /\ state \in {"online", "offline"} /\ link \in {"up", "down"}
       /\ draining \in BOOLEAN
       /\ issued \in Seq(FC) /\ Registered <= MaxRequests
       /\ answeredBy \in [Req -> Req \cup {None}]
       /\ inbox \in Seq(Response) /\ messages \in Seq(Response)
Core == /\ LineInv(Registered, current, requests, outcome, timers)
        /\ immediates \in Nat /\ delivered \subseteq 1..Registered
        /\ state = "offline" => current = None

\* The components of a well-formed line have their types.
LEMMA LineTypes ==
  ASSUME NEW n \in Nat, n <= MaxRequests, NEW cur, NEW q, NEW out, NEW tm,
         LineInv(n, cur, q, out, tm)
  PROVE  /\ cur \in Req \cup {None} /\ q \in Seq(Req)
         /\ out \in [Req -> Outcomes] /\ tm \subseteq Req
<1>1. 1..n \subseteq Req BY BoundsAssumption DEF Req
<1>2. q \in Seq(Req) BY <1>1, SeqMonotonic DEF LineInv, Waiting
<1> QED BY <1>1, <1>2 DEF LineInv, Waiting, None

\* IInv is Env and Core, in this state and in the next.
LEMMA IInvParts ==
  /\ IInv => Env /\ Core
  /\ Env /\ Core => IInv
  /\ Env' /\ Core' => IInv'
<1>1. IInv => Env /\ Core BY DEF IInv, TypeOK, Env, Core
<1>2. Env => Registered \in Nat BY LenProperties DEF Env, Registered
<1>3. Env' => Registered' \in Nat BY LenProperties DEF Env, Registered
<1>4. Env /\ Core => IInv BY <1>2, LineTypes DEF IInv, TypeOK, Env, Core
<1>5. Env' /\ Core' => IInv' BY <1>3, LineTypes DEF IInv, TypeOK, Env, Core
<1> QED BY <1>1, <1>4, <1>5

\* In a state of IInv: the counter, and the line a handler starts from.
LEMMA InState ==
  ASSUME IInv
  PROVE  /\ Registered \in Nat /\ Registered <= MaxRequests /\ Env /\ Core
         /\ Waiting(Registered, current, requests, outcome)
         /\ current \in 0..Registered /\ timers \ {current} = {}
         /\ current = None => requests = <<>> /\ timers = {}
<1>1. Env /\ Core BY IInvParts
<1>2. Registered \in Nat BY <1>1, LenProperties DEF Env, Registered
<1> QED BY <1>1, <1>2 DEF Env, Core, LineInv

\* Ending the service of the current request: its promise settled with how,
\* the timeout stopped, the line flushed.
LEMMA EndService ==
  ASSUME IInv, current # None, NEW how \in Outcomes \ {"none", "pending"},
         UNCHANGED <<state, issued>>,
         Flush(requests, Settle(outcome, current, how), {}, immediates)
  PROVE  Core'
<1>1. Waiting(Registered, None, requests, Settle(outcome, current, how))
  BY InState, SettleCurrent
<1>2. state = "online" /\ state \in {"online", "offline"} BY InState DEF Core, Env
<1>3. immediates \in Nat /\ delivered \subseteq 1..Registered BY InState DEF Core
<1>4. Registered' = Registered BY DEF Registered
<1> HIDE DEF Core
<1>5. /\ LineInv(Registered, current', requests', outcome', timers')
      /\ immediates' \in Nat /\ delivered' \subseteq 1..Registered
  BY <1>1, <1>2, <1>3, InState, FlushLine
<1> QED BY <1>2, <1>4, <1>5 DEF Core

\* Register: the request joins the line, or is served or refused at once.
LEMMA RegisterIInv ==
  ASSUME IInv, NEW fc \in FC, Register(fc)
  PROVE  IInv'
<1> DEFINE r == Registered + 1
           out == [outcome EXCEPT ![r] = "pending"]
<1>1. issued \in Seq(FC) /\ Registered < MaxRequests /\ Registered \in Nat
  BY InState DEF Register, Env
<1>2. issued' \in Seq(FC) /\ Registered' = r
  BY <1>1, AppendProperties DEF Register, Registered
<1>3. r \in Nat /\ r <= MaxRequests BY <1>1, BoundsAssumption
<1>4. Env' BY <1>2, <1>3, InState DEF Register, Env
<1>5. Waiting(r, current, Append(requests, r), out) BY <1>1, InState, JoinQueue
<1>6. immediates \in Nat /\ delivered \subseteq 1..Registered /\ delivered \subseteq 1..r
  BY <1>1, InState DEF Core
<1>7. state' = state /\ (state = "offline" => current = None) /\ state \in {"online", "offline"}
  BY InState DEF Core, Env, Register
<1>8. CASE current # None
  <2>1. /\ requests' = Append(requests, r) /\ outcome' = out
        /\ UNCHANGED <<current, timers, immediates, delivered>>
    BY <1>8 DEF Register
  <2>2. current \in 0..r /\ timers = {current} \ {None}
    BY <1>1, InState DEF Core, LineInv
  <2>3. LineInv(r, current', requests', outcome', timers')
    BY <1>5, <1>8, <2>1, <2>2 DEF LineInv
  <2>4. Core' BY <2>1, <2>3, <1>2, <1>6, <1>7 DEF Core
  <2> QED BY <2>4, <1>4, IInvParts
<1>9. CASE current = None
  <2>1. Flush(Append(requests, r), out, {}, immediates)
    BY <1>9, InState DEF Register
  <2>2. requests = <<>> BY <1>9, InState
  <2>3. Len(Append(requests, r)) <= 1
    BY <2>2, <1>1, AppendProperties, EmptySeq
  <2>4. Waiting(r, None, Append(requests, r), out) BY <1>5, <1>9
  <2>5. /\ LineInv(r, current', requests', outcome', timers')
        /\ immediates' \in Nat /\ delivered' \subseteq 1..r
        /\ state = "offline" => current' = None
    BY <2>1, <2>3, <2>4, <1>6, <1>7, <1>3, FlushLine
  <2>6. Core' BY <2>5, <1>2, <1>7 DEF Core
  <2> QED BY <2>6, <1>4, IInvParts
<1> QED BY <1>8, <1>9

\* Rejecting the current request by hand, or with a custom error: the promise
\* settles, the request stays in service with its timeout.
LEMMA RejectCurrentIInv ==
  ASSUME IInv, ManuallyRejectCurrentRequest \/ CustomErrorRequest
  PROVE  IInv'
<1>1. PICK how \in Outcomes \ {"none", "pending"} :
        outcome' = Settle(outcome, current, how)
  BY DEF ManuallyRejectCurrentRequest, CustomErrorRequest, Outcomes, Errors
<1>2. UNCHANGED <<state, current, requests, timers, immediates, answeredBy,
                  issued, network, messages, draining>>
  BY DEF ManuallyRejectCurrentRequest, CustomErrorRequest
<1>3. Waiting(Registered, current, requests, outcome')
  BY <1>1, InState, SettleCurrent
<1>4. Core' BY <1>2, <1>3, InState DEF Core, LineInv, Registered, network
<1>5. Env' BY <1>2, InState DEF Env, Registered, network
<1> QED BY <1>4, <1>5, IInvParts

\* A timeout is always the current request's: clearing the current request in
\* its callback clears the request that timed out.
LEMMA TimeoutIInv ==
  ASSUME IInv, NEW r \in Req, TimeoutFires(r)
  PROVE  IInv'
<1>1. r = current /\ current # None
  BY InState DEF Core, LineInv, TimeoutFires
<1>2. timers \ {r, current} = {} BY InState
<1>3. /\ Flush(requests, Settle(outcome, current, "Timeout"), {}, immediates)
      /\ UNCHANGED <<state, issued>>
  BY <1>1, <1>2 DEF TimeoutFires
<1>4. Core' BY <1>1, <1>3, EndService DEF Outcomes, Errors
<1>5. Env' BY InState DEF Env, TimeoutFires, Registered
<1> QED BY <1>4, <1>5, IInvParts

\* A scheduled _flush finds a request in service or an empty queue.
LEMMA ImmediateIInv ==
  ASSUME IInv, ImmediateFires
  PROVE  IInv'
<1>1. immediates \in Nat /\ immediates > 0 BY InState DEF Core, ImmediateFires
<1>2. current = None => requests = <<>> BY InState
<1>3. /\ UNCHANGED <<state, current, requests, outcome, timers, issued, delivered>>
      /\ immediates' = immediates - 1
  BY <1>2 DEF ImmediateFires, Flush
<1>4. Core'
  <2>1. Registered' = Registered BY <1>3 DEF Registered
  <2>2. LineInv(Registered, current, requests, outcome, timers)'
    BY <1>3, <2>1, InState DEF Core
  <2> QED BY <1>1, <1>3, <2>1, <2>2, InState DEF Core
<1>5. Env' BY InState DEF Env, ImmediateFires, Registered
<1> QED BY <1>4, <1>5, IInvParts

\* The handler's part of IInv rests on these variables only.
LEMMA LineUnchanged ==
  ASSUME IInv, UNCHANGED <<current, requests, outcome, timers, immediates, issued>>,
         delivered' \subseteq delivered, state' = "online" \/ state' = state
  PROVE  Core'
<1>1. Registered' = Registered BY DEF Registered
<1>2. LineInv(Registered, current, requests, outcome, timers)' BY <1>1, InState DEF Core
<1> QED BY <1>1, <1>2, InState DEF Core

\* The socket connects; responses are sent; a data event or its loop ends.
LEMMA EnvironmentIInv ==
  ASSUME IInv,
         \/ LinkUp \/ PeerStep \/ DataStep
  PROVE  IInv'
<1>1. CASE LinkUp
  <2>1. Core' BY <1>1, LineUnchanged DEF LinkUp
  <2>2. Env' BY <1>1, InState DEF LinkUp, Env, Registered
  <2> QED BY <2>1, <2>2, IInvParts
<1>2. ASSUME NEW res \in Response, Send(res), delivered' \subseteq delivered
      PROVE  IInv'
  <2>1. Core' BY <1>2, LineUnchanged DEF Send, handler
  <2>2. inbox' \in Seq(Response)
    BY <1>2, InState, AppendProperties DEF Send, Env
  <2>3. Env' BY <1>2, <2>2, InState DEF Send, handler, Env, Registered
  <2> QED BY <2>1, <2>3, IInvParts
<1>3. CASE PeerStep
  <2>1. ASSUME NEW r \in Req, NEW kind \in Kinds, Answer(r, kind) PROVE IInv'
    <3>1. r \in 1..Len(issued)
      BY <2>1, InState DEF Answer, Core, Registered
    <3>2. issued[r] \in FC BY <3>1, InState, ElementOfSeq DEF Env
    <3>3. [origin |-> r, fc |-> issued[r], kind |-> kind, envelope |-> "good"] \in Response
      BY <3>2 DEF Response
    <3> QED BY <2>1, <3>3, <1>2 DEF Answer
  <2>2. ASSUME NEW f \in Noise, Misbehave(f) PROVE IInv'
    BY <2>2, <1>2, NoiseAssumption DEF Misbehave
  <2> QED BY <1>3, <2>1, <2>2 DEF PeerStep
<1>4. ASSUME NEW k \in 0..Len(inbox), DataEvent(k) PROVE IInv'
  <2>1. Core' BY <1>4, LineUnchanged DEF DataEvent, handler
  <2>2. inbox \in Seq(Response) /\ messages \in Seq(Response) /\ Len(inbox) \in Nat
    BY InState, LenProperties DEF Env
  <2>3. \A i \in 1..k : inbox[i] \in Response
    BY <2>2, <1>4, ElementOfSeq
  <2>4. \A i \in (k + 1)..Len(inbox) : inbox[i] \in Response
    BY <2>2, <1>4, ElementOfSeq
  <2>5. SubSeq(inbox, 1, k) \in Seq(Response)
    BY <2>2, <2>3, <1>4, SubSeqProperties, k \in Int
  <2>6. SubSeq(inbox, k + 1, Len(inbox)) \in Seq(Response)
    BY <2>2, <2>4, <1>4, SubSeqProperties, k + 1 \in Int
  <2>7. messages \o SubSeq(inbox, 1, k) \in Seq(Response)
    BY <2>2, <2>5, ConcatProperties
  <2>8. Env' BY <1>4, <2>6, <2>7, InState DEF DataEvent, handler, Env, Registered
  <2> QED BY <2>1, <2>8, IInvParts
<1>5. CASE DrainEnds
  <2>1. Core' BY <1>5, LineUnchanged DEF DrainEnds, handler, network
  <2>2. Env' BY <1>5, InState DEF DrainEnds, handler, network, Env, Registered
  <2> QED BY <2>1, <2>2, IInvParts
<1>6. CASE IgnoreResponse
  <2>1. Core' BY <1>6, LineUnchanged DEF IgnoreResponse, Handling
  <2>2. messages' \in Seq(Response)
    BY <1>6, InState, HeadTailProperties DEF IgnoreResponse, Handling, Env
  <2>3. Env' BY <1>6, <2>2, InState DEF IgnoreResponse, Handling, Env, Registered
  <2> QED BY <2>1, <2>3, IInvParts
<1> QED BY <1>1, <1>3, <1>4, <1>5, <1>6 DEF DataStep

\* A response that fails a check: the line is given up.
LEMMA DesynchroniseIInv ==
  ASSUME IInv, Handling, NEW how \in Outcomes \ {"none", "pending"}, Desynchronise(how)
  PROVE  IInv'
<1>1. LineInv(Registered, current', requests', outcome', timers')
      /\ current' = None /\ UNCHANGED immediates
  BY InState, ClearLine DEF Core, Desynchronise
<1>2. UNCHANGED <<state, link, issued, answeredBy, delivered, draining, inbox>>
  BY DEF Handling, Desynchronise
<1>3. Registered' = Registered BY <1>2 DEF Registered
<1>4. Core' BY <1>1, <1>2, <1>3, InState DEF Core
<1>5. messages' \in Seq(Response)
  BY InState, HeadTailProperties DEF Handling, Env
<1>6. Env' BY <1>2, <1>3, <1>5, InState DEF Env
<1> QED BY <1>4, <1>6, IInvParts

\* A response the transport has accepted.
LEMMA HandleIInv ==
  ASSUME IInv, Handling, InService, Handle
  PROVE  IInv'
<1>1. messages' \in Seq(Response) /\ response \in Response
  BY InState, HeadTailProperties DEF Handling, Env, response
<1>2. UNCHANGED <<state, issued, link, inbox>> /\ Registered' = Registered
  BY DEF Handling, Registered
<1>3. current # None /\ current \in Req
  BY InState, BoundsAssumption DEF InService, Req, None
<1>4. ASSUME NEW how \in Outcomes \ {"none", "pending"}, Finish(how)
      PROVE  IInv'
  <2>1. timers \ {current} = {} BY InState
  <2>2. Core' BY <1>2, <1>3, <1>4, <2>1, EndService DEF Finish
  <2>3. response.origin \in Req \cup {None} BY <1>1 DEF Response
  <2>4. answeredBy' \in [Req -> Req \cup {None}]
    BY <1>3, <1>4, <2>3, InState DEF Env, Finish
  <2>5. Env' BY <1>1, <1>2, <1>4, <2>4, InState DEF Env, Finish
  <2> QED BY <2>2, <2>5, IInvParts
<1>5. CASE FcMismatch
  BY <1>5, DesynchroniseIInv DEF FcMismatch, Outcomes, Errors
<1>6. CASE ExceptionResponse
  BY <1>6, <1>4 DEF ExceptionResponse, Outcomes, Errors
<1>7. CASE UnknownException
  <2>1. Core' BY <1>2, <1>7, LineUnchanged DEF UnknownException
  <2>2. Env' BY <1>1, <1>2, <1>7, InState DEF UnknownException, Env
  <2> QED BY <2>1, <2>2, IInvParts
<1>8. CASE NormalResponse
  BY <1>8, <1>4 DEF NormalResponse, Outcomes
<1> QED BY <1>5, <1>6, <1>7, <1>8 DEF Handle

-----------------------------------------------------------------------------
(* What both clients do.                                                     *)

LEMMA InitIInv ==
  ASSUME Init, state \in {"online", "offline"}
  PROVE  IInv
<1>1. /\ <<>> \in Seq(1..0) /\ <<>> \in Seq(FC) /\ <<>> \in Seq(Response)
      /\ Len(<<>>) = 0
  BY EmptySeq
<1>2. Registered = 0 BY <1>1 DEF Init, Registered
<1>3. outcome \in [Req -> Outcomes] /\ \A r \in Req : outcome[r] = "none" /\ r > 0
  BY BoundsAssumption DEF Init, Outcomes, Req
<1>4. LineInv(0, current, requests, outcome, timers)
  BY <1>1, <1>3 DEF Init, LineInv, Waiting, None
<1>5. Core BY <1>2, <1>4 DEF Core, Init
<1>6. Env
  <2>1. answeredBy \in [Req -> Req \cup {None}] BY DEF Init
  <2>2. issued \in Seq(FC) /\ inbox \in Seq(Response) /\ messages \in Seq(Response)
    BY <1>1 DEF Init
  <2>3. link \in {"up", "down"} /\ draining \in BOOLEAN BY DEF Init
  <2>4. Registered <= MaxRequests BY <1>2, BoundsAssumption
  <2> QED BY <2>1, <2>2, <2>3, <2>4 DEF Env
<1> QED BY <1>5, <1>6, IInvParts

\* Every step that does not depend on the transport preserves IInv, stuttering
\* included.
LEMMA SharedStepIInv ==
  ASSUME IInv, UserStep \/ TimerStep \/ PeerStep \/ DataStep \/ LinkUp \/ UNCHANGED vars
  PROVE  IInv'
<1>1. CASE UserStep
  BY <1>1, RegisterIInv, RejectCurrentIInv DEF UserStep, ManuallyRejectRequests
<1>2. CASE TimerStep
  BY <1>2, ImmediateIInv, TimeoutIInv DEF TimerStep
<1>3. CASE PeerStep \/ DataStep \/ LinkUp
  BY <1>3, EnvironmentIInv
<1>4. CASE UNCHANGED vars
  <2>1. Core' BY <1>4, LineUnchanged DEF vars, handler, network
  <2>2. Env' BY <1>4, InState DEF vars, handler, network, Env, Registered
  <2> QED BY <2>1, <2>2, IInvParts
<1> QED BY <1>1, <1>2, <1>3, <1>4

\* IInv implies the safety properties of the request line.
LEMMA IInvImplies ==
  ASSUME IInv
  PROVE  TypeOK /\ OneInFlight /\ NoStall /\ NoOrphan /\ OfflineIdle
<1>1. TypeOK /\ OneInFlight /\ NoStall BY DEF IInv, LineInv, OneInFlight, NoStall
<1>2. requests \in Seq(Req) /\ current \in Req \cup {None} BY <1>1 DEF TypeOK
<1>3. Line = requests \/ (current # None /\ Line = <<current>> \o requests)
  BY <1>2, ConcatEmptySeq DEF Line
<1>4. NoOrphan
  <2> SUFFICES ASSUME NEW r \in Req, outcome[r] = "pending" PROVE r \in Range(Line)
    BY DEF NoOrphan
  <2>1. r = current \/ \E i \in 1..Len(requests) : requests[i] = r
    BY DEF IInv, LineInv, Waiting
  <2>2. r # None BY BoundsAssumption DEF Req, None
  <2>3. CASE current = None
    BY <2>1, <2>2, <2>3, <1>2, ConcatEmptySeq, RangeEquality DEF Line
  <2>4. CASE current # None
    <3>1. <<current>> \in Seq(Req) /\ Range(<<current>>) = {current}
      BY <2>4, <1>2 DEF Range
    <3>2. Range(Line) = {current} \cup Range(requests)
      <4> DEFINE first == <<current>>
      <4>1. Line = first \o requests /\ first \in Seq(Req) /\ Range(first) = {current}
        BY <2>4, <3>1 DEF Line
      <4> HIDE DEF first
      <4> QED BY <4>1, <1>2, RangeConcatenation
    <3> QED BY <3>2, <2>1, <1>2, RangeEquality
  <2> QED BY <2>3, <2>4
<1>5. OfflineIdle
  BY <1>1, <1>2, ConcatEmptySeq DEF OfflineIdle, NoStall, Line, IInv
<1> QED BY <1>1, <1>4, <1>5

-----------------------------------------------------------------------------
(* The request line implements RequestLine: every shared handler is a step   *)
(* of the abstract line, or leaves it alone.                                 *)

AbstractStep == [Abstract!LineNext]_(Abstract!lineVars)

\* A sequence with a first element put in front.
LEMMA FirstInFront ==
  ASSUME NEW S, NEW c \in S, NEW q \in Seq(S)
  PROVE  /\ <<c>> \o q \in Seq(S) /\ <<c>> \o q # <<>>
         /\ Head(<<c>> \o q) = c /\ Tail(<<c>> \o q) = q
         /\ Range(<<c>> \o q) = {c} \cup Range(q)
         /\ \A r \in S : Append(<<c>> \o q, r) = <<c>> \o Append(q, r)
<1> DEFINE first == <<c>>
<1>1. first \in Seq(S) /\ Len(first) = 1 /\ first[1] = c /\ Range(first) = {c}
  BY DEF Range
<1>2. /\ <<c>> \o q # <<>> /\ Head(<<c>> \o q) = c /\ Tail(<<c>> \o q) = q
  OBVIOUS
<1>3. \A r \in S : Append(<<c>> \o q, r) = <<c>> \o Append(q, r)
  OBVIOUS
<1> HIDE DEF first
<1>4. first \o q \in Seq(S) /\ Range(first \o q) = {c} \cup Range(q)
  BY <1>1, ConcatProperties, RangeConcatenation
<1> QED BY <1>2, <1>3, <1>4 DEF first

\* A non-empty sequence is its head in front of its tail.
LEMMA HeadInFront ==
  ASSUME NEW S, NEW q \in Seq(S), q # <<>>
  PROVE  q = <<Head(q)>> \o Tail(q)
OBVIOUS

\* The line, with and without a request in service.
LEMMA LineShape ==
  ASSUME IInv
  PROVE  /\ current = None => Line = <<>> /\ requests = <<>>
         /\ current # None =>
              /\ Line \in Seq(Req) /\ Line # <<>>
              /\ Head(Line) = current /\ Tail(Line) = requests
              /\ Range(Line) = {current} \cup Range(requests)
<1>1. current \in Req \cup {None} /\ requests \in Seq(Req) BY IInvImplies DEF TypeOK
<1>2. CASE current = None BY <1>2, <1>1, InState, ConcatEmptySeq DEF Line
<1>3. CASE current # None
  <2>1. Line = <<current>> \o requests BY <1>3 DEF Line
  <2> QED BY <2>1, <1>1, <1>3, FirstInFront
<1> QED BY <1>2, <1>3

\* A flush serves the queue it finds: the line is that queue afterwards, or
\* empty when the client is offline and the queue held one request.
LEMMA FlushedLine ==
  ASSUME NEW q \in Seq(Req), NEW out, NEW tm, NEW imm, Flush(q, out, tm, imm)
  PROVE  /\ q = <<>> => Line' = <<>> /\ outcome' = out
         /\ q # <<>> /\ state = "online" => Line' = q /\ outcome' = out
         /\ q # <<>> /\ state = "offline" =>
              Line' = Tail(q) /\ outcome' = Settle(out, Head(q), "Offline")
<1>1. CASE q = <<>>
  BY <1>1, EmptySeq, ConcatEmptySeq DEF Flush, Line
<1>2. CASE q # <<>> /\ state = "offline"
  <2>1. Tail(q) \in Seq(Req) BY <1>2, HeadTailProperties
  <2>2. current' = None /\ requests' = Tail(q) /\ outcome' = Settle(out, Head(q), "Offline")
    BY <1>2 DEF Flush
  <2> QED BY <1>2, <2>1, <2>2, ConcatEmptySeq DEF Line
<1>3. CASE q # <<>> /\ state = "online"
  <2>1. current' = Head(q) /\ requests' = Tail(q) /\ outcome' = out BY <1>3 DEF Flush
  <2>2. Head(q) # None
    BY <1>3, HeadTailProperties, BoundsAssumption DEF Req, None
  <2>3. Line' = <<Head(q)>> \o Tail(q) BY <2>1, <2>2 DEF Line
  <2> QED BY <1>3, <2>1, <2>3, HeadInFront
<1> QED BY <1>1, <1>2, <1>3 DEF Flush

\* Settling the request in service puts it, and nothing else, among the settled.
LEMMA SettledGrows ==
  ASSUME IInv, current # None, NEW how \in Outcomes \ {"none", "pending"},
         outcome' = Settle(outcome, current, how)
  PROVE  Settled' = Settled \cup {current}
<1>1. current \in Req /\ outcome \in [Req -> Outcomes]
  BY IInvImplies DEF TypeOK
<1>2. outcome[current] # "none"
  <2>1. current \in Nat /\ current <= Registered BY InState, <1>1, BoundsAssumption DEF Req
  <2> QED BY <2>1, <1>1, InState DEF Waiting
<1>3. \A r \in Req : outcome'[r] =
        IF r = current /\ outcome[r] = "pending" THEN how ELSE outcome[r]
  BY <1>1, SettleAllType DEF Settle
<1> QED BY <1>1, <1>2, <1>3 DEF Settled

\* Ending the service of the current request is a Depart.
LEMMA EndServiceRefines ==
  ASSUME IInv, current # None, NEW how \in Outcomes \ {"none", "pending"},
         UNCHANGED <<state, issued>>,
         Flush(requests, Settle(outcome, current, how), {}, immediates)
  PROVE  AbstractStep
<1>1. requests \in Seq(Req) BY IInvImplies DEF TypeOK
<1>2. state = "online" BY InState DEF Core, Env
<1>3. Line' = requests /\ outcome' = Settle(outcome, current, how)
  BY <1>1, <1>2, FlushedLine
<1>4. Settled' = Settled \cup {current} BY <1>3, SettledGrows
<1>5. Abstract!Depart
  BY <1>3, <1>4, LineShape DEF Abstract!Depart, Registered
<1> QED BY <1>5 DEF AbstractStep, Abstract!LineNext

\* Giving up the line is a Collapse, or nothing when the line is empty.
LEMMA ClearRefines ==
  ASSUME IInv, NEW how \in Outcomes \ {"none", "pending"}, ClearAllRequests(how),
         UNCHANGED issued
  PROVE  AbstractStep
<1> DEFINE mid == Settle(outcome, current, how)
<1>1. /\ current \in Req \cup {None} /\ requests \in Seq(Req)
      /\ outcome \in [Req -> Outcomes]
  BY IInvImplies DEF TypeOK
<1>2. /\ mid \in [Req -> Outcomes]
      /\ \A r \in Req : mid[r] = IF r = current /\ outcome[r] = "pending"
                                 THEN how ELSE outcome[r]
  BY <1>1, SettleAllType DEF Settle
<1> HIDE DEF mid
<1>3. outcome' = SettleAll(mid, Range(requests), "OutOfSync")
  BY DEF ClearAllRequests, mid
<1>4. \A r \in Req : outcome'[r] =
        IF r \in Range(requests) /\ mid[r] = "pending" THEN "OutOfSync" ELSE mid[r]
  BY <1>2, <1>3, SettleAllType DEF Outcomes, Errors
<1>5. Line' = <<>> /\ Registered' = Registered
  BY EmptySeq, ConcatEmptySeq DEF ClearAllRequests, Line, Registered
<1>6. CASE current = None
  <2>1. requests = <<>> /\ Line = <<>> BY <1>6, LineShape
  <2>2. Range(requests) = {} BY <2>1, <1>1 DEF Range
  <2>3. \A r \in Req : r # current BY <1>6, BoundsAssumption DEF Req, None
  <2>4. \A r \in Req : outcome'[r] = outcome[r] BY <1>2, <1>4, <2>2, <2>3
  <2>5. Settled' = Settled BY <2>4 DEF Settled
  <2> QED BY <2>1, <2>5, <1>5 DEF AbstractStep, Abstract!lineVars
<1>7. CASE current # None
  <2>1. Range(Line) = {current} \cup Range(requests) /\ Range(Line) \subseteq Req
    BY <1>1, <1>7, LineShape, RangeOfSeq
  <2>2. outcome[current] # "none"
    <3>1. current \in Nat /\ current <= Registered BY <1>1, <1>7, InState, BoundsAssumption DEF Req
    <3> QED BY <3>1, <1>1, <1>7, InState DEF Waiting
  <2>3. \A r \in Range(requests) : outcome[r] = "pending"
    <3>1. Range(requests) = {requests[i] : i \in 1..Len(requests)}
      BY <1>1, RangeEquality
    <3> QED BY <3>1, InState DEF Waiting
  <2>4. Settled' = Settled \cup Range(Line)
    BY <1>2, <1>4, <2>1, <2>2, <2>3 DEF Settled
  <2>5. Abstract!Collapse
    BY <1>5, <1>7, <2>4, LineShape DEF Abstract!Collapse, Abstract!Range, Range
  <2> QED BY <2>5 DEF AbstractStep, Abstract!LineNext
<1> QED BY <1>6, <1>7

\* Register is a Submit, or a Refuse when the client is offline.
LEMMA RegisterRefines ==
  ASSUME IInv, NEW fc \in FC, Register(fc)
  PROVE  AbstractStep
<1> DEFINE r == Registered + 1
           out == [outcome EXCEPT ![r] = "pending"]
<1>1. /\ issued \in Seq(FC) /\ Registered < MaxRequests /\ Registered \in Nat
      /\ requests \in Seq(Req) /\ outcome \in [Req -> Outcomes]
      /\ current \in Req \cup {None}
  BY InState, IInvImplies DEF Register, TypeOK
<1>2. Registered' = r /\ r \in Req
  BY <1>1, AppendProperties, BoundsAssumption DEF Register, Registered, Req
<1>3. out \in [Req -> Outcomes]
      /\ \A p \in Req : out[p] = IF p = r THEN "pending" ELSE outcome[p]
  BY <1>1, <1>2 DEF Outcomes
<1>4. outcome[r] = "none" BY <1>1, <1>2, InState DEF Waiting
<1> HIDE DEF out
<1>5. ASSUME outcome' = out PROVE Settled' = Settled
  BY <1>2, <1>3, <1>4, <1>5 DEF Settled
<1>6. CASE current # None
  <2>1. outcome' = out /\ requests' = Append(requests, r) /\ current' = current
    BY <1>6 DEF Register, out
  <2>2. Line' = Append(Line, r)
    BY <1>1, <1>2, <1>6, <2>1, FirstInFront DEF Line
  <2>3. Abstract!Submit BY <1>1, <1>2, <1>5, <2>1, <2>2 DEF Abstract!Submit
  <2> QED BY <2>3 DEF AbstractStep, Abstract!LineNext
<1>7. CASE current = None
  <2>1. requests = <<>> /\ Line = <<>> BY <1>7, LineShape
  <2> DEFINE q == Append(requests, r)
  <2>2. /\ q \in Seq(Req) /\ q # <<>> /\ Head(q) = r /\ Tail(q) = <<>>
        /\ q = Append(Line, r)
    BY <2>1, <1>1, <1>2
  <2>3. Flush(q, out, timers, immediates) BY <1>7 DEF Register, out
  <2> HIDE DEF q
  <2>4. CASE state = "online"
    <3>1. Line' = q /\ outcome' = out BY <2>2, <2>3, <2>4, FlushedLine
    <3>2. Abstract!Submit BY <1>1, <1>2, <1>5, <2>2, <3>1 DEF Abstract!Submit
    <3> QED BY <3>2 DEF AbstractStep, Abstract!LineNext
  <2>5. CASE state = "offline"
    <3>1. Line' = <<>> /\ outcome' = Settle(out, r, "Offline")
      BY <2>2, <2>3, <2>5, FlushedLine
    <3>2. \A p \in Req : outcome'[p] = IF p = r THEN "Offline" ELSE outcome[p]
      BY <1>2, <1>3, <3>1, SettleAllType DEF Settle, Outcomes, Errors
    <3>3. Settled' = Settled \cup {r} BY <1>2, <3>2 DEF Settled
    <3>4. Abstract!Refuse BY <1>1, <1>2, <2>1, <3>1, <3>3 DEF Abstract!Refuse
    <3> QED BY <3>4 DEF AbstractStep, Abstract!LineNext
  <2> QED BY <2>4, <2>5, InState DEF Env
<1> QED BY <1>6, <1>7

\* Rejecting the current request by hand is a SettleEarly.
LEMMA RejectCurrentRefines ==
  ASSUME IInv, ManuallyRejectCurrentRequest \/ CustomErrorRequest
  PROVE  AbstractStep
<1>1. PICK how \in Outcomes \ {"none", "pending"} :
        outcome' = Settle(outcome, current, how)
  BY DEF ManuallyRejectCurrentRequest, CustomErrorRequest, Outcomes, Errors
<1>2. current # None /\ UNCHANGED <<current, requests, issued>>
  BY DEF ManuallyRejectCurrentRequest, CustomErrorRequest
<1>3. Settled' = Settled \cup {current} BY <1>1, <1>2, SettledGrows
<1>4. Line' = Line /\ Registered' = Registered BY <1>2 DEF Line, Registered
<1>5. Abstract!SettleEarly BY <1>2, <1>3, <1>4, LineShape DEF Abstract!SettleEarly
<1> QED BY <1>5 DEF AbstractStep, Abstract!LineNext

\* What leaves the handler's line and promises alone is a stuttering step.
LEMMA LineStutters ==
  ASSUME UNCHANGED <<current, requests, outcome, issued>>
  PROVE  AbstractStep
BY DEF AbstractStep, Abstract!lineVars, Line, Settled, Registered

\* Every step that does not depend on the transport.
LEMMA SharedStepRefines ==
  ASSUME IInv, UserStep \/ TimerStep \/ PeerStep \/ DataStep \/ LinkUp \/ UNCHANGED vars
  PROVE  AbstractStep
<1>1. CASE UserStep
  BY <1>1, RegisterRefines, RejectCurrentRefines DEF UserStep, ManuallyRejectRequests
<1>2. ASSUME NEW r \in Req, TimeoutFires(r) PROVE AbstractStep
  <2>1. r = current /\ current # None
    BY <1>2, InState DEF Core, LineInv, TimeoutFires
  <2>2. timers \ {r, current} = {} BY InState
  <2>3. /\ Flush(requests, Settle(outcome, current, "Timeout"), {}, immediates)
        /\ UNCHANGED <<state, issued>>
    BY <1>2, <2>1, <2>2 DEF TimeoutFires
  <2> QED BY <2>1, <2>3, EndServiceRefines DEF Outcomes, Errors
<1>3. CASE ImmediateFires
  <2>1. current = None => requests = <<>> BY InState
  <2>2. UNCHANGED <<current, requests, outcome, issued>>
    BY <1>3, <2>1 DEF ImmediateFires, Flush
  <2> QED BY <2>2, LineStutters
<1>4. CASE PeerStep \/ DataStep \/ LinkUp \/ UNCHANGED vars
  <2>1. UNCHANGED <<current, requests, outcome, issued>>
    BY <1>4 DEF PeerStep, Answer, Misbehave, Send, DataStep, DataEvent, DrainEnds,
       IgnoreResponse, Handling, LinkUp, vars, handler
  <2> QED BY <2>1, LineStutters
<1> QED BY <1>1, <1>2, <1>3, <1>4 DEF TimerStep

\* A response the transport has accepted.
LEMMA HandleRefines ==
  ASSUME IInv, Handling, InService, Handle
  PROVE  AbstractStep
<1>1. UNCHANGED <<state, issued>> /\ current # None BY DEF Handling, InService
<1>2. ASSUME NEW how \in Outcomes \ {"none", "pending"}, Finish(how)
      PROVE  AbstractStep
  <2>1. timers \ {current} = {} BY InState
  <2> QED BY <1>1, <1>2, <2>1, EndServiceRefines DEF Finish
<1>3. CASE FcMismatch
  BY <1>1, <1>3, ClearRefines DEF FcMismatch, Desynchronise, Outcomes, Errors
<1>4. CASE ExceptionResponse
  BY <1>4, <1>2 DEF ExceptionResponse, Outcomes, Errors
<1>5. CASE UnknownException
  BY <1>1, <1>5, LineStutters DEF UnknownException
<1>6. CASE NormalResponse
  BY <1>6, <1>2 DEF NormalResponse, Outcomes
<1> QED BY <1>3, <1>4, <1>5, <1>6 DEF Handle

\* A new client stands for an empty line.
LEMMA InitRefines ==
  ASSUME Init
  PROVE  Abstract!LineInit
<1>1. Registered = 0 /\ Line = <<>>
  BY EmptySeq, ConcatEmptySeq DEF Init, Registered, Line
<1>2. Settled = {} BY DEF Init, Settled
<1> QED BY <1>1, <1>2 DEF Abstract!LineInit

-----------------------------------------------------------------------------
(* The responses on their way to a client, and the requests they may reach:  *)
(* what every step of both clients does to them.  TcpClientProofs derives    *)
(* the attribution by transaction id from it, and both clients derive what a *)
(* wrong answer and a lost request must have been preceded by.               *)

\* The responses on their way, the parsed ones first.
OnTheWay == messages \o inbox

\* The requests up to this one have left the queue.
Served == IF current = None THEN Registered ELSE current

\* Nobody leaves the queue but from its front: behind the current request all
\* are pending.
Behind == current # None => \A r \in Req : current < r /\ r <= Registered => outcome[r] = "pending"

\* The peer has heard only of requests that have left the queue, so only they
\* can be answered.
TrafficInv ==
  /\ Behind
  /\ \A r \in delivered : r <= Served
  /\ \A i \in 1..Len(OnTheWay) : OnTheWay[i].origin <= Served

\* What every step does to the line: it only moves on; what has settled stays
\* as it is, and the peer hears at most of a new current request.
MovesOn ==
  /\ Behind' /\ Registered <= Registered' /\ Served <= Served'
  /\ \A r \in 1..Registered : issued'[r] = issued[r]
  /\ current' \in {None, current} \/ (Served < current' /\ outcome'[current'] = "pending")
  /\ \A r \in Req : outcome[r] \notin {"none", "pending"} => outcome'[r] = outcome[r]
  /\ delivered' \subseteq delivered \cup ({current'} \ {None, current})

\* What it does to the responses: d of them are taken from the front, some may
\* be lost from the end, or one is sent.
Sent(res) ==
  \/ /\ res.envelope = "good" /\ res.origin \in delivered /\ res.fc = issued[res.origin]
     /\ delivered' = delivered \ {res.origin}
  \/ res \in Noise /\ res.origin \in (0..Registered) \ Range(requests)
Traffic(d) ==
  /\ OnTheWay' \in Seq(Response)
  /\ \A i \in 1..Len(OnTheWay') :
       \/ i + d \in 1..Len(OnTheWay) /\ OnTheWay'[i] = OnTheWay[i + d]
       \/ i + d = Len(OnTheWay) + 1 /\ Sent(OnTheWay'[i])

\* One of the first n requests was given up.
GivenUpTo(n) == \E p \in 1..n : outcome[p] \in GivenUp

\* With a peer that answers every request at most once, an answer can only
\* come for the request in service, or after some request was given up, that
\* request or one before it; and it comes once.
Explained(r) == r = current \/ GivenUpTo(r)
Answering(i) ==
  LET r == OnTheWay[i].origin
  IN /\ r \in (1..Registered) \ delivered /\ Explained(r) /\ OnTheWay[i].fc = issued[r]
     /\ \A j \in 1..Len(OnTheWay) :
          OnTheWay[j].envelope = "good" /\ OnTheWay[j].origin = r => j = i
AnswerInv ==
  /\ current # None => outcome[current] \in {"pending", "ManuallyCleared", "Custom"}
  /\ \A r \in delivered : Explained(r)
  /\ \A i \in 1..Len(OnTheWay) :
       IF OnTheWay[i].envelope = "good" THEN Answering(i) ELSE OnTheWay[i] \in Noise
WrongAnswers ==
  \A r \in Req : LET q == answeredBy[r] IN
    q \notin {None, r} /\ outcome[r] = "resolved" =>
      q \in 1..(r - 1) /\ issued[q] = issued[r] /\ GivenUpTo(q)
CauseInv == AnswerInv /\ LossHasCause /\ WrongAnswers

\* How a step leaves the request in service: it stays (or there was none), it
\* is given up, or it ends with the first response on its way.
Stays ==
  /\ current' = current \/ current = None
  /\ current # None => outcome'[current] \in {outcome[current], "ManuallyCleared", "Custom"}
  /\ UNCHANGED answeredBy
  /\ \A r \in Req : outcome'[r] \in {"OutOfSync", "resolved"} => outcome'[r] = outcome[r]
GivesUp ==
  /\ current # None /\ current' # current /\ outcome'[current] \in GivenUp
  /\ UNCHANGED answeredBy
  /\ \A r \in Req : /\ outcome'[r] = "resolved" => outcome[r] = "resolved"
                    /\ outcome'[r] = "OutOfSync" => outcome[r] = "OutOfSync" \/ current < r
Takes(res) ==
  /\ current # None /\ current' # current /\ res.envelope = "good"
  /\ \A r \in Req :
       /\ outcome'[r] = "OutOfSync" =>
            \/ outcome[r] = "OutOfSync"
            \/ current <= r /\ (res.origin # current \/ res.fc # issued[current])
       /\ outcome'[r] = "resolved" =>
            \/ outcome[r] = "resolved" /\ answeredBy'[r] = answeredBy[r]
            \/ r = current /\ answeredBy'[r] = res.origin /\ res.fc = issued[r]
Ending(d) ==
  \/ Stays
  \/ GivesUp
  \/ d = 1 /\ 1 \in 1..Len(OnTheWay) /\ Takes(OnTheWay[1])

-----------------------------------------------------------------------------
(* The line moves on.                                                        *)

\* In a state of IInv: numbers and functions.
LEMMA LineState ==
  ASSUME IInv
  PROVE  /\ Registered \in Nat /\ Registered <= MaxRequests /\ current \in 0..Registered
         /\ Served \in 0..Registered /\ current <= Served
         /\ requests \in Seq(1..Registered) /\ outcome \in [Req -> Outcomes]
         /\ \A i \in 1..Len(requests) : current < requests[i]
         /\ \A r \in Req : r <= current /\ outcome[r] = "pending" => r = current
BY InState DEF Served, Waiting, None

\* A flush makes the head of the queue current, refuses it, or finds none.
LEMMA FlushMovesOn ==
  ASSUME NEW n \in Nat, n <= MaxRequests, NEW cur \in 0..n, NEW q \in Seq(1..n),
         \A i \in 1..Len(q) : cur < q[i],
         NEW out \in [Req -> Outcomes], NEW tm, NEW imm,
         \A r \in Req : cur < r /\ r <= n => out[r] = "pending",
         Flush(q, out, tm, imm)
  PROVE  /\ current' = None \/ (current' \in (cur + 1)..n /\ outcome'[current'] = "pending")
         /\ current' # None => \A r \in Req : current' < r /\ r <= n => outcome'[r] = "pending"
         /\ \A r \in Req : outcome'[r] = out[r] \/ (out[r] = "pending" /\ outcome'[r] = "Offline")
         /\ delivered' \subseteq delivered \cup ({current'} \ {None})
<1>1. CASE q = <<>> BY <1>1 DEF Flush
<1>2. CASE q # <<>> /\ state = "offline"
  <2>1. current' = None /\ outcome' = Settle(out, Head(q), "Offline") /\ delivered' = delivered
    BY <1>2 DEF Flush
  <2>2. "Offline" \in Outcomes BY DEF Outcomes, Errors
  <2>3. \A r \in Req : outcome'[r] = out[r] \/ (out[r] = "pending" /\ outcome'[r] = "Offline")
    BY <2>1, <2>2, SettleAllType DEF Settle
  <2> QED BY <2>1, <2>3
<1>3. CASE q # <<>> /\ state = "online"
  <2>1. current' = Head(q) /\ outcome' = out /\ delivered' \subseteq delivered \cup {Head(q)}
    BY <1>3 DEF Flush
  <2>2. Head(q) = q[1] /\ 1 \in 1..Len(q) /\ q[1] \in 1..n
    BY <1>3, EmptySeq, ElementOfSeq
  <2>3. current' \in (cur + 1)..n /\ current' \in Req /\ current' # None
    BY <2>1, <2>2, BoundsAssumption DEF Req, None
  <2>4. ASSUME NEW r \in Req, current' <= r, r <= n PROVE outcome'[r] = "pending"
    <3>1. r \in Nat /\ cur < r BY <2>3, <2>4, BoundsAssumption DEF Req
    <3> QED BY <3>1, <2>1, <2>4
  <2>5. outcome'[current'] = "pending" BY <2>3, <2>4
  <2>6. \A r \in Req : current' < r => current' <= r BY <2>3, BoundsAssumption DEF Req
  <2>7. delivered' \subseteq delivered \cup ({current'} \ {None}) BY <2>1, <2>3
  <2> QED BY <2>1, <2>3, <2>4, <2>5, <2>6, <2>7
<1> QED BY <1>1, <1>2, <1>3 DEF Flush

\* The end of a service.
LEMMA EndMovesOn ==
  ASSUME IInv, Behind, current # None, NEW how \in Outcomes \ {"none", "pending"},
         UNCHANGED issued, NEW tm,
         Flush(requests, Settle(outcome, current, how), tm, immediates)
  PROVE  MovesOn
<1> DEFINE out == Settle(outcome, current, how)
<1>1. /\ out \in [Req -> Outcomes]
      /\ \A r \in Req : out[r] = IF r = current /\ outcome[r] = "pending" THEN how ELSE outcome[r]
  BY LineState, SettleAllType DEF Settle
<1>2. Registered' = Registered BY DEF Registered
<1> HIDE DEF out
<1>3. \A r \in Req : current < r /\ r <= Registered => out[r] = "pending"
  BY <1>1, LineState DEF Behind
<1>4. /\ current' = None \/ (current' \in (current + 1)..Registered /\ outcome'[current'] = "pending")
      /\ current' # None => \A r \in Req : current' < r /\ r <= Registered => outcome'[r] = "pending"
      /\ \A r \in Req : outcome'[r] = out[r] \/ (out[r] = "pending" /\ outcome'[r] = "Offline")
      /\ delivered' \subseteq delivered \cup ({current'} \ {None})
  BY <1>1, <1>3, LineState, FlushMovesOn DEF out
<1>5. \A r \in Req : outcome[r] \notin {"none", "pending"} => outcome'[r] = outcome[r]
  BY <1>1, <1>4
<1>6. Served = current /\ Served' = IF current' = None THEN Registered ELSE current'
  BY <1>2 DEF Served
<1>7. current' = None \/ Served < current' BY <1>4, <1>6, LineState DEF None
<1>8. current' # current /\ Served <= Served' BY <1>4, <1>6, LineState DEF None
<1>9. Behind' BY <1>2, <1>4 DEF Behind
<1>10. Registered <= Registered' BY <1>2, LineState
<1>11. delivered' \subseteq delivered \cup ({current'} \ {None, current}) BY <1>4, <1>8
<1>12. \A r \in 1..Registered : issued'[r] = issued[r] OBVIOUS
<1> QED BY <1>4, <1>5, <1>7, <1>8, <1>9, <1>10, <1>11, <1>12 DEF MovesOn

\* Giving up the whole line.
LEMMA ClearMovesOn ==
  ASSUME IInv, NEW how \in Outcomes \ {"none", "pending"}, UNCHANGED issued,
         delivered' \subseteq delivered, ClearAllRequests(how)
  PROVE  MovesOn
<1> DEFINE mid == Settle(outcome, current, how)
<1>1. Registered' = Registered /\ current' = None BY DEF Registered, ClearAllRequests
<1>2. /\ mid \in [Req -> Outcomes]
      /\ \A r \in Req : mid[r] = IF r = current /\ outcome[r] = "pending" THEN how ELSE outcome[r]
  BY LineState, SettleAllType DEF Settle
<1>3. outcome' = SettleAll(mid, Range(requests), "OutOfSync") BY DEF ClearAllRequests
<1> HIDE DEF mid
<1>4. "OutOfSync" \in Outcomes BY DEF Outcomes, Errors
<1>5. \A r \in Req : outcome[r] \notin {"none", "pending"} => outcome'[r] = outcome[r]
  BY <1>2, <1>3, <1>4, SettleAllType
<1>6. Served' = Registered BY <1>1 DEF Served
<1> QED BY <1>1, <1>2, <1>5, <1>6, LineState DEF MovesOn, Behind

\* A request registers.
LEMMA RegisterMovesOn ==
  ASSUME IInv, Behind, NEW fc \in FC, Register(fc)
  PROVE  MovesOn
<1> DEFINE n == Registered + 1
           out == [outcome EXCEPT ![n] = "pending"]
<1>1. issued \in Seq(FC) /\ Registered < MaxRequests /\ Registered \in Nat
  BY InState DEF Register, Env
<1>2. /\ Registered' = n
      /\ \A r \in 1..Registered : issued'[r] = issued[r]
  BY <1>1, AppendProperties DEF Register, Registered
<1>3. /\ out \in [Req -> Outcomes]
      /\ \A r \in Req : out[r] = IF r = n THEN "pending" ELSE outcome[r]
  BY LineState DEF Outcomes
<1>4. n \in Nat /\ n <= MaxRequests /\ Registered < n /\ n \in Req
  BY <1>1, BoundsAssumption DEF Req
<1>5. outcome[n] = "none" BY <1>1, <1>4, InState DEF Waiting
<1> HIDE DEF out
<1>6. \A r \in Req : outcome[r] \notin {"none", "pending"} => out[r] = outcome[r]
  BY <1>3, <1>5
<1>7. CASE current # None
  <2>1. outcome' = out /\ current' = current /\ delivered' = delivered
    BY <1>7 DEF Register, out
  <2>2. Served = current /\ Served' = current BY <1>7, <2>1 DEF Served
  <2>3. Behind'
    <3> SUFFICES ASSUME NEW r \in Req, current < r, r <= n PROVE out[r] = "pending"
      BY <1>2, <2>1 DEF Behind
    <3>1. CASE r = n BY <3>1, <1>3
    <3>2. CASE r # n
      <4>1. r <= Registered BY <3>2, <1>1, BoundsAssumption DEF Req
      <4> QED BY <3>2, <4>1, <1>3, <1>7 DEF Behind
    <3> QED BY <3>1, <3>2
  <2>4. Served <= Served' BY <2>2, LineState
  <2> QED BY <2>1, <2>3, <2>4, <1>1, <1>2, <1>4, <1>6 DEF MovesOn
<1>8. CASE current = None
  <2>1. Flush(Append(requests, n), out, timers, immediates) BY <1>8 DEF Register, out
  <2>2. requests = <<>> BY <1>8, InState
  <2>3. /\ Append(requests, n) \in Seq(1..n) /\ Len(Append(requests, n)) = 1
        /\ Append(requests, n)[1] = n
    BY <2>2, <1>1, <1>4, AppendProperties, EmptySeq
  <2>4. \A i \in 1..Len(Append(requests, n)) : Registered < Append(requests, n)[i]
    BY <2>3, <1>4
  <2>5. \A r \in Req : Registered < r /\ r <= n => out[r] = "pending"
    BY <1>1, <1>3, BoundsAssumption DEF Req
  <2> DEFINE q == Append(requests, n)
             here == Registered
  <2>6. /\ n \in Nat /\ n <= MaxRequests /\ here \in 0..n
        /\ q \in Seq(1..n) /\ \A i \in 1..Len(q) : here < q[i]
    BY <2>3, <2>4, <1>1, <1>4
  <2>7. /\ out \in [Req -> Outcomes] /\ Flush(q, out, timers, immediates)
        /\ \A r \in Req : here < r /\ r <= n => out[r] = "pending"
    BY <2>1, <2>5, <1>3
  <2>8. /\ current' = None \/ (current' \in (here + 1)..n /\ outcome'[current'] = "pending")
        /\ current' # None => \A r \in Req : current' < r /\ r <= n => outcome'[r] = "pending"
        /\ \A r \in Req : outcome'[r] = out[r] \/ (out[r] = "pending" /\ outcome'[r] = "Offline")
        /\ delivered' \subseteq delivered \cup ({current'} \ {None})
    <3> HIDE DEF q, here, n
    <3> QED BY <2>6, <2>7, FlushMovesOn
  <2>9. Served = Registered /\ Served' = n
    <3>1. current' = None \/ current' = n BY <2>8, <1>1
    <3> QED BY <3>1, <1>2, <1>8 DEF Served
  <2>10. current' = None \/ (Served < current' /\ outcome'[current'] = "pending")
    BY <2>8, <2>9, <1>1
  <2>11. \A r \in Req : outcome[r] \notin {"none", "pending"} => outcome'[r] = outcome[r]
    BY <2>8, <1>6
  <2>12. Behind' BY <2>8, <1>2 DEF Behind
  <2>13. delivered' \subseteq delivered \cup ({current'} \ {None, current}) BY <2>8, <1>8
  <2> QED BY <2>9, <2>10, <2>11, <2>12, <2>13, <1>1, <1>2 DEF MovesOn
<1> QED BY <1>7, <1>8

\* The steps that leave queue and current request alone.
LEMMA SettleMovesOn ==
  ASSUME IInv, Behind, UNCHANGED <<current, issued>>, delivered' \subseteq delivered,
         outcome' = outcome \/ \E how \in Outcomes \ {"none", "pending"} :
                                 outcome' = Settle(outcome, current, how)
  PROVE  MovesOn
<1>1. Registered' = Registered /\ Served' = Served BY DEF Registered, Served
<1>2. ASSUME NEW r \in Req
      PROVE  r # current \/ outcome[r] # "pending" => outcome'[r] = outcome[r]
  <2>1. ASSUME NEW how \in Outcomes \ {"none", "pending"}, outcome' = Settle(outcome, current, how)
        PROVE  r # current \/ outcome[r] # "pending" => outcome'[r] = outcome[r]
    BY <2>1, LineState, SettleAllType DEF Settle
  <2> QED BY <2>1
<1>3. Behind' BY <1>1, <1>2, LineState DEF Behind
<1> QED BY <1>1, <1>2, <1>3, LineState DEF MovesOn

-----------------------------------------------------------------------------
(* The responses move on.                                                    *)

\* Two parts of the way: the elements of both.
LEMMA WayOf ==
  ASSUME NEW S, NEW s \in Seq(S), NEW t \in Seq(S)
  PROVE  /\ s \o t \in Seq(S) /\ Len(s) \in Nat /\ Len(t) \in Nat
         /\ Len(s \o t) = Len(s) + Len(t)
         /\ \A i \in 1..Len(s \o t) : /\ (s \o t)[i] \in S
                                     /\ (s \o t)[i] = IF i <= Len(s) THEN s[i] ELSE t[i - Len(s)]
<1>1. /\ s \o t \in Seq(S) /\ Len(s) \in Nat /\ Len(t) \in Nat
      /\ Len(s \o t) = Len(s) + Len(t)
      /\ \A i \in 1..(Len(s) + Len(t)) : (s \o t)[i] = IF i <= Len(s) THEN s[i] ELSE t[i - Len(s)]
  BY ConcatProperties, LenProperties
<1> QED BY <1>1, ElementOfSeq

\* In a state of IInv: the responses on their way.
LEMMA WayState ==
  ASSUME IInv
  PROVE  /\ messages \in Seq(Response) /\ inbox \in Seq(Response)
         /\ OnTheWay \in Seq(Response) /\ Len(OnTheWay) \in Nat
         /\ Len(messages) \in Nat /\ Len(inbox) \in Nat
         /\ Len(OnTheWay) = Len(messages) + Len(inbox)
         /\ \A i \in 1..Len(OnTheWay) :
              /\ OnTheWay[i] \in Response
              /\ OnTheWay[i] = IF i <= Len(messages) THEN messages[i] ELSE inbox[i - Len(messages)]
<1>1. messages \in Seq(Response) /\ inbox \in Seq(Response) BY InState DEF Env
<1> QED BY <1>1, WayOf DEF OnTheWay

\* Nothing happens to them, or those not yet parsed are lost with the link.
LEMMA QuietTraffic ==
  ASSUME IInv, UNCHANGED messages, inbox' = inbox \/ inbox' = <<>>
  PROVE  Traffic(0)
<1>1. CASE inbox' = inbox
  <2>1. OnTheWay' = OnTheWay BY <1>1 DEF OnTheWay
  <2>2. \A i \in 1..Len(OnTheWay) : i + 0 \in 1..Len(OnTheWay) /\ OnTheWay[i + 0] = OnTheWay[i]
    BY WayState
  <2> QED BY <2>1, <2>2, WayState DEF Traffic
<1>2. CASE inbox' = <<>>
  <2>1. OnTheWay' = messages BY <1>2, WayState, ConcatEmptySeq DEF OnTheWay
  <2>2. \A i \in 1..Len(messages) : /\ i + 0 \in 1..Len(OnTheWay)
                                   /\ OnTheWay[i + 0] = messages[i]
    BY WayState
  <2> QED BY <2>1, <2>2, WayState DEF Traffic
<1> QED BY <1>1, <1>2

\* A response is sent.
LEMMA SentTraffic ==
  ASSUME IInv, NEW res \in Response, UNCHANGED messages, inbox' = Append(inbox, res), Sent(res)
  PROVE  Traffic(0)
<1>1. /\ inbox' \in Seq(Response) /\ Len(inbox') = Len(inbox) + 1
      /\ \A i \in 1..Len(inbox) : inbox'[i] = inbox[i]
      /\ inbox'[Len(inbox) + 1] = res
  BY WayState, AppendProperties
<1>2. /\ OnTheWay' \in Seq(Response)
      /\ Len(OnTheWay') = Len(messages) + Len(inbox')
      /\ \A i \in 1..Len(OnTheWay') :
           OnTheWay'[i] = IF i <= Len(messages) THEN messages[i] ELSE inbox'[i - Len(messages)]
  <2> DEFINE later == inbox'
  <2>1. OnTheWay' = messages \o later BY DEF OnTheWay
  <2>2. messages \in Seq(Response) /\ later \in Seq(Response) BY <1>1, WayState
  <2> HIDE DEF later
  <2>3. /\ messages \o later \in Seq(Response) /\ Len(messages \o later) = Len(messages) + Len(later)
        /\ \A i \in 1..Len(messages \o later) :
             (messages \o later)[i] = IF i <= Len(messages) THEN messages[i] ELSE later[i - Len(messages)]
    BY <2>2, WayOf
  <2> QED BY <2>1, <2>3 DEF later
<1>3. ASSUME NEW i \in 1..Len(OnTheWay')
      PROVE  \/ i + 0 \in 1..Len(OnTheWay) /\ OnTheWay'[i] = OnTheWay[i + 0]
             \/ i + 0 = Len(OnTheWay) + 1 /\ Sent(OnTheWay'[i])
  <2>1. i \in Nat /\ i + 0 = i /\ i >= 1 /\ i <= Len(messages) + Len(inbox) + 1
    BY <1>1, <1>2, WayState
  <2>2. CASE i <= Len(messages)
    <3>1. i \in 1..Len(OnTheWay) BY <2>1, <2>2, WayState
    <3>2. OnTheWay'[i] = messages[i] BY <1>2, <2>2
    <3>3. OnTheWay[i] = messages[i] BY <3>1, <2>2, WayState
    <3> QED BY <2>1, <3>1, <3>2, <3>3
  <2>3. CASE ~(i <= Len(messages))
    <3>1. PICK j : j = i - Len(messages) OBVIOUS
    <3>2. OnTheWay'[i] = inbox'[j] BY <1>2, <2>3, <3>1
    <3>3. j \in 1..Len(inbox) \/ j = Len(inbox) + 1
      <4>1. Len(messages) \in Nat /\ Len(inbox) \in Nat BY WayState
      <4> QED BY <4>1, <2>1, <2>3, <3>1
    <3>4. CASE j \in 1..Len(inbox)
      <4>1. i \in 1..Len(OnTheWay) BY <2>1, <3>1, <3>4, WayState
      <4>2. OnTheWay[i] = inbox[j] BY <4>1, <2>3, <3>1, WayState
      <4> QED BY <2>1, <3>2, <3>4, <4>1, <4>2, <1>1
    <3>5. CASE j = Len(inbox) + 1
      <4>1. i = Len(OnTheWay) + 1 BY <2>1, <3>1, <3>5, WayState
      <4>2. OnTheWay'[i] = res BY <3>2, <3>5, <1>1
      <4> QED BY <2>1, <4>1, <4>2
    <3> QED BY <3>3, <3>4, <3>5
  <2> QED BY <2>2, <2>3
<1> QED BY <1>2, <1>3 DEF Traffic

\* A data event parses the first of them, in their order.
LEMMA ReadTraffic ==
  ASSUME IInv, NEW k \in 0..Len(inbox), DataEvent(k)
  PROVE  Traffic(0)
<1> DEFINE read == SubSeq(inbox, 1, k)
           rest == SubSeq(inbox, k + 1, Len(inbox))
<1>1. k \in Nat /\ k <= Len(inbox) /\ Len(inbox) \in Nat BY WayState
<1>2. \A i \in 1..Len(inbox) : inbox[i] \in Response BY WayState, ElementOfSeq
<1>3. /\ read \in Seq(Response) /\ Len(read) = k
      /\ \A i \in 1..k : read[i] = inbox[i]
  <2>1. \A i \in 1..k : inbox[i] \in Response BY <1>1, <1>2
  <2> QED BY <1>1, <2>1, WayState, SubSeqProperties, k \in Int
<1>4. /\ rest \in Seq(Response) /\ Len(rest) = Len(inbox) - k
      /\ \A i \in 1..(Len(inbox) - k) : rest[i] = inbox[k + i]
  <2>1. \A i \in (k + 1)..Len(inbox) : inbox[i] \in Response BY <1>1, <1>2
  <2>2. /\ k + 1 \in Int /\ rest \in Seq(Response)
        /\ Len(rest) = IF k + 1 <= Len(inbox) THEN Len(inbox) - (k + 1) + 1 ELSE 0
        /\ \A i \in 1..(Len(inbox) - (k + 1) + 1) : rest[i] = inbox[(k + 1) + i - 1]
    BY <1>1, <2>1, WayState, SubSeqProperties
  <2> QED BY <2>2, <1>1
<1>5. messages' = messages \o read /\ inbox' = rest BY DEF DataEvent
<1> HIDE DEF read, rest
<1>6. /\ messages' \in Seq(Response) /\ Len(messages') = Len(messages) + k
      /\ \A i \in 1..Len(messages') :
           messages'[i] = IF i <= Len(messages) THEN messages[i] ELSE read[i - Len(messages)]
  <2>1. messages \in Seq(Response) BY WayState
  <2>2. /\ messages \o read \in Seq(Response) /\ Len(messages \o read) = Len(messages) + Len(read)
        /\ \A i \in 1..Len(messages \o read) :
             (messages \o read)[i] = IF i <= Len(messages) THEN messages[i] ELSE read[i - Len(messages)]
    BY <2>1, <1>3, WayOf
  <2> QED BY <2>2, <1>3, <1>5
<1>7. /\ OnTheWay' \in Seq(Response) /\ Len(OnTheWay') = Len(messages') + Len(inbox')
      /\ \A i \in 1..Len(OnTheWay') :
           OnTheWay'[i] = IF i <= Len(messages') THEN messages'[i] ELSE inbox'[i - Len(messages')]
  <2> DEFINE parsed == messages'
             later == inbox'
  <2>1. OnTheWay' = parsed \o later BY DEF OnTheWay
  <2>2. parsed \in Seq(Response) /\ later \in Seq(Response) BY <1>4, <1>5, <1>6
  <2> HIDE DEF parsed, later
  <2>3. /\ parsed \o later \in Seq(Response) /\ Len(parsed \o later) = Len(parsed) + Len(later)
        /\ \A i \in 1..Len(parsed \o later) :
             (parsed \o later)[i] = IF i <= Len(parsed) THEN parsed[i] ELSE later[i - Len(parsed)]
    BY <2>2, WayOf
  <2> QED BY <2>1, <2>3 DEF parsed, later
<1>8. Len(OnTheWay') = Len(OnTheWay)
  <2>1. Len(OnTheWay') = Len(messages) + k + (Len(inbox) - k) BY <1>4, <1>5, <1>6, <1>7
  <2>2. Len(messages) \in Nat /\ Len(OnTheWay) = Len(messages) + Len(inbox) BY WayState
  <2> QED BY <2>1, <2>2, <1>1
<1>9. ASSUME NEW i \in 1..Len(OnTheWay)
      PROVE  OnTheWay'[i] = OnTheWay[i]
  <2>1. i \in Nat /\ i >= 1 /\ i <= Len(messages) + Len(inbox) BY WayState
  <2>2. CASE i <= Len(messages)
    <3>1. i \in 1..Len(messages') /\ i <= Len(messages') BY <2>1, <2>2, <1>1, <1>6, WayState
    <3> QED BY <3>1, <2>2, <1>6, <1>7, <1>8, WayState
  <2>3. CASE ~(i <= Len(messages))
    <3>1. PICK j : j = i - Len(messages) OBVIOUS
    <3>2. OnTheWay[i] = inbox[j] BY <2>3, <3>1, WayState
    <3>3. CASE j <= k
      <4>1. i \in 1..Len(messages') /\ i <= Len(messages') /\ j \in 1..k
        BY <2>1, <2>3, <3>1, <3>3, <1>1, <1>6, WayState
      <4>2. messages'[i] = read[j] BY <4>1, <2>3, <3>1, <1>6
      <4>3. OnTheWay'[i] = messages'[i] BY <4>1, <1>7, <1>8
      <4> QED BY <4>1, <4>2, <4>3, <3>2, <1>3
    <3>4. CASE ~(j <= k)
      <4>1. PICK x : x = i - Len(messages') OBVIOUS
      <4>2. ~(i <= Len(messages')) /\ x \in 1..(Len(inbox) - k) /\ k + x = j
        BY <4>1, <2>1, <2>3, <3>1, <3>4, <1>1, <1>6, WayState
      <4>3. OnTheWay'[i] = rest[x] BY <4>1, <4>2, <1>5, <1>7, <1>8
      <4> QED BY <4>2, <4>3, <3>2, <1>4
    <3> QED BY <3>3, <3>4
  <2> QED BY <2>2, <2>3
<1>10. \A i \in 1..Len(OnTheWay) : i + 0 = i BY WayState
<1> QED BY <1>7, <1>8, <1>9, <1>10 DEF Traffic

\* The loop takes the first of them.
LEMMA HandledTraffic ==
  ASSUME IInv, Handling
  PROVE  /\ Traffic(1)
         /\ 1 \in 1..Len(OnTheWay) /\ response = OnTheWay[1] /\ response \in Response
<1>1. /\ Len(messages) \in Nat \ {0} /\ response = messages[1]
      /\ messages' \in Seq(Response) /\ Len(messages') = Len(messages) - 1
      /\ \A i \in 1..Len(messages') : messages'[i] = messages[i + 1]
  BY WayState, HeadTailProperties, EmptySeq DEF Handling, response
<1>2. 1 \in 1..Len(OnTheWay) /\ response = OnTheWay[1] /\ response \in Response
  <2>1. 1 \in 1..Len(OnTheWay) /\ 1 <= Len(messages) BY <1>1, WayState
  <2> QED BY <2>1, <1>1, WayState
<1>3. /\ OnTheWay' \in Seq(Response) /\ Len(OnTheWay') = Len(messages') + Len(inbox)
      /\ \A i \in 1..Len(OnTheWay') :
           OnTheWay'[i] = IF i <= Len(messages') THEN messages'[i] ELSE inbox[i - Len(messages')]
  <2> DEFINE parsed == messages'
  <2>1. OnTheWay' = parsed \o inbox BY DEF OnTheWay, Handling
  <2>2. parsed \in Seq(Response) /\ inbox \in Seq(Response) BY <1>1, WayState
  <2> HIDE DEF parsed
  <2>3. /\ parsed \o inbox \in Seq(Response) /\ Len(parsed \o inbox) = Len(parsed) + Len(inbox)
        /\ \A i \in 1..Len(parsed \o inbox) :
             (parsed \o inbox)[i] = IF i <= Len(parsed) THEN parsed[i] ELSE inbox[i - Len(parsed)]
    BY <2>2, WayOf
  <2> QED BY <2>1, <2>3 DEF parsed
<1>4. ASSUME NEW i \in 1..Len(OnTheWay')
      PROVE  i + 1 \in 1..Len(OnTheWay) /\ OnTheWay'[i] = OnTheWay[i + 1]
  <2>1. i \in Nat /\ i >= 1 /\ i + 1 \in 1..Len(OnTheWay)
    BY <1>1, <1>3, WayState
  <2>2. CASE i <= Len(messages')
    <3>1. i \in 1..Len(messages') /\ i + 1 <= Len(messages) BY <2>1, <2>2, <1>1
    <3> QED BY <2>1, <2>2, <3>1, <1>1, <1>3, WayState
  <2>3. CASE ~(i <= Len(messages'))
    <3>1. PICK j : j = i - Len(messages') OBVIOUS
    <3>2. ~(i + 1 <= Len(messages)) /\ j = (i + 1) - Len(messages) BY <2>1, <2>3, <3>1, <1>1
    <3>3. OnTheWay'[i] = inbox[j] BY <2>3, <3>1, <1>3
    <3>4. OnTheWay[i + 1] = inbox[j] BY <2>1, <3>2, WayState
    <3> QED BY <2>1, <3>3, <3>4
  <2> QED BY <2>2, <2>3
<1> QED BY <1>2, <1>3, <1>4 DEF Traffic

-----------------------------------------------------------------------------
(* What is preserved by a step that does all this.                           *)

\* The same numbers in the next state.
LEMMA NextLineState ==
  ASSUME IInv'
  PROVE  Registered' \in Nat /\ Served' \in Nat /\ delivered' \subseteq 1..Registered'
<1>1. issued' \in Seq(FC) /\ current' \in 0..Registered' BY DEF IInv, TypeOK, LineInv
<1>2. Registered' \in Nat BY <1>1, LenProperties DEF Registered
<1> QED BY <1>1, <1>2 DEF Served, IInv, TypeOK

\* A response can only be sent for a request that has left the queue.
LEMMA SentIsServed ==
  ASSUME IInv, TrafficInv,
         NEW r \in delivered \cup ((0..Registered) \ Range(requests))
  PROVE  r <= Served
<1>1. CASE r \in delivered BY <1>1 DEF TrafficInv
<1>2. CASE r \in 0..Registered /\ r \notin Range(requests) /\ current # None
  <2>1. SUFFICES ASSUME current < r PROVE FALSE
    BY <1>2, LineState DEF Served
  <2>2. r \in Req /\ outcome[r] = "pending"
    BY <1>2, <2>1, LineState, BoundsAssumption DEF Req, TrafficInv, Behind
  <2>3. PICK j \in 1..Len(requests) : requests[j] = r
    BY <2>1, <2>2, InState DEF Waiting
  <2> QED BY <1>2, <2>3, LineState, RangeEquality
<1>3. CASE r \in 0..Registered /\ current = None BY <1>3, LineState DEF Served
<1> QED BY <1>1, <1>2, <1>3

\* All that is on its way, or can be sent, is for requests out of the queue.
LEMMA TrafficPreserved ==
  ASSUME IInv, TrafficInv, MovesOn, NEW d \in {0, 1}, Traffic(d), IInv'
  PROVE  TrafficInv'
<1>1. Served \in Nat /\ Served' \in Nat /\ Served <= Served'
  BY LineState, NextLineState DEF MovesOn
<1>2. \A r \in delivered' : r <= Served'
  <2>1. \A r \in delivered : r \in Nat /\ r <= Served
    BY InState DEF Core, TrafficInv
  <2>2. ASSUME NEW r \in delivered' PROVE r <= Served'
    <3>1. CASE r \in delivered BY <3>1, <2>1, <1>1
    <3>2. CASE r = current' /\ current' # None BY <3>2, <1>1 DEF Served
    <3> QED BY <3>1, <3>2 DEF MovesOn
  <2> QED BY <2>2
<1>3. ASSUME NEW i \in 1..Len(OnTheWay') PROVE OnTheWay'[i].origin <= Served'
  <2>1. \A res \in Response : res.origin \in Nat
    BY BoundsAssumption DEF Response, Req, None
  <2>2. CASE i + d \in 1..Len(OnTheWay) /\ OnTheWay'[i] = OnTheWay[i + d]
    <3>1. OnTheWay[i + d] \in Response /\ OnTheWay[i + d].origin <= Served
      BY <2>2, WayState DEF TrafficInv
    <3> QED BY <3>1, <2>1, <2>2, <1>1
  <2>3. CASE Sent(OnTheWay'[i])
    <3>1. OnTheWay'[i] \in Response BY ElementOfSeq DEF Traffic
    <3>2. OnTheWay'[i].origin <= Served BY <2>3, SentIsServed DEF Sent
    <3> QED BY <3>1, <3>2, <2>1, <1>1
  <2> QED BY <2>2, <2>3 DEF Traffic
<1> QED BY <1>2, <1>3 DEF TrafficInv, MovesOn

\* A request that was given up stays so, and is one of all later ones.
LEMMA StaysGivenUp ==
  ASSUME IInv, MovesOn, NEW n \in 1..Registered, GivenUpTo(n), NEW m \in Nat, n <= m
  PROVE  /\ \E p \in 1..m : outcome'[p] \in GivenUp
         /\ GivenUpTo(m)
<1>1. PICK p \in 1..n : outcome[p] \in GivenUp BY DEF GivenUpTo
<1>2. p \in Req /\ p \in 1..m BY LineState, BoundsAssumption DEF Req
<1>3. outcome[p] \notin {"none", "pending"} BY <1>1 DEF GivenUp
<1>4. outcome'[p] = outcome[p] BY <1>2, <1>3 DEF MovesOn
<1> QED BY <1>1, <1>2, <1>4 DEF GivenUpTo

\* The first response, if it is taken, is that of the request in service, or
\* of one before it that was given up, or whose predecessor was.
LEMMA FirstResponse ==
  ASSUME IInv, TrafficInv, AnswerInv, current # None, 1 \in 1..Len(OnTheWay),
         OnTheWay[1].envelope = "good", OnTheWay[1].origin # current
  PROVE  /\ OnTheWay[1].origin \in 1..(current - 1) /\ OnTheWay[1].origin \in 1..Registered
         /\ GivenUpTo(OnTheWay[1].origin)
         /\ OnTheWay[1].fc = issued[OnTheWay[1].origin]
<1> DEFINE r == OnTheWay[1].origin
<1>1. r \in 1..Registered /\ Explained(r) /\ OnTheWay[1].fc = issued[r]
  BY DEF AnswerInv, Answering
<1>2. r <= current BY DEF TrafficInv, Served
<1> QED BY <1>1, <1>2, LineState DEF Explained

\* What was explained still is, except the request whose own answer is taken.
LEMMA StaysExplained ==
  ASSUME IInv, TrafficInv, AnswerInv, MovesOn, NEW d \in {0, 1}, Ending(d),
         NEW r \in 1..Registered, Explained(r)
  PROVE  \/ Explained(r)'
         \/ /\ d = 1 /\ 1 \in 1..Len(OnTheWay) /\ OnTheWay[1].envelope = "good"
            /\ OnTheWay[1].origin = r /\ r = current
<1>1. r \in Nat /\ r # None BY LineState DEF None
<1>2. CASE GivenUpTo(r) BY <1>1, <1>2, StaysGivenUp DEF Explained, GivenUpTo
<1>3. CASE r = current
  <2>1. CASE Stays BY <2>1, <1>1, <1>3 DEF Stays, Explained
  <2>2. CASE GivesUp BY <2>2, <1>1, <1>3 DEF GivesUp, Explained, GivenUpTo
  <2>3. CASE d = 1 /\ 1 \in 1..Len(OnTheWay) /\ Takes(OnTheWay[1])
    <3>1. CASE OnTheWay[1].origin = current BY <3>1, <2>3, <1>3 DEF Takes
    <3>2. CASE OnTheWay[1].origin # current
      <4>1. /\ OnTheWay[1].origin \in 1..(current - 1) /\ OnTheWay[1].origin \in 1..Registered
            /\ GivenUpTo(OnTheWay[1].origin)
        BY <3>2, <2>3, FirstResponse DEF Takes
      <4>2. OnTheWay[1].origin <= r BY <4>1, <1>1, <1>3
      <4> QED BY <4>1, <4>2, <1>1, StaysGivenUp DEF Explained, GivenUpTo
    <3> QED BY <3>1, <3>2
  <2> QED BY <2>1, <2>2, <2>3 DEF Ending
<1> QED BY <1>2, <1>3 DEF Explained

\* With such a peer, the answers on their way stay explained, and single.
LEMMA AnswersPreserved ==
  ASSUME IInv, TrafficInv, AnswerInv, MovesOn, NEW d \in {0, 1}, Traffic(d), Ending(d), IInv',
         \A f \in Noise : f.envelope # "good"
  PROVE  AnswerInv'
<1> DEFINE Way == OnTheWay
           Later == OnTheWay'
<1>1. Registered \in Nat /\ Registered' \in Nat /\ Registered <= Registered' /\ Served \in Nat
  BY LineState, NextLineState DEF MovesOn
<1>2. current' # None => outcome'[current'] \in {"pending", "ManuallyCleared", "Custom"}
  <2> SUFFICES ASSUME current' # None
               PROVE  outcome'[current'] \in {"pending", "ManuallyCleared", "Custom"}
    OBVIOUS
  <2>1. CASE current' = current
    <3>1. Stays BY <2>1 DEF Ending, GivesUp, Takes
    <3> QED BY <2>1, <3>1 DEF Stays, AnswerInv
  <2>2. CASE outcome'[current'] = "pending" BY <2>2
  <2> QED BY <2>1, <2>2 DEF MovesOn
<1>3. \A r \in delivered : r \in 1..Registered /\ Explained(r) /\ r <= Served
  BY InState DEF Core, AnswerInv, TrafficInv
<1>4. ASSUME NEW i \in 1..Len(Way), Way[i].envelope = "good"
      PROVE  /\ Way[i].origin \in 1..Registered /\ Way[i].origin \notin delivered
             /\ Explained(Way[i].origin) /\ Way[i].fc = issued[Way[i].origin]
             /\ Way[i].origin <= Served
             /\ \A j \in 1..Len(Way) :
                  Way[j].envelope = "good" /\ Way[j].origin = Way[i].origin => j = i
  BY <1>4 DEF AnswerInv, Answering, TrafficInv
<1>5. \A r \in delivered : Explained(r)'
  <2> TAKE r \in delivered
  <2>1. ~(1 \in 1..Len(Way) /\ Way[1].envelope = "good" /\ Way[1].origin = r) BY <1>4
  <2> QED BY <2>1, <1>3, StaysExplained
<1>6. \A r \in delivered' : Explained(r)'
  BY <1>5 DEF MovesOn, Explained
<1>7. ASSUME NEW i \in 1..Len(Later)
      PROVE  IF Later[i].envelope = "good" THEN Answering(i)' ELSE Later[i] \in Noise
  <2>1. \A j \in 1..Len(Later) :
          \/ j + d \in 1..Len(Way) /\ Later[j] = Way[j + d]
          \/ j + d = Len(Way) + 1 /\ Sent(Later[j])
    BY DEF Traffic
  <2>2. i \in Nat /\ d \in Nat /\ \A j \in 1..Len(Later) : j \in Nat OBVIOUS
  <2>3. CASE i + d \in 1..Len(Way) /\ Later[i] = Way[i + d] /\ Later[i].envelope = "good"
    <3>0. PICK r : r = Way[i + d].origin OBVIOUS
    <3>1. /\ r \in 1..Registered /\ r \notin delivered /\ Explained(r) /\ r <= Served
          /\ Later[i].fc = issued[r]
          /\ \A j \in 1..Len(Way) : Way[j].envelope = "good" /\ Way[j].origin = r => j = i + d
      BY <3>0, <2>3, <1>4
    <3>2. Explained(r)'
      <4>1. ~(d = 1 /\ 1 \in 1..Len(Way) /\ Way[1].envelope = "good" /\ Way[1].origin = r)
        <5>1. d = 1 => 1 # i + d BY <2>2
        <5> QED BY <5>1, <3>1
      <4> QED BY <4>1, <3>1, StaysExplained
    <3>3. r \notin delivered'
      <4>1. ASSUME r = current', current' \notin {None, current} PROVE FALSE
        <5>1. Served < current' BY <4>1 DEF MovesOn
        <5> QED BY <5>1, <4>1, <3>1, <1>1
      <4> QED BY <4>1, <3>1 DEF MovesOn
    <3>4. r \in 1..Registered' /\ issued'[r] = issued[r] BY <3>1, <1>1 DEF MovesOn
    <3>5. ASSUME NEW j \in 1..Len(Later), Later[j].envelope = "good", Later[j].origin = r
          PROVE  j = i
      <4>1. ~Sent(Later[j]) BY <3>1, <3>5 DEF Sent
      <4>2. j + d \in 1..Len(Way) /\ Later[j] = Way[j + d] BY <4>1, <2>1
      <4>3. j + d = i + d BY <4>2, <3>1, <3>5
      <4> QED BY <4>3, <2>2
    <3> QED BY <2>3, <3>0, <3>1, <3>2, <3>3, <3>4, <3>5 DEF Answering
  <2>4. CASE i + d = Len(Way) + 1 /\ Sent(Later[i]) /\ Later[i].envelope = "good"
    <3>0. PICK r : r = Later[i].origin OBVIOUS
    <3>1. r \in delivered /\ Later[i].fc = issued[r] /\ delivered' = delivered \ {r}
      BY <3>0, <2>4 DEF Sent
    <3>2. r \in 1..Registered BY <3>1, <1>3
    <3>3. r \in 1..Registered' /\ issued'[r] = issued[r] BY <3>2, <1>1 DEF MovesOn
    <3>4. r \notin delivered' /\ Explained(r)' BY <3>1, <1>5
    <3>5. ASSUME NEW j \in 1..Len(Later), Later[j].envelope = "good", Later[j].origin = r
          PROVE  j = i
      <4>1. ~(j + d \in 1..Len(Way) /\ Later[j] = Way[j + d]) BY <3>1, <3>5, <1>4
      <4>2. j + d = i + d BY <4>1, <2>1, <2>4
      <4> QED BY <4>2, <2>2
    <3> QED BY <2>4, <3>0, <3>1, <3>3, <3>4, <3>5 DEF Answering
  <2>5. CASE Later[i].envelope # "good"
    <3>1. CASE i + d \in 1..Len(Way) /\ Later[i] = Way[i + d]
      BY <3>1, <2>5 DEF AnswerInv
    <3>2. CASE Sent(Later[i]) BY <3>2, <2>5 DEF Sent
    <3> QED BY <3>1, <3>2, <2>1, <2>5
  <2> QED BY <2>1, <2>3, <2>4, <2>5
<1> QED BY <1>2, <1>6, <1>7 DEF AnswerInv

\* What the user saw before a lost request is not forgotten, and each step
\* that loses one has seen it.
LEMMA LossesPreserved ==
  ASSUME IInv, TrafficInv, CauseInv, MovesOn, NEW d \in {0, 1}, Ending(d)
  PROVE  LossHasCause'
<1> SUFFICES ASSUME NEW r \in Req, outcome'[r] = "OutOfSync"
             PROVE  \E q \in 1..(r - 1) : outcome'[q] \in GivenUp
  BY DEF LossHasCause
<1>1. r \in Nat /\ r >= 1 /\ current \in Nat /\ r <= MaxRequests
  BY LineState, BoundsAssumption DEF Req
<1>2. CASE outcome[r] = "OutOfSync"
  <2>1. PICK q \in 1..(r - 1) : outcome[q] \in GivenUp BY <1>2 DEF CauseInv, LossHasCause
  <2>2. q \in Req /\ outcome[q] \notin {"none", "pending"}
    BY <1>1, <2>1, BoundsAssumption DEF Req, GivenUp
  <2> QED BY <2>1, <2>2 DEF MovesOn
<1>3. CASE Stays BY <1>2, <1>3 DEF Stays
<1>4. CASE GivesUp
  <2>1. CASE current < r
    <3>1. current \in 1..(r - 1) BY <2>1, <1>1, <1>4, LineState DEF GivesUp, None
    <3> QED BY <3>1, <1>4 DEF GivesUp
  <2> QED BY <2>1, <1>2, <1>4 DEF GivesUp
<1>5. CASE d = 1 /\ 1 \in 1..Len(OnTheWay) /\ Takes(OnTheWay[1])
  <2> DEFINE o == OnTheWay[1].origin
  <2>1. CASE current <= r /\ (o # current \/ OnTheWay[1].fc # issued[current])
    <3>1. o # current BY <2>1, <1>5 DEF CauseInv, AnswerInv, Answering, Takes
    <3>2. o \in 1..(current - 1) /\ o \in 1..Registered /\ GivenUpTo(o)
      BY <3>1, <1>5, FirstResponse DEF CauseInv, Takes
    <3>3. o <= r - 1 /\ r - 1 \in Nat BY <3>2, <2>1, <1>1
    <3> QED BY <3>2, <3>3, StaysGivenUp
  <2> QED BY <2>1, <1>2, <1>5 DEF Takes
<1> QED BY <1>3, <1>4, <1>5 DEF Ending

\* Nor what came before a wrong answer.
LEMMA WrongAnswersPreserved ==
  ASSUME IInv, TrafficInv, CauseInv, MovesOn, NEW d \in {0, 1}, Ending(d), IInv'
  PROVE  WrongAnswers'
<1> SUFFICES ASSUME NEW r \in Req, NEW q, q = answeredBy'[r], q \notin {None, r},
                    outcome'[r] = "resolved"
             PROVE  /\ q \in 1..(r - 1) /\ issued'[q] = issued'[r]
                    /\ \E p \in 1..q : outcome'[p] \in GivenUp
  BY DEF WrongAnswers, GivenUpTo
<1>1. r \in Nat /\ Registered \in Nat /\ outcome \in [Req -> Outcomes]
  BY LineState, BoundsAssumption DEF Req
<1>2. CASE outcome[r] = "resolved" /\ q = answeredBy[r]
  <2>1. q \in 1..(r - 1) /\ issued[q] = issued[r] /\ GivenUpTo(q)
    BY <1>2 DEF CauseInv, WrongAnswers
  <2>2. r <= Registered BY <1>1, <1>2, InState DEF Waiting
  <2>3. q \in 1..Registered /\ r \in 1..Registered /\ q \in Nat BY <2>1, <2>2, <1>1
  <2>4. issued'[q] = issued[q] /\ issued'[r] = issued[r] BY <2>3 DEF MovesOn
  <2>5. \E p \in 1..q : outcome'[p] \in GivenUp BY <2>1, <2>3, StaysGivenUp
  <2> QED BY <2>1, <2>4, <2>5
<1>3. CASE Stays \/ GivesUp
  BY <1>2, <1>3 DEF Stays, GivesUp
<1>4. CASE d = 1 /\ 1 \in 1..Len(OnTheWay) /\ Takes(OnTheWay[1])
  <2>1. CASE r = current /\ q = OnTheWay[1].origin /\ OnTheWay[1].fc = issued[r]
    <3>1. /\ q \in 1..(r - 1) /\ q \in 1..Registered /\ GivenUpTo(q) /\ issued[q] = issued[r]
      BY <2>1, <1>4, FirstResponse DEF CauseInv, Takes
    <3>2. r \in 1..Registered BY <2>1, <1>1, LineState, BoundsAssumption DEF Req
    <3>3. issued'[q] = issued[q] /\ issued'[r] = issued[r] BY <3>1, <3>2 DEF MovesOn
    <3>4. \E p \in 1..q : outcome'[p] \in GivenUp BY <3>1, <1>1, StaysGivenUp
    <3> QED BY <3>1, <3>3, <3>4
  <2> QED BY <2>1, <1>2, <1>4 DEF Takes
<1> QED BY <1>3, <1>4 DEF Ending

\* So every such step preserves what the causes rest on.
LEMMA CausesPreserved ==
  ASSUME IInv, TrafficInv, CauseInv, MovesOn, NEW d \in {0, 1}, Traffic(d), Ending(d), IInv',
         \A f \in Noise : f.envelope # "good"
  PROVE  CauseInv'
<1>1. AnswerInv' BY AnswersPreserved DEF CauseInv
<1>2. LossHasCause' BY LossesPreserved
<1>3. WrongAnswers' BY WrongAnswersPreserved
<1> QED BY <1>1, <1>2, <1>3 DEF CauseInv

-----------------------------------------------------------------------------
(* Every step that does not depend on the transport does all this.           *)

\* A request in service whose promise has settled was rejected by the user.
Standing == current # None => outcome[current] \in {"pending", "ManuallyCleared", "Custom"}

\* The steps that leave the transport alone move the line on.
LEMMA SharedStepMovesOn ==
  ASSUME IInv, Behind,
         UserStep \/ TimerStep \/ PeerStep \/ DataStep \/ LinkUp \/ UNCHANGED vars
  PROVE  MovesOn
<1>1. CASE UserStep
  <2>1. ASSUME NEW fc \in FC, Register(fc) PROVE MovesOn BY <2>1, RegisterMovesOn
  <2>2. CASE ManuallyRejectCurrentRequest \/ CustomErrorRequest
    <3>1. /\ UNCHANGED <<current, issued, delivered>>
          /\ \E how \in Outcomes \ {"none", "pending"} : outcome' = Settle(outcome, current, how)
      BY <2>2 DEF ManuallyRejectCurrentRequest, CustomErrorRequest, network, Outcomes, Errors
    <3> QED BY <3>1, SettleMovesOn
  <2> QED BY <1>1, <2>1, <2>2 DEF UserStep, ManuallyRejectRequests
<1>2. CASE TimerStep
  <2>1. ASSUME NEW r \in Req, TimeoutFires(r) PROVE MovesOn
    <3>1. r = current /\ current # None BY <2>1, InState DEF Core, LineInv, TimeoutFires
    <3>2. /\ Flush(requests, Settle(outcome, current, "Timeout"), timers \ {r, current}, immediates)
          /\ UNCHANGED issued
      BY <2>1, <3>1 DEF TimeoutFires
    <3> QED BY <3>1, <3>2, EndMovesOn DEF Outcomes, Errors
  <2>2. CASE ImmediateFires
    <3>1. UNCHANGED <<current, issued, outcome, delivered>>
      BY <2>2, InState DEF ImmediateFires, Flush
    <3> QED BY <3>1, SettleMovesOn
  <2> QED BY <1>2, <2>1, <2>2 DEF TimerStep
<1>3. CASE PeerStep \/ DataStep \/ LinkUp \/ UNCHANGED vars
  <2>1. UNCHANGED <<current, issued, outcome>> /\ delivered' \subseteq delivered
    BY <1>3 DEF PeerStep, Answer, Misbehave, Send, DataStep, DataEvent, DrainEnds,
       IgnoreResponse, Handling, LinkUp, vars, handler, network
  <2> QED BY <2>1, SettleMovesOn
<1> QED BY <1>1, <1>2, <1>3

\* The loop moves the line on, whatever a response brings about.
LEMMA LoopMovesOn ==
  ASSUME IInv, Behind, Handling,
         \/ \E how \in Outcomes \ {"none", "pending"} : Desynchronise(how)
         \/ InService /\ Handle
  PROVE  MovesOn
<1>1. ASSUME NEW how \in Outcomes \ {"none", "pending"}, Desynchronise(how)
      PROVE  MovesOn
  BY <1>1, ClearMovesOn DEF Handling, Desynchronise
<1>2. ASSUME NEW how \in Outcomes \ {"none", "pending"}, InService, Finish(how)
      PROVE  MovesOn
  BY <1>2, EndMovesOn DEF Handling, InService, Finish
<1>3. CASE InService /\ Handle
  <2>1. CASE FcMismatch BY <2>1, <1>1 DEF FcMismatch, Outcomes, Errors
  <2>2. CASE ExceptionResponse \/ NormalResponse
    BY <1>3, <2>2, <1>2 DEF ExceptionResponse, NormalResponse, Outcomes, Errors
  <2>3. CASE UnknownException BY <2>3, SettleMovesOn DEF Handling, UnknownException
  <2> QED BY <1>3, <2>1, <2>2, <2>3 DEF Handle
<1> QED BY <1>1, <1>3

\* The steps that leave the transport alone let the responses move on.
LEMMA SharedStepTraffic ==
  ASSUME IInv,
         UserStep \/ TimerStep \/ PeerStep \/ DataStep \/ LinkUp \/ UNCHANGED vars
  PROVE  Traffic(0) \/ Traffic(1)
<1>1. CASE UserStep \/ TimerStep \/ LinkUp \/ UNCHANGED vars
  <2>1. UNCHANGED <<inbox, messages>>
    BY <1>1 DEF UserStep, Register, ManuallyRejectRequests, ManuallyRejectCurrentRequest,
       CustomErrorRequest, TimerStep, TimeoutFires, ImmediateFires, LinkUp,
       vars, handler, network
  <2> QED BY <2>1, QuietTraffic
<1>2. ASSUME NEW r \in Req, NEW kind \in Kinds, Answer(r, kind) PROVE Traffic(0)
  <2> DEFINE res == [origin |-> r, fc |-> issued[r], kind |-> kind, envelope |-> "good"]
  <2>1. r \in delivered /\ r \in 1..Len(issued)
    BY <1>2, InState DEF Answer, Core, Registered
  <2>2. issued[r] \in FC BY <2>1, InState, ElementOfSeq DEF Env
  <2>3. res \in Response BY <2>2 DEF Response
  <2>4. inbox' = Append(inbox, res) /\ UNCHANGED messages BY <1>2 DEF Answer, Send
  <2>5. Sent(res) BY <1>2, <2>1 DEF Answer, Sent
  <2> HIDE DEF res
  <2> QED BY <2>3, <2>4, <2>5, SentTraffic
<1>3. ASSUME NEW f \in Noise, Misbehave(f) PROVE Traffic(0)
  <2>1. f \in Response /\ inbox' = Append(inbox, f) /\ UNCHANGED messages /\ Sent(f)
    BY <1>3, NoiseAssumption DEF Misbehave, Send, Sent
  <2> QED BY <2>1, SentTraffic
<1>4. ASSUME NEW k \in 0..Len(inbox), DataEvent(k) PROVE Traffic(0) BY <1>4, ReadTraffic
<1>5. CASE DrainEnds BY <1>5, QuietTraffic DEF DrainEnds, network
<1>6. CASE IgnoreResponse BY <1>6, HandledTraffic DEF IgnoreResponse
<1> QED BY <1>1, <1>2, <1>3, <1>4, <1>5, <1>6 DEF PeerStep, DataStep

\* How every promise stands when a service ends in a flush.
LEMMA EndOutcomes ==
  ASSUME IInv, Behind, current # None, NEW how \in Outcomes \ {"none", "pending"}, NEW tm,
         Flush(requests, Settle(outcome, current, how), tm, immediates)
  PROVE  /\ current' # current /\ current \in Req
         /\ outcome'[current] = IF outcome[current] = "pending" THEN how ELSE outcome[current]
         /\ \A r \in Req : r # current => outcome'[r] \in {outcome[r], "Offline"}
<1> DEFINE out == Settle(outcome, current, how)
<1>1. /\ out \in [Req -> Outcomes]
      /\ \A r \in Req : out[r] = IF r = current /\ outcome[r] = "pending" THEN how ELSE outcome[r]
  BY LineState, SettleAllType DEF Settle
<1>2. current \in Req BY LineState, BoundsAssumption DEF Req, None
<1> HIDE DEF out
<1>3. \A r \in Req : current < r /\ r <= Registered => out[r] = "pending"
  BY <1>1, LineState DEF Behind
<1>4. /\ current' = None \/ (current' \in (current + 1)..Registered /\ outcome'[current'] = "pending")
      /\ \A r \in Req : outcome'[r] = out[r] \/ (out[r] = "pending" /\ outcome'[r] = "Offline")
  <2>1. /\ Registered \in Nat /\ Registered <= MaxRequests /\ current \in 0..Registered
        /\ requests \in Seq(1..Registered) /\ \A i \in 1..Len(requests) : current < requests[i]
    BY LineState
  <2>2. Flush(requests, out, tm, immediates) BY DEF out
  <2> QED BY <1>1, <1>3, <2>1, <2>2, FlushMovesOn
<1>5. out[current] # "pending" BY <1>1, <1>2
<1> QED BY <1>1, <1>2, <1>4, <1>5, LineState

\* And when the whole line is given up.
LEMMA ClearOutcomes ==
  ASSUME IInv, NEW how \in Outcomes \ {"none", "pending"}, ClearAllRequests(how)
  PROVE  /\ current' = None
         /\ current # None => /\ current \in Req
                              /\ outcome'[current] =
                                   IF outcome[current] = "pending" THEN how ELSE outcome[current]
         /\ \A r \in Req : r # current =>
              outcome'[r] = outcome[r] \/ (outcome'[r] = "OutOfSync" /\ current < r /\ current # None)
<1> DEFINE mid == Settle(outcome, current, how)
<1>1. /\ mid \in [Req -> Outcomes]
      /\ \A r \in Req : mid[r] = IF r = current /\ outcome[r] = "pending" THEN how ELSE outcome[r]
  BY LineState, SettleAllType DEF Settle
<1>2. current' = None /\ outcome' = SettleAll(mid, Range(requests), "OutOfSync")
  BY DEF ClearAllRequests
<1>3. "OutOfSync" \in Outcomes BY DEF Outcomes, Errors
<1>4. current # None => current \in Req BY LineState, BoundsAssumption DEF Req, None
<1> HIDE DEF mid
<1>5. \A r \in Req : outcome'[r] = IF r \in Range(requests) /\ mid[r] = "pending"
                                   THEN "OutOfSync" ELSE mid[r]
  BY <1>1, <1>2, <1>3, SettleAllType
<1>6. \A r \in Range(requests) : current < r /\ current # None
  <2> TAKE r \in Range(requests)
  <2>1. PICK i \in 1..Len(requests) : requests[i] = r BY LineState, RangeEquality
  <2>2. requests # <<>> BY <2>1, EmptySeq
  <2> QED BY <2>1, <2>2, LineState, InState
<1>7. current # None => outcome'[current] = mid[current]
  BY <1>1, <1>4, <1>5
<1> QED BY <1>1, <1>2, <1>4, <1>5, <1>6, <1>7

\* The steps that leave the transport alone keep the request in service, or a
\* timeout gives it up.
LEMMA SharedStepEnding ==
  ASSUME IInv, Behind, Standing,
         UserStep \/ TimerStep \/ PeerStep \/ DataStep \/ LinkUp \/ UNCHANGED vars
  PROVE  Stays \/ GivesUp
<1>1. ASSUME NEW fc \in FC, Register(fc) PROVE Stays
  <2> DEFINE n == Registered + 1
             out == [outcome EXCEPT ![n] = "pending"]
  <2>1. /\ out \in [Req -> Outcomes]
        /\ \A r \in Req : out[r] = IF r = n THEN "pending" ELSE outcome[r]
    BY LineState DEF Outcomes
  <2> HIDE DEF out
  <2>2. CASE current # None
    <3>1. outcome' = out /\ UNCHANGED <<current, answeredBy>> BY <1>1, <2>2 DEF Register, out
    <3>2. current \in Req /\ current # n BY <2>2, LineState, BoundsAssumption DEF Req, None
    <3> QED BY <2>1, <3>1, <3>2 DEF Stays
  <2>3. CASE current = None
    <3>1. UNCHANGED answeredBy BY <1>1 DEF Register
    <3>2. Flush(Append(requests, n), out, timers, immediates) BY <1>1, <2>3 DEF Register, out
    <3>3. \A r \in Req : outcome'[r] = out[r] \/ outcome'[r] = "Offline"
      <4>1. outcome' = out \/ outcome' = Settle(out, Head(Append(requests, n)), "Offline")
        BY <3>2 DEF Flush
      <4> QED BY <4>1, <2>1, SettleAllType DEF Settle, Outcomes, Errors
    <3> QED BY <2>1, <2>3, <3>1, <3>3 DEF Stays
  <2> QED BY <2>2, <2>3
<1>2. CASE ManuallyRejectCurrentRequest \/ CustomErrorRequest
  <2>1. PICK how \in {"ManuallyCleared", "Custom"} : outcome' = Settle(outcome, current, how)
    BY <1>2 DEF ManuallyRejectCurrentRequest, CustomErrorRequest
  <2>2. \A r \in Req : outcome'[r] = IF r = current /\ outcome[r] = "pending" THEN how ELSE outcome[r]
    BY <2>1, LineState, SettleAllType DEF Settle, Outcomes, Errors
  <2>3. UNCHANGED <<current, answeredBy>>
    BY <1>2 DEF ManuallyRejectCurrentRequest, CustomErrorRequest
  <2>4. current # None => current \in Req BY LineState, BoundsAssumption DEF Req, None
  <2> QED BY <2>2, <2>3, <2>4 DEF Stays
<1>3. ASSUME NEW r \in Req, TimeoutFires(r) PROVE GivesUp
  <2>1. r = current /\ current # None BY <1>3, InState DEF Core, LineInv, TimeoutFires
  <2>2. /\ Flush(requests, Settle(outcome, current, "Timeout"), timers \ {r, current}, immediates)
        /\ UNCHANGED answeredBy
    BY <1>3, <2>1 DEF TimeoutFires
  <2>3. /\ current' # current /\ current \in Req
        /\ outcome'[current] = IF outcome[current] = "pending" THEN "Timeout" ELSE outcome[current]
        /\ \A x \in Req : x # current => outcome'[x] \in {outcome[x], "Offline"}
    BY <2>1, <2>2, EndOutcomes DEF Outcomes, Errors
  <2>4. outcome'[current] \in {"Timeout", "ManuallyCleared", "Custom"}
    BY <2>1, <2>3 DEF Standing
  <2> QED BY <2>1, <2>2, <2>3, <2>4 DEF GivesUp, GivenUp
<1>4. CASE ImmediateFires
  BY <1>4, InState DEF ImmediateFires, Flush, Stays
<1>5. CASE PeerStep \/ DataStep \/ LinkUp \/ UNCHANGED vars
  BY <1>5 DEF PeerStep, Answer, Misbehave, Send, DataStep, DataEvent, DrainEnds,
     IgnoreResponse, Handling, LinkUp, vars, handler, network, Stays
<1> QED BY <1>1, <1>2, <1>3, <1>4, <1>5 DEF UserStep, ManuallyRejectRequests, TimerStep

\* A failed check that blames the transport gives the request in service up.
LEMMA BlameEnding ==
  ASSUME IInv, Standing, current # None, NEW how \in GivenUp, ClearAllRequests(how),
         UNCHANGED answeredBy
  PROVE  GivesUp
<1>1. how \in Outcomes \ {"none", "pending"} BY DEF GivenUp, Outcomes, Errors
<1>2. /\ current' = None /\ current \in Req
      /\ outcome'[current] = IF outcome[current] = "pending" THEN how ELSE outcome[current]
      /\ \A r \in Req : r # current =>
           outcome'[r] = outcome[r] \/ (outcome'[r] = "OutOfSync" /\ current < r)
  BY <1>1, ClearOutcomes
<1>3. outcome'[current] \in GivenUp BY <1>2 DEF Standing, GivenUp
<1>4. outcome'[current] \notin {"resolved", "OutOfSync"} BY <1>3 DEF GivenUp
<1> QED BY <1>2, <1>3, <1>4 DEF GivesUp

\* A response that is not the expected one puts the client out of sync.
LEMMA OutOfSyncEnding ==
  ASSUME IInv, current # None, ClearAllRequests("OutOfSync"), UNCHANGED answeredBy,
         NEW res, res.envelope = "good", res.origin # current \/ res.fc # issued[current]
  PROVE  Takes(res)
<1>1. "OutOfSync" \in Outcomes \ {"none", "pending"} BY DEF Outcomes, Errors
<1>2. /\ current' = None /\ current \in Req
      /\ outcome'[current] = IF outcome[current] = "pending" THEN "OutOfSync" ELSE outcome[current]
      /\ \A r \in Req : r # current =>
           outcome'[r] = outcome[r] \/ (outcome'[r] = "OutOfSync" /\ current < r)
  BY <1>1, ClearOutcomes
<1>3. current <= current BY LineState
<1>4. \A r \in Req : current < r => current <= r BY LineState, BoundsAssumption DEF Req
<1> QED BY <1>2, <1>3, <1>4 DEF Takes

\* A response that passed the transport's checks keeps the request in service
\* (an unknown exception) or ends it.
LEMMA HandleEnding ==
  ASSUME IInv, Behind, Handling, InService, response.envelope = "good", Handle
  PROVE  Stays \/ Takes(response)
<1>1. current # None /\ answeredBy \in [Req -> Req \cup {None}]
  BY InState DEF InService, Env
<1>2. CASE FcMismatch
  BY <1>1, <1>2, OutOfSyncEnding DEF FcMismatch, Desynchronise
<1>3. ASSUME NEW how \in {"ModbusException", "resolved"}, Finish(how),
             how = "resolved" => response.fc = issued[current]
      PROVE  Takes(response)
  <2>1. Flush(requests, Settle(outcome, current, how), timers \ {current}, immediates)
    BY <1>3 DEF Finish
  <2>2. /\ current' # current /\ current \in Req
        /\ outcome'[current] = IF outcome[current] = "pending" THEN how ELSE outcome[current]
        /\ \A r \in Req : r # current => outcome'[r] \in {outcome[r], "Offline"}
    BY <1>1, <2>1, EndOutcomes DEF Outcomes, Errors
  <2>3. \A r \in Req : answeredBy'[r] = IF r = current /\ outcome[r] = "pending"
                                        THEN response.origin ELSE answeredBy[r]
    BY <1>1, <1>3, <2>2 DEF Finish
  <2> HIDE DEF response
  <2> QED BY <1>1, <1>3, <2>2, <2>3 DEF Takes
<1>4. CASE ExceptionResponse BY <1>3, <1>4 DEF ExceptionResponse
<1>5. CASE NormalResponse BY <1>3, <1>5 DEF NormalResponse
<1>6. CASE UnknownException BY <1>6 DEF UnknownException, Stays
<1> QED BY <1>2, <1>4, <1>5, <1>6 DEF Handle

=============================================================================
