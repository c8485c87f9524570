------------------------ MODULE PaymentConsumerProofs -----------------------
(***************************************************************************)
(* Theorems about PaymentConsumer, for any payments, handlers, retries and *)
(* failures.                                                               *)
(*                                                                         *)
(* Inv adds to the properties what a handler may rely on from the place it *)
(* has reached (HandlerKnows), what a message with a retry count tells of  *)
(* its payment while a handler holds it (RetryIsProcessed), and, if every  *)
(* retry has a queue, that an event is in the hands of someone who has     *)
(* not yet done with it (EventHeld): a handler that is about to            *)
(* acknowledge does not count.                                             *)
(***************************************************************************)
EXTENDS PaymentConsumer, FiniteSetTheorems, TLAPS

\* What a handler's place says about its message and its payment.
HandlerKnows ==
  \A h \in Handler :
    /\ pc[h] = "idle" => attached[h]
    /\ pc[h] # "idle" => msg[h] \in Message
    /\ pc[h] \in {"send", "retry"} =>
         seen[h] \in Final /\ status[msg[h].payment] \in Final

\* RetriedIsProcessed, of the messages that the handlers hold.
RetryIsProcessed ==
  \A h \in Handler :
    pc[h] # "idle" /\ msg[h].retry > 0 => status[msg[h].payment] \in Final

\* An event of p that someone has still to deal with.
Held(p) ==
  \/ \E m \in Message : m.payment = p /\ ready[m] + delayed[m] > 0
  \/ \E h \in InFlight : msg[h].payment = p /\ pc[h] # "ack"

EventHeld ==
  \A p \in Payment : events[p] > 0 => Held(p) \/ p \in accepted \/ InDlq(p)

Inv ==
  /\ TypeOK
  /\ HandlerKnows
  /\ RetryIsProcessed
  /\ RetriedIsProcessed
  /\ WebhookAfterCommit

-----------------------------------------------------------------------------

\* The fields of a message.
LEMMA MessageFields ==
  ASSUME NEW m \in Message
  PROVE  /\ m.payment \in Payment /\ m.retry \in 0..MaxRetries
         /\ m = [payment |-> m.payment, retry |-> m.retry]
         /\ m # NoMessage
BY ConsumerAssumption DEF Message

\* The message that the dispatcher publishes.
LEMMA FirstMessage ==
  ASSUME NEW p \in Payment
  PROVE  /\ [payment |-> p, retry |-> 0] \in Message
         /\ [payment |-> p, retry |-> 0].payment = p
         /\ [payment |-> p, retry |-> 0].retry = 0
BY ConsumerAssumption DEF Message

\* The message of the next retry.
LEMMA NextMessage ==
  ASSUME NEW m \in Message, m.retry < MaxRetries
  PROVE  /\ [m EXCEPT !.retry = @ + 1] \in Message
         /\ [m EXCEPT !.retry = @ + 1].payment = m.payment
         /\ [m EXCEPT !.retry = @ + 1].retry = m.retry + 1
<1>1. m.payment \in Payment /\ m.retry \in 0..MaxRetries /\ MaxRetries \in Nat
  BY MessageFields, ConsumerAssumption
<1>2. [m EXCEPT !.retry = @ + 1] = [payment |-> m.payment, retry |-> m.retry + 1]
  BY DEF Message
<1>3. m.retry + 1 \in 0..MaxRetries
  BY <1>1
<1> QED BY <1>1, <1>2, <1>3 DEF Message

\* A subset of the handlers is finite, and has a size.
LEMMA HandlersCounted ==
  ASSUME NEW H \in SUBSET Handler
  PROVE  /\ IsFiniteSet(H) /\ Cardinality(H) \in Nat
         /\ Cardinality(H) = 0 <=> H = {}
<1>1. IsFiniteSet(H)
  BY FS_Subset, ConsumerAssumption
<1> QED BY <1>1, FS_CardinalityType, FS_EmptySet

\* What the broker puts back comes from a handler, and nothing that a
\* handler holds is forgotten.
LEMMA PutBackFacts ==
  ASSUME TypeOK, PutBack
  PROVE  /\ ready' \in [Message -> Nat] /\ again' \in [Payment -> Nat]
         /\ UNCHANGED <<delayed, dlq>>
         /\ \A m \in Message : ready'[m] >= ready[m]
         /\ \A m \in Message : ready'[m] > ready[m] => \E h \in InFlight : msg[h] = m
         /\ \A h \in InFlight : msg[h] \in Message => ready'[msg[h]] > 0
<1> DEFINE Of(m) == {h \in InFlight : msg[h] = m}
           OfPayment(p) == {h \in InFlight : msg[h].payment = p}
<1>1. \A m \in Message : Cardinality(Of(m)) \in Nat /\ (Cardinality(Of(m)) = 0 <=> Of(m) = {})
  BY HandlersCounted DEF InFlight
<1>2. \A p \in Payment : Cardinality(OfPayment(p)) \in Nat
  BY HandlersCounted DEF InFlight
<1>3. /\ ready' = [m \in Message |-> ready[m] + Cardinality(Of(m))]
      /\ again' = [p \in Payment |-> again[p] + Cardinality(OfPayment(p))]
      /\ UNCHANGED <<delayed, dlq>>
  BY DEF PutBack
<1>4. ready \in [Message -> Nat] /\ again \in [Payment -> Nat]
  BY DEF TypeOK
<1> HIDE DEF OfPayment
<1>5. again' \in [Payment -> Nat]
  BY <1>2, <1>3, <1>4
<1>6. \A h \in InFlight : msg[h] \in Message => Of(msg[h]) # {}
  OBVIOUS
<1>7. \A m \in Message : Of(m) # {} => \E h \in InFlight : msg[h] = m
  OBVIOUS
<1> HIDE DEF Of
<1>8. ready' \in [Message -> Nat]
  BY <1>1, <1>3, <1>4
<1>9. \A m \in Message : ready'[m] = ready[m] + Cardinality(Of(m))
  BY <1>3
<1>10. \A m \in Message : ready'[m] >= ready[m]
  BY <1>1, <1>4, <1>9
<1>11. \A m \in Message : ready'[m] > ready[m] => \E h \in InFlight : msg[h] = m
  BY <1>1, <1>4, <1>7, <1>9
<1>12. \A h \in InFlight : msg[h] \in Message => ready'[msg[h]] > 0
  BY <1>1, <1>4, <1>6, <1>9
<1> QED BY <1>3, <1>5, <1>8, <1>10, <1>11, <1>12

\* The Republish of a message leaves it in one place more, or in the DLQ.
LEMMA RepublishFacts ==
  ASSUME TypeOK, NEW m \in Message, Republish(m)
  PROVE  /\ ready' = ready /\ delayed' \in [Message -> Nat] /\ dlq' \subseteq Letter
         /\ dlq \subseteq dlq'
         /\ \A k \in Message : delayed'[k] >= delayed[k]
         /\ \A k \in Message : delayed'[k] > delayed[k] => k.payment = m.payment
         /\ MaxRetries <= RetryQueues =>
              \/ \E k \in Message : k.payment = m.payment /\ delayed'[k] > 0
              \/ \E x \in dlq' : x.payment = m.payment
<1> USE ConsumerAssumption
<1>1. delayed \in [Message -> Nat] /\ dlq \subseteq Letter
  BY DEF TypeOK
<1>2. ready' = ready
  BY DEF Republish
<1>3. CASE m.retry < MaxRetries /\ ToRetryQueue([m EXCEPT !.retry = @ + 1])
  <2> DEFINE n == [m EXCEPT !.retry = @ + 1]
  <2>1. n \in Message /\ n.payment = m.payment /\ n.retry = m.retry + 1 /\ m.retry \in Nat
    BY <1>3, NextMessage, MessageFields
  <2>2. /\ delayed' = IF n.retry <= RetryQueues THEN [delayed EXCEPT ![n] = @ + 1] ELSE delayed
        /\ dlq' = dlq
    BY <1>3 DEF ToRetryQueue
  <2> HIDE DEF n
  <2> QED BY <1>1, <1>2, <1>3, <2>1, <2>2
<1>4. CASE m.retry >= MaxRetries /\ ToDlx(m)
  <2> DEFINE x == [payment |-> m.payment, retry |-> m.retry, cause |-> "exhausted"]
  <2>1. x \in Letter /\ x.payment = m.payment
    BY MessageFields DEF Letter
  <2>2. delayed' = delayed /\ dlq' = dlq \cup {x}
    BY <1>4 DEF ToDlx
  <2> HIDE DEF x
  <2> QED BY <1>1, <1>2, <2>1, <2>2
<1> QED BY <1>3, <1>4 DEF Republish

-----------------------------------------------------------------------------

\* Nothing is delivered, published or told at the start.
LEMMA InitInv == Init => Inv
<1> SUFFICES ASSUME Init PROVE Inv
  OBVIOUS
<1> USE ConsumerAssumption
<1>1. TypeOK
  <2>1. spent \in [crash: 0..MaxCrashes, detach: 0..MaxDetaches, fault: 0..MaxFaults]
    BY DEF Init
  <2>2. /\ status \in [Payment -> Status]
        /\ ready \in [Message -> Nat] /\ delayed \in [Message -> Nat] /\ dlq \subseteq Letter
    BY DEF Init, Status
  <2>3. /\ pc \in [Handler -> Place] /\ msg \in [Handler -> Message \cup {NoMessage}]
        /\ seen \in [Handler -> Status] /\ attached \in [Handler -> BOOLEAN]
    BY DEF Init, Status, Place
  <2>4. /\ events \in [Payment -> Nat] /\ again \in [Payment -> Nat] /\ posts \in [Payment -> Nat]
        /\ heard \in [Payment -> SUBSET Status] /\ accepted \subseteq Payment
    BY DEF Init
  <2> QED BY <2>1, <2>2, <2>3, <2>4 DEF TypeOK
<1>2. HandlerKnows /\ RetryIsProcessed
  BY DEF Init, HandlerKnows, RetryIsProcessed
<1>3. RetriedIsProcessed
  BY DEF Init, RetriedIsProcessed
<1>4. WebhookAfterCommit
  BY DEF Init, WebhookAfterCommit
<1> QED BY <1>1, <1>2, <1>3, <1>4 DEF Inv

\* A failing call is counted.
LEMMA FaultType ==
  ASSUME TypeOK, Fault
  PROVE  spent' \in [crash: 0..MaxCrashes, detach: 0..MaxDetaches, fault: 0..MaxFaults]
BY ConsumerAssumption DEF TypeOK, Fault

\* A final outcome may be replaced by another, but never taken back.
LEMMA FinalStays ==
  ASSUME Inv, [Next]_vars, NEW p \in Payment, status[p] \in Final
  PROVE  status'[p] \in Final
<1>1. status \in [Payment -> Status]
  BY DEF Inv, TypeOK
<1>2. ASSUME NEW q \in Payment, Create(q) PROVE status'[p] \in Final
  BY <1>1, <1>2 DEF Create, Final
<1>3. ASSUME NEW h \in Handler, NEW s \in Final, Overwrite(msg[h].payment, s)
      PROVE  status'[p] \in Final
  BY <1>1, <1>3 DEF Overwrite
<1>4. ASSUME NEW h \in Handler, NEW s \in Final, Process(h, s) \/ ProcessUnknown(h, s)
      PROVE  status'[p] \in Final
  BY <1>3, <1>4 DEF Process, ProcessUnknown
<1>5. CASE UNCHANGED status
  BY <1>5
<1>6. ASSUME NEW h \in Handler, Step(h) \/ Failure(h) PROVE status'[p] \in Final
  BY <1>4, <1>5, <1>6
  DEF Step, Failure, Deliver, Load, SendOk, SendFails, SendRaises, RetryOrDlq, Ack,
      DeadLetter, DbError, RetryRaises
<1> QED
  BY <1>2, <1>5, <1>6 DEF Next, Consumer, Arrive, Expire, Crash, Detach, vars

\* The types of what a handler is given to handle.
LEMMA HandlerTypes ==
  ASSUME Inv, NEW h \in Handler, pc[h] # "idle"
  PROVE  /\ msg[h] \in Message /\ msg[h].payment \in Payment
         /\ seen[h] \in Status
BY MessageFields DEF Inv, TypeOK, HandlerKnows

\* A handler that ends leaves the types of all handlers as they are.
LEMMA FreeTypes ==
  ASSUME TypeOK, NEW H \in SUBSET Handler, Free(H)
  PROVE  /\ pc' \in [Handler -> Place] /\ msg' \in [Handler -> Message \cup {NoMessage}]
         /\ seen' \in [Handler -> Status] /\ attached' \in [Handler -> BOOLEAN]
<1>1. "idle" \in Place /\ "absent" \in Status
  BY DEF Place, Status
<1> QED BY <1>1 DEF TypeOK, Free

\* The types of what the merchant has received.
LEMMA PostTypes ==
  ASSUME Inv, NEW h \in Handler, pc[h] # "idle", Post(h)
  PROVE  posts' \in [Payment -> Nat] /\ heard' \in [Payment -> SUBSET Status]
<1>1. msg[h].payment \in Payment /\ seen[h] \in Status
  BY HandlerTypes
<1> QED BY <1>1 DEF Post, Inv, TypeOK

\* Where the status that a handler reads leads it.
LEMMA LoadCases ==
  ASSUME Inv, NEW h \in Handler, Load(h)
  PROVE  LET s == status[msg[h].payment] IN
           /\ seen' = [seen EXCEPT ![h] = s]
           /\ \/ s = "absent" /\ Goto(h, "missing")
              \/ s = "PENDING" /\ Goto(h, "process")
              \/ s \in Final /\ Goto(h, "send")
<1> DEFINE s == status[msg[h].payment]
<1> DEFINE place == CASE s = "absent" -> "missing"
                      [] s = "PENDING" -> "process"
                      [] s \in Final -> "send"
<1>1. s \in Status
  BY HandlerTypes DEF Load, Inv, TypeOK
<1>2. seen' = [seen EXCEPT ![h] = s] /\ Goto(h, place)
  BY DEF Load
<1> HIDE DEF s
<1>3. ASSUME s = "absent" PROVE place = "missing"
  <2>1. s # "PENDING" /\ s \notin Final
    BY <1>3 DEF Final
  <2> QED BY <1>3, <2>1, Zenon
<1>4. ASSUME s = "PENDING" PROVE place = "process"
  <2>1. s # "absent" /\ s \notin Final
    BY <1>4 DEF Final
  <2> QED BY <1>4, <2>1, Zenon
<1>5. ASSUME s \in Final PROVE place = "send"
  <2>1. s # "absent" /\ s # "PENDING"
    BY <1>5 DEF Final
  <2> QED BY <1>5, <2>1, Zenon
<1>6. s = "absent" \/ s = "PENDING" \/ s \in Final
  BY <1>1 DEF Status
<1> HIDE DEF place
<1>7. /\ seen' = [seen EXCEPT ![h] = s]
      /\ \/ s = "absent" /\ Goto(h, "missing")
         \/ s = "PENDING" /\ Goto(h, "process")
         \/ s \in Final /\ Goto(h, "send")
  BY <1>2, <1>3, <1>4, <1>5, <1>6
<1> QED BY <1>7 DEF s

\* Every step keeps the types.
LEMMA TypeStep == Inv /\ [Next]_vars => TypeOK'
<1> SUFFICES ASSUME Inv, [Next]_vars PROVE TypeOK'
  OBVIOUS
<1> USE ConsumerAssumption
<1>0. TypeOK
  BY DEF Inv
<1>1. ASSUME NEW p \in Payment, Create(p) PROVE TypeOK'
  BY <1>0, <1>1 DEF Create, TypeOK, Status, queues, handlers, merchant, counts
<1>2. ASSUME NEW p \in Payment, Arrive(p) PROVE TypeOK'
  BY <1>0, <1>2, FirstMessage DEF Arrive, TypeOK, handlers, merchant
<1>3. ASSUME NEW m \in Message, Expire(m) PROVE TypeOK'
  BY <1>0, <1>3 DEF Expire, TypeOK, handlers, merchant, counts
<1>4. ASSUME NEW h \in Handler, NEW m \in Message, Deliver(h, m) PROVE TypeOK'
  BY <1>0, <1>4 DEF Deliver, TypeOK, Place, merchant, counts
<1>5. ASSUME NEW h \in Handler, Load(h) PROVE TypeOK'
  <2>1. msg[h].payment \in Payment
    BY <1>5, HandlerTypes DEF Load
  <2>2. status[msg[h].payment] \in Status
    BY <1>0, <2>1 DEF TypeOK
  <2>3. PICK place \in Place : Goto(h, place)
    BY <1>5, LoadCases DEF Place, Unsettled
  <2>4. seen' \in [Handler -> Status]
    BY <1>0, <1>5, <2>2 DEF Load, TypeOK
  <2>5. pc' \in [Handler -> Place] /\ UNCHANGED <<msg, attached>>
    BY <1>0, <2>3 DEF TypeOK, Goto
  <2>6. UNCHANGED <<status, queues, merchant, counts>>
    BY <1>5 DEF Load
  <2> QED BY <1>0, <2>4, <2>5, <2>6 DEF TypeOK, queues, merchant, counts
<1>6. ASSUME NEW h \in Handler, NEW s \in Final, Process(h, s) PROVE TypeOK'
  BY <1>0, <1>6, HandlerTypes
  DEF Process, Overwrite, Goto, TypeOK, Place, Status, queues, merchant, counts
<1>7. ASSUME NEW h \in Handler, NEW s \in Final, ProcessUnknown(h, s) PROVE TypeOK'
  BY <1>0, <1>7, HandlerTypes, FaultType
  DEF ProcessUnknown, Overwrite, Goto, TypeOK, Place, Unsettled, Status, queues, merchant
<1>8. ASSUME NEW h \in Handler, DbError(h) PROVE TypeOK'
  BY <1>0, <1>8, FaultType DEF DbError, Goto, TypeOK, Place, Unsettled, queues, merchant
<1>9. ASSUME NEW h \in Handler, SendOk(h) PROVE TypeOK'
  BY <1>0, <1>9, HandlerTypes, PostTypes DEF SendOk, Goto, TypeOK, Place, queues, counts
<1>10. ASSUME NEW h \in Handler, SendFails(h) PROVE TypeOK'
  BY <1>0, <1>10, PostTypes DEF SendFails, Goto, TypeOK, Place, queues, merchant, counts
<1>11. ASSUME NEW h \in Handler, SendRaises(h) PROVE TypeOK'
  BY <1>0, <1>11 DEF SendRaises, Goto, TypeOK, Place, Unsettled, queues, merchant, counts
<1>12. ASSUME NEW h \in Handler, RetryOrDlq(h) PROVE TypeOK'
  <2>1. msg[h] \in Message /\ Republish(msg[h])
    BY <1>12, HandlerTypes DEF RetryOrDlq
  <2>2. ready' = ready /\ delayed' \in [Message -> Nat] /\ dlq' \subseteq Letter
    BY <1>0, <2>1, RepublishFacts
  <2>3. pc' \in [Handler -> Place]
    BY <1>0, <1>12 DEF RetryOrDlq, Goto, TypeOK, Place
  <2>4. UNCHANGED <<status, msg, attached, seen, merchant, counts>>
    BY <1>12 DEF RetryOrDlq, Goto
  <2> QED BY <1>0, <2>2, <2>3, <2>4 DEF TypeOK, merchant, counts
<1>13. ASSUME NEW h \in Handler, RetryRaises(h) PROVE TypeOK'
  <2>1. msg[h] \in Message /\ (UNCHANGED queues \/ Republish(msg[h]))
    BY <1>13, HandlerTypes DEF RetryRaises
  <2>2. ready' = ready /\ delayed' \in [Message -> Nat] /\ dlq' \subseteq Letter
    BY <1>0, <2>1, RepublishFacts DEF queues, TypeOK
  <2>3. pc' \in [Handler -> Place]
    BY <1>0, <1>13 DEF RetryRaises, Goto, TypeOK, Place, Unsettled
  <2>4. UNCHANGED <<status, msg, attached, seen, merchant, events, again>> /\ Fault
    BY <1>13 DEF RetryRaises, Goto
  <2> QED BY <1>0, <2>2, <2>3, <2>4, FaultType DEF TypeOK, merchant
<1>14. ASSUME NEW h \in Handler, Ack(h) PROVE TypeOK'
  BY <1>0, <1>14, FreeTypes DEF Ack, TypeOK, queues, merchant, counts
<1>15. ASSUME NEW h \in Handler, DeadLetter(h) PROVE TypeOK'
  <2> DEFINE x == [payment |-> msg[h].payment, retry |-> msg[h].retry, cause |-> pc[h]]
  <2>1. x \in Letter
    BY <1>15, HandlerTypes, MessageFields DEF DeadLetter, Letter, Unsettled
  <2>2. dlq' \subseteq Letter
    BY <1>0, <1>15, <2>1 DEF DeadLetter, TypeOK
  <2>3. Free({h}) /\ UNCHANGED <<status, ready, delayed, merchant, counts>>
    BY <1>15 DEF DeadLetter
  <2> HIDE DEF x
  <2> QED BY <1>0, <2>2, <2>3, FreeTypes DEF TypeOK, merchant, counts
<1>16. CASE Crash
  <2>1. spent' \in [crash: 0..MaxCrashes, detach: 0..MaxDetaches, fault: 0..MaxFaults]
    BY <1>0, <1>16 DEF Crash, TypeOK
  <2>2. PutBack /\ Free(Handler) /\ UNCHANGED <<status, merchant, events>>
    BY <1>16 DEF Crash
  <2> QED BY <1>0, <2>1, <2>2, PutBackFacts, FreeTypes DEF TypeOK, merchant
<1>17. CASE Detach
  <2>1. spent' \in [crash: 0..MaxCrashes, detach: 0..MaxDetaches, fault: 0..MaxFaults]
    BY <1>0, <1>17 DEF Detach, TypeOK
  <2>2. attached' \in [Handler -> BOOLEAN]
    BY <1>17 DEF Detach
  <2>3. PutBack /\ UNCHANGED <<status, pc, msg, seen, merchant, events>>
    BY <1>17 DEF Detach
  <2> QED BY <1>0, <2>1, <2>2, <2>3, PutBackFacts DEF TypeOK, merchant
<1>18. CASE UNCHANGED vars
  BY <1>0, <1>18 DEF TypeOK, vars, queues, handlers, merchant, counts
<1> QED
  BY <1>1, <1>2, <1>3, <1>4, <1>5, <1>6, <1>7, <1>8, <1>9, <1>10, <1>11, <1>12, <1>13, <1>14,
     <1>15, <1>16, <1>17, <1>18 DEF Next, Consumer, Step, Failure

\* What the handlers know, and what a retry count tells, stays true.
LEMMA KnowsStep ==
  Inv /\ [Next]_vars => HandlerKnows' /\ RetryIsProcessed' /\ RetriedIsProcessed'
<1> SUFFICES ASSUME Inv, [Next]_vars
             PROVE  HandlerKnows' /\ RetryIsProcessed' /\ RetriedIsProcessed'
  OBVIOUS
<1> DEFINE Goal == HandlerKnows' /\ RetryIsProcessed' /\ RetriedIsProcessed'
<1>0. TypeOK /\ HandlerKnows /\ RetryIsProcessed /\ RetriedIsProcessed
  BY DEF Inv
<1>a. \A p \in Payment : status[p] \in Final => status'[p] \in Final
  BY FinalStays
<1>b. \A m \in Message : m.payment \in Payment /\ m.retry \in Nat
  BY MessageFields, ConsumerAssumption
<1> USE DEF HandlerKnows, RetryIsProcessed, RetriedIsProcessed
\* A handler goes on with the message it has, and knows what it should.
<1>c. ASSUME NEW h \in Handler, NEW place \in Place, Goto(h, place), pc[h] # "idle",
             ready' = ready, delayed' = delayed,
             place # "idle", \A g \in Handler \ {h} : seen'[g] = seen[g],
             place \in {"send", "retry"} =>
               seen'[h] \in Final /\ status'[msg[h].payment] \in Final
      PROVE  Goal
  <2>1. /\ pc' = [pc EXCEPT ![h] = place] /\ msg' = msg /\ attached' = attached
        /\ pc \in [Handler -> Place]
    BY <1>0, <1>c DEF Goto, TypeOK
  <2>2. HandlerKnows'
    BY <1>0, <1>a, <1>b, <1>c, <2>1
  <2>3. RetryIsProcessed'
    BY <1>0, <1>a, <1>b, <1>c, <2>1
  <2>4. RetriedIsProcessed'
    BY <1>0, <1>a, <1>b, <1>c
  <2> QED BY <2>2, <2>3, <2>4
\* Handlers end.
<1>d. ASSUME NEW H \in SUBSET Handler, Free(H), status' = status,
             \A m \in Message : m.retry > 0 /\ ready'[m] + delayed'[m] > 0 =>
                                  status[m.payment] \in Final
      PROVE  Goal
  <2>1. HandlerKnows'
    BY <1>0, <1>d DEF Free
  <2>2. RetryIsProcessed'
    BY <1>0, <1>d DEF Free
  <2> QED BY <2>1, <2>2, <1>d
<1>1. ASSUME NEW p \in Payment, Create(p) PROVE Goal
  BY <1>0, <1>a, <1>b, <1>1 DEF Create, queues, handlers
<1>2. ASSUME NEW p \in Payment, Arrive(p) PROVE Goal
  <2>1. \A m \in Message : m.retry > 0 => ready'[m] = ready[m]
    BY <1>0, <1>2, FirstMessage DEF Arrive, TypeOK
  <2> QED BY <1>0, <1>2, <2>1 DEF Arrive, handlers
<1>3. ASSUME NEW m \in Message, Expire(m) PROVE Goal
  <2>1. \A n \in Message : ready'[n] + delayed'[n] = ready[n] + delayed[n]
    BY <1>0, <1>3 DEF Expire, TypeOK
  <2> QED BY <1>0, <1>3, <2>1 DEF Expire, handlers
<1>4. ASSUME NEW h \in Handler, NEW m \in Message, Deliver(h, m) PROVE Goal
  <2>1. \A n \in Message : ready'[n] + delayed'[n] > 0 => ready[n] + delayed[n] > 0
    BY <1>0, <1>4 DEF Deliver, TypeOK
  <2>2. /\ pc' = [pc EXCEPT ![h] = "load"] /\ msg' = [msg EXCEPT ![h] = m]
        /\ ready[m] > 0 /\ UNCHANGED <<status, delayed, seen, attached>>
        /\ pc[h] = "idle"
    BY <1>4 DEF Deliver
  <2>3. HandlerKnows'
    BY <1>0, <2>2 DEF TypeOK
  <2>4. RetryIsProcessed'
    BY <1>0, <2>2 DEF TypeOK
  <2>5. RetriedIsProcessed'
    BY <1>0, <2>1, <2>2
  <2> QED BY <2>3, <2>4, <2>5
<1>5. ASSUME NEW h \in Handler, Load(h) PROVE Goal
  <2>1. seen' = [seen EXCEPT ![h] = status[msg[h].payment]] /\ status' = status
        /\ pc[h] = "load" /\ UNCHANGED queues
    BY <1>5, LoadCases DEF Load
  <2>2. (\A g \in Handler \ {h} : seen'[g] = seen[g]) /\ seen'[h] = status[msg[h].payment]
    BY <1>0, <2>1 DEF TypeOK
  <2>3. CASE Goto(h, "missing") \/ Goto(h, "process")
    BY <2>1, <2>2, <2>3, <1>c DEF queues, Place, Unsettled
  <2>4. CASE status[msg[h].payment] \in Final /\ Goto(h, "send")
    BY <2>1, <2>2, <2>4, <1>c DEF queues, Place
  <2> QED BY <1>5, <2>3, <2>4, LoadCases
<1>6. ASSUME NEW h \in Handler, NEW s \in Final, Process(h, s) PROVE Goal
  <2>1. msg[h].payment \in Payment
    BY <1>6, HandlerTypes DEF Process
  <2>2. status'[msg[h].payment] \in Final /\ seen'[h] \in Final
    BY <1>0, <1>6, <2>1 DEF Process, Overwrite, TypeOK
  <2>3. \A g \in Handler \ {h} : seen'[g] = seen[g]
    BY <1>0, <1>6 DEF Process, TypeOK
  <2> QED BY <1>6, <2>2, <2>3, <1>c DEF Process, queues, Place
<1>7. ASSUME NEW h \in Handler, NEW s \in Final, ProcessUnknown(h, s) PROVE Goal
  BY <1>7, <1>c DEF ProcessUnknown, queues, Place, Unsettled
<1>8. ASSUME NEW h \in Handler, DbError(h) PROVE Goal
  BY <1>8, <1>c DEF DbError, queues, Place, Unsettled
<1>9. ASSUME NEW h \in Handler, SendOk(h) PROVE Goal
  BY <1>9, <1>c DEF SendOk, queues, Place
<1>10. ASSUME NEW h \in Handler, SendFails(h) PROVE Goal
  <2>1. seen'[h] \in Final /\ status'[msg[h].payment] \in Final
    BY <1>0, <1>10 DEF SendFails
  <2> QED BY <1>10, <2>1, <1>c DEF SendFails, queues, Place
<1>11. ASSUME NEW h \in Handler, SendRaises(h) PROVE Goal
  BY <1>11, <1>c DEF SendRaises, queues, Place, Unsettled
<1>12. ASSUME NEW h \in Handler, NEW place \in {"ack", "error"}, pc[h] = "retry",
              Republish(msg[h]), Goto(h, place), UNCHANGED <<status, seen>>
       PROVE  Goal
  <2>1. msg[h] \in Message /\ status[msg[h].payment] \in Final
    BY <1>0, <1>12
  <2>2. /\ ready' = ready
        /\ \A m \in Message : delayed'[m] > delayed[m] => m.payment = msg[h].payment
        /\ delayed' \in [Message -> Nat]
    BY <1>0, <1>12, <2>1, RepublishFacts
  <2>3. pc' = [pc EXCEPT ![h] = place] /\ msg' = msg /\ attached' = attached
    BY <1>12 DEF Goto
  <2>4. HandlerKnows'
    BY <1>0, <1>12, <2>3 DEF TypeOK
  <2>5. RetryIsProcessed'
    BY <1>0, <1>12, <2>3 DEF TypeOK
  <2>6. RetriedIsProcessed'
    BY <1>0, <1>12, <2>1, <2>2 DEF TypeOK
  <2> QED BY <2>4, <2>5, <2>6
<1>13. ASSUME NEW h \in Handler, RetryOrDlq(h) PROVE Goal
  BY <1>12, <1>13 DEF RetryOrDlq
<1>14. ASSUME NEW h \in Handler, RetryRaises(h) PROVE Goal
  <2>1. CASE Republish(msg[h])
    BY <1>12, <1>14, <2>1 DEF RetryRaises
  <2>2. CASE UNCHANGED queues
    BY <1>14, <2>2, <1>c DEF RetryRaises, queues, Place, Unsettled
  <2> QED BY <1>14, <2>1, <2>2 DEF RetryRaises
<1>15. ASSUME NEW h \in Handler, Ack(h) \/ DeadLetter(h) PROVE Goal
  <2>1. Free({h}) /\ UNCHANGED <<status, ready, delayed>>
    BY <1>15 DEF Ack, DeadLetter, queues
  <2> QED BY <1>0, <2>1, <1>d
<1>16. ASSUME PutBack
       PROVE  \A m \in Message : m.retry > 0 /\ ready'[m] + delayed'[m] > 0 =>
                                   status[m.payment] \in Final
  <2>1. ASSUME NEW m \in Message, m.retry > 0, ready'[m] + delayed'[m] > 0
        PROVE  ready[m] + delayed[m] > 0 \/ \E h \in InFlight : msg[h] = m
    BY <1>0, <1>16, <2>1, PutBackFacts DEF TypeOK
  <2> QED BY <1>0, <2>1 DEF InFlight
<1>17. CASE Crash
  BY <1>16, <1>17, <1>d DEF Crash
<1>18. CASE Detach
  <2>1. PutBack /\ UNCHANGED <<status, pc, msg, seen>>
        /\ attached' = [h \in Handler |-> pc[h] = "idle"]
    BY <1>18 DEF Detach
  <2> QED BY <1>0, <1>16, <2>1
<1>19. CASE UNCHANGED vars
  BY <1>0, <1>19 DEF vars, queues, handlers
<1> QED
  BY <1>1, <1>2, <1>3, <1>4, <1>5, <1>6, <1>7, <1>8, <1>9, <1>10, <1>11, <1>13, <1>14, <1>15,
     <1>17, <1>18, <1>19 DEF Next, Consumer, Step, Failure

\* What the merchant is told was committed before, and is final.
LEMMA ToldStep == Inv /\ [Next]_vars => WebhookAfterCommit'
<1> SUFFICES ASSUME Inv, [Next]_vars PROVE WebhookAfterCommit'
  OBVIOUS
<1>1. \A p \in Payment : status[p] \in Final => status'[p] \in Final
  BY FinalStays
<1>2. CASE UNCHANGED heard
  BY <1>1, <1>2 DEF Inv, WebhookAfterCommit
<1>3. ASSUME NEW h \in Handler, pc[h] = "send", Post(h)
      PROVE  WebhookAfterCommit'
  <2>1. /\ msg[h].payment \in Payment /\ seen[h] \in Final
        /\ status[msg[h].payment] \in Final
    BY <1>3, HandlerTypes DEF Inv, HandlerKnows
  <2>2. heard' = [heard EXCEPT ![msg[h].payment] = @ \cup {seen[h]}]
        /\ heard \in [Payment -> SUBSET Status]
    BY <1>3 DEF Post, Inv, TypeOK
  <2> QED BY <1>1, <2>1, <2>2 DEF Inv, WebhookAfterCommit
<1>4. ASSUME NEW h \in Handler, Step(h) \/ Failure(h)
      PROVE  WebhookAfterCommit'
  BY <1>2, <1>3, <1>4
  DEF Step, Failure, Deliver, Load, Process, ProcessUnknown, DbError, SendOk, SendFails,
      SendRaises, RetryOrDlq, RetryRaises, Ack, DeadLetter, merchant
<1> QED
  BY <1>2, <1>4 DEF Next, Consumer, Create, Arrive, Expire, Crash, Detach, vars, merchant

\* The invariant holds in every reachable state.
LEMMA Invariance == Spec => []Inv
<1>1. Init => Inv
  BY InitInv
<1>2. Inv /\ [Next]_vars => Inv'
  BY TypeStep, KnowsStep, ToldStep DEF Inv
<1> QED BY <1>1, <1>2, PTL DEF Spec

\* Types of the queues, the handlers and the counters; x-retry-count never
\* exceeds CONSUMER_MAX_RETRIES.
THEOREM TypeCorrect == Spec => []TypeOK
<1>1. Inv => TypeOK
  BY DEF Inv
<1> QED BY <1>1, Invariance, PTL

\* No webhook ahead of the commit of its outcome, however many handlers race,
\* crash or see a failed commit that took effect.
THEOREM WebhooksFollowCommits == Spec => []WebhookAfterCommit
<1>1. Inv => WebhookAfterCommit
  BY DEF Inv
<1> QED BY <1>1, Invariance, PTL

\* A message that has been retried is never processed again.
THEOREM RetriesDoNotProcess == Spec => []RetriedIsProcessed
<1>1. Inv => RetriedIsProcessed
  BY DEF Inv
<1> QED BY <1>1, Invariance, PTL

-----------------------------------------------------------------------------

\* Every step but the end of a handler leaves an event with someone, if
\* every retry has a queue.
LEMMA HeldStep ==
  ASSUME MaxRetries <= RetryQueues
  PROVE  Inv /\ EventHeld /\ [Next]_vars => EventHeld'
<1> SUFFICES ASSUME Inv, EventHeld, [Next]_vars,
                    NEW p \in Payment, events'[p] > 0
             PROVE  (Held(p) \/ p \in accepted \/ InDlq(p))'
  BY DEF EventHeld
<1> DEFINE Goal == (Held(p) \/ p \in accepted \/ InDlq(p))'
<1>0. TypeOK /\ HandlerKnows
  BY DEF Inv
<1>1. accepted \subseteq accepted' /\ dlq \subseteq dlq'
  <2>1. ASSUME NEW h \in Handler, pc[h] # "idle", Republish(msg[h]) PROVE dlq \subseteq dlq'
    BY <1>0, <2>1, HandlerTypes, RepublishFacts
  <2>2. ASSUME NEW h \in Handler, RetryOrDlq(h) \/ RetryRaises(h)
        PROVE  accepted \subseteq accepted' /\ dlq \subseteq dlq'
    BY <2>1, <2>2 DEF RetryOrDlq, RetryRaises, merchant, queues
  <2>3. ASSUME NEW h \in Handler, Step(h) \/ Failure(h)
        PROVE  accepted \subseteq accepted' /\ dlq \subseteq dlq'
    BY <2>2, <2>3
    DEF Step, Failure, Deliver, Load, Process, ProcessUnknown, DbError, SendOk, SendFails,
        SendRaises, Ack, DeadLetter, merchant, queues
  <2> QED
    BY <2>3 DEF Next, Consumer, Create, Arrive, Expire, Crash, Detach, PutBack, vars, merchant, queues
<1>2. CASE p \in accepted \/ InDlq(p)
  BY <1>1, <1>2 DEF InDlq
\* The queues keep what they have, and no handler moves.
<1>3. ASSUME Held(p), UNCHANGED <<pc, msg, attached>>,
             \A m \in Message : ready'[m] + delayed'[m] >= ready[m] + delayed[m],
             ready' \in [Message -> Nat], delayed' \in [Message -> Nat]
      PROVE  Goal
  BY <1>0, <1>3 DEF Held, InFlight, TypeOK
\* A handler goes on, and does not acknowledge.
<1>4. ASSUME Held(p), NEW h \in Handler, NEW place \in Place \ {"idle", "ack"},
             Goto(h, place),
             \A m \in Message : ready'[m] + delayed'[m] >= ready[m] + delayed[m],
             ready' \in [Message -> Nat], delayed' \in [Message -> Nat]
      PROVE  Goal
  <2>1. pc' = [pc EXCEPT ![h] = place] /\ UNCHANGED <<msg, attached>>
        /\ pc \in [Handler -> Place]
    BY <1>0, <1>4 DEF Goto, TypeOK
  <2>2. CASE \E m \in Message : m.payment = p /\ ready[m] + delayed[m] > 0
    BY <1>0, <1>4, <2>2 DEF Held, TypeOK
  <2>3. ASSUME NEW g \in InFlight, msg[g].payment = p, pc[g] # "ack"
        PROVE  Held(p)'
    <3>1. g \in InFlight' /\ pc'[g] # "ack"
      BY <2>1, <2>3, <1>4 DEF InFlight
    <3> QED BY <2>1, <2>3, <3>1 DEF Held
  <2> QED BY <1>4, <2>2, <2>3 DEF Held
\* A handler that does not hold p's event acknowledges or ends.
<1>5. ASSUME Held(p), NEW h \in Handler,
             h \in InFlight /\ pc[h] # "ack" => msg[h].payment # p,
             \A g \in Handler \ {h} :
               pc'[g] = pc[g] /\ msg'[g] = msg[g] /\ attached'[g] = attached[g],
             \A m \in Message : ready'[m] + delayed'[m] >= ready[m] + delayed[m],
             ready' \in [Message -> Nat], delayed' \in [Message -> Nat]
      PROVE  Goal
  <2>1. CASE \E m \in Message : m.payment = p /\ ready[m] + delayed[m] > 0
    BY <1>0, <1>5, <2>1 DEF Held, TypeOK
  <2>2. ASSUME NEW g \in InFlight, msg[g].payment = p, pc[g] # "ack"
        PROVE  Held(p)'
    <3>1. g # h /\ g \in Handler
      BY <1>5, <2>2 DEF InFlight
    <3>2. pc'[g] = pc[g] /\ msg'[g] = msg[g] /\ attached'[g] = attached[g]
      BY <1>5, <3>1
    <3>3. g \in InFlight'
      BY <2>2, <3>1, <3>2 DEF InFlight
    <3> QED BY <2>2, <3>2, <3>3 DEF Held
  <2> QED BY <1>5, <2>1, <2>2 DEF Held
\* Everything is put back.
<1>6. ASSUME Held(p), PutBack PROVE Goal
  <2>1. /\ ready' \in [Message -> Nat] /\ delayed' = delayed
        /\ \A m \in Message : ready'[m] >= ready[m]
        /\ \A h \in InFlight : msg[h] \in Message => ready'[msg[h]] > 0
    BY <1>0, <1>6, PutBackFacts
  <2>2. CASE \E m \in Message : m.payment = p /\ ready[m] + delayed[m] > 0
    BY <1>0, <2>1, <2>2 DEF Held, TypeOK
  <2>3. ASSUME NEW g \in InFlight, msg[g].payment = p
        PROVE  Held(p)'
    <3>1. msg[g] \in Message
      BY <1>0, <2>3 DEF HandlerKnows, InFlight
    <3>2. ready'[msg[g]] + delayed'[msg[g]] > 0
      BY <1>0, <2>1, <2>3, <3>1 DEF TypeOK
    <3> QED BY <2>3, <3>1, <3>2 DEF Held
  <2> QED BY <1>6, <2>2, <2>3 DEF Held
<1>7. ready \in [Message -> Nat] /\ delayed \in [Message -> Nat] /\ events \in [Payment -> Nat]
  BY <1>0 DEF TypeOK
<1>8. \A m \in Message : ready[m] + delayed[m] >= ready[m] + delayed[m]
  BY <1>7
<1> HIDE DEF Goal
<1>9. ASSUME NEW q \in Payment, Arrive(q), events[p] > 0 => Held(p) PROVE Goal
  <2>1. ready' = [ready EXCEPT ![[payment |-> q, retry |-> 0]] = @ + 1]
        /\ UNCHANGED <<delayed, pc, msg, attached>>
        /\ events' = [events EXCEPT ![q] = @ + 1]
    BY <1>9 DEF Arrive, handlers
  <2>2. ready' \in [Message -> Nat]
    BY <1>7, <2>1, FirstMessage
  <2>3. CASE q = p
    <3>1. ready'[[payment |-> p, retry |-> 0]] > 0
      BY <1>7, <2>1, <2>3, FirstMessage
    <3>2. Held(p)'
      BY <1>7, <2>1, <2>2, <3>1, FirstMessage DEF Held
    <3> QED BY <3>2 DEF Goal
  <2>4. CASE q # p
    <3>1. events[p] > 0
      BY <1>7, <2>1, <2>4
    <3>2. \A m \in Message : ready'[m] + delayed'[m] >= ready[m] + delayed[m]
      BY <1>7, <2>1, FirstMessage
    <3> QED BY <1>3, <1>7, <1>9, <2>1, <2>2, <3>1, <3>2
  <2> QED BY <2>3, <2>4
<1>10. ASSUME Held(p), NEW m \in Message, Expire(m) PROVE Goal
  <2>1. /\ \A n \in Message : ready'[n] + delayed'[n] >= ready[n] + delayed[n]
        /\ ready' \in [Message -> Nat] /\ delayed' \in [Message -> Nat]
    BY <1>7, <1>10 DEF Expire
  <2> QED BY <1>3, <1>10, <2>1 DEF Expire, handlers
<1>11. ASSUME Held(p), NEW h \in Handler, NEW m \in Message, Deliver(h, m) PROVE Goal
  <2>1. /\ pc' = [pc EXCEPT ![h] = "load"] /\ msg' = [msg EXCEPT ![h] = m]
        /\ attached' = attached /\ delayed' = delayed /\ pc[h] = "idle"
        /\ ready' = [ready EXCEPT ![m] = @ - 1] /\ ready[m] > 0
    BY <1>11 DEF Deliver
  <2>2. /\ pc \in [Handler -> Place] /\ msg \in [Handler -> Message \cup {NoMessage}]
        /\ attached[h]
    BY <1>0, <2>1 DEF TypeOK, HandlerKnows
  <2>3. CASE m.payment = p
    <3>1. h \in InFlight' /\ msg'[h].payment = p /\ pc'[h] # "ack"
      BY <2>1, <2>2, <2>3 DEF InFlight
    <3> QED BY <3>1 DEF Held, Goal
  <2>4. CASE m.payment # p
    <3>1. \A n \in Message : n.payment = p => ready'[n] = ready[n]
      BY <1>7, <2>1, <2>4
    <3>2. CASE \E n \in Message : n.payment = p /\ ready[n] + delayed[n] > 0
      BY <2>1, <3>1, <3>2 DEF Held, Goal
    <3>3. ASSUME NEW g \in InFlight, msg[g].payment = p, pc[g] # "ack" PROVE Goal
      <4>1. g \in InFlight' /\ msg'[g].payment = p /\ pc'[g] # "ack"
        BY <2>1, <2>2, <3>3 DEF InFlight
      <4> QED BY <4>1 DEF Held, Goal
    <3> QED BY <1>11, <3>2, <3>3 DEF Held
  <2> QED BY <2>3, <2>4
<1>12. ASSUME Held(p), NEW h \in Handler, SendOk(h) PROVE Goal
  <2>1. /\ Goto(h, "ack") /\ UNCHANGED queues
        /\ accepted' = accepted \cup {msg[h].payment}
    BY <1>12 DEF SendOk
  <2>2. CASE msg[h].payment = p
    BY <2>1, <2>2 DEF Goal
  <2>3. CASE msg[h].payment # p
    <3>1. \A g \in Handler \ {h} :
            pc'[g] = pc[g] /\ msg'[g] = msg[g] /\ attached'[g] = attached[g]
      BY <1>0, <2>1 DEF Goto, TypeOK
    <3> QED BY <1>5, <1>7, <1>8, <1>12, <2>1, <2>3, <3>1 DEF queues
  <2> QED BY <2>2, <2>3
<1>13. ASSUME Held(p), NEW h \in Handler, NEW place \in {"ack", "error"}, pc[h] = "retry",
              Republish(msg[h]), Goto(h, place)
       PROVE  Goal
  <2>1. msg[h] \in Message
    BY <1>13, HandlerTypes
  <2>2. /\ ready' = ready /\ delayed' \in [Message -> Nat]
        /\ \A m \in Message : delayed'[m] >= delayed[m]
        /\ \/ \E m \in Message : m.payment = msg[h].payment /\ delayed'[m] > 0
           \/ \E x \in dlq' : x.payment = msg[h].payment
    BY <1>0, <1>13, <2>1, RepublishFacts
  <2>3. CASE msg[h].payment = p
    BY <1>7, <2>2, <2>3 DEF Held, InDlq, Goal
  <2>4. CASE msg[h].payment # p
    <3>1. \A g \in Handler \ {h} :
            pc'[g] = pc[g] /\ msg'[g] = msg[g] /\ attached'[g] = attached[g]
      BY <1>0, <1>13 DEF Goto, TypeOK
    <3>2. \A m \in Message : ready'[m] + delayed'[m] >= ready[m] + delayed[m]
      BY <1>7, <2>2
    <3> QED BY <1>5, <1>7, <1>13, <2>2, <2>4, <3>1, <3>2
  <2> QED BY <2>3, <2>4
<1>14. ASSUME Held(p), NEW h \in Handler, Free({h}), UNCHANGED <<ready, delayed>>,
              pc[h] = "ack" \/ ~attached[h] \/ msg[h].payment # p
       PROVE  Goal
  <2>1. \A g \in Handler \ {h} :
          pc'[g] = pc[g] /\ msg'[g] = msg[g] /\ attached'[g] = attached[g]
    BY <1>14 DEF Free
  <2> QED BY <1>5, <1>7, <1>8, <1>14, <2>1 DEF InFlight
<1>15. ASSUME Held(p), NEW h \in Handler, DeadLetter(h) PROVE Goal
  <2>1. CASE attached[h] /\ msg[h].payment = p
    <3>1. dlq' = dlq \cup {[payment |-> msg[h].payment, retry |-> msg[h].retry, cause |-> pc[h]]}
      BY <1>15, <2>1 DEF DeadLetter
    <3> DEFINE x == [payment |-> msg[h].payment, retry |-> msg[h].retry, cause |-> pc[h]]
    <3>2. x.payment = p
      BY <2>1
    <3> QED BY <3>1, <3>2 DEF InDlq, Goal
  <2>2. CASE ~(attached[h] /\ msg[h].payment = p)
    BY <1>14, <1>15, <2>2 DEF DeadLetter
  <2> QED BY <2>1, <2>2
<1>16. ASSUME Held(p), NEW h \in Handler, Step(h) \/ Failure(h) PROVE Goal
  <2>1. ASSUME NEW place \in Place \ {"idle", "ack"}, Goto(h, place), UNCHANGED queues
        PROVE  Goal
    BY <1>4, <1>7, <1>8, <1>16, <2>1 DEF queues
  <2>2. {"process", "send", "retry", "error", "missing"} \subseteq Place \ {"idle", "ack"}
    BY DEF Place, Unsettled
  <2>3. CASE Load(h)
    BY <2>1, <2>2, <2>3, LoadCases DEF Load
  <2>4. ASSUME NEW s \in Final, Process(h, s) \/ ProcessUnknown(h, s) PROVE Goal
    BY <2>1, <2>2, <2>4 DEF Process, ProcessUnknown
  <2>5. CASE DbError(h) \/ SendFails(h) \/ SendRaises(h)
    BY <2>1, <2>2, <2>5 DEF DbError, SendFails, SendRaises
  <2>6. CASE RetryOrDlq(h)
    BY <1>13, <1>16, <2>6 DEF RetryOrDlq
  <2>7. CASE RetryRaises(h)
    BY <1>13, <1>16, <2>1, <2>2, <2>7 DEF RetryRaises
  <2>8. CASE Ack(h)
    BY <1>14, <1>16, <2>8 DEF Ack, queues
  <2> QED
    BY <1>11, <1>12, <1>15, <1>16, <2>3, <2>4, <2>5, <2>6, <2>7, <2>8 DEF Step, Failure
<1>17. CASE UNCHANGED events
  <2>1. CASE Held(p)
    <3>1. ASSUME UNCHANGED <<ready, delayed, pc, msg, attached>> PROVE Goal
      BY <1>3, <1>7, <1>8, <2>1, <3>1
    <3>2. CASE Crash \/ Detach
      <4>1. PutBack
        BY <3>2 DEF Crash, Detach
      <4> QED BY <1>6, <2>1, <4>1 DEF Goal
    <3>3. ASSUME NEW q \in Payment, Create(q) PROVE Goal
      BY <3>1, <3>3 DEF Create, queues, handlers
    <3>4. ASSUME NEW q \in Payment, Arrive(q) PROVE Goal
      BY <1>9, <2>1, <3>4
    <3>5. CASE UNCHANGED vars
      <4>1. UNCHANGED <<ready, delayed, pc, msg, attached>>
        BY <3>5 DEF vars, queues, handlers
      <4> QED BY <3>1, <4>1 DEF Goal
    <3>6. ASSUME NEW m \in Message, Expire(m) PROVE Goal
      BY <1>10, <2>1, <3>6
    <3>7. ASSUME NEW h \in Handler, Step(h) \/ Failure(h) PROVE Goal
      BY <1>16, <2>1, <3>7
    <3> QED BY <3>2, <3>3, <3>4, <3>5, <3>6, <3>7 DEF Next, Consumer, Goal
  <2> QED BY <1>2, <1>17, <2>1 DEF EventHeld, Goal
<1>18. CASE ~UNCHANGED events
  <2>1. PICK q \in Payment : Arrive(q)
    BY <1>18
    DEF Next, Consumer, Step, Failure, Deliver, Load, Process, ProcessUnknown, DbError, SendOk,
        SendFails, SendRaises, RetryOrDlq, RetryRaises, Ack, DeadLetter, Create, Expire,
        Crash, Detach, vars, counts
  <2> QED BY <1>2, <1>9, <2>1 DEF EventHeld, Goal
<1> QED BY <1>17, <1>18 DEF Goal

\* As long as CONSUMER_MAX_RETRIES does not exceed the declared retry queues,
\* no event gets lost between queues, handlers, crashes and connections.
THEOREM NoEventIsLost ==
  ASSUME MaxRetries <= RetryQueues
  PROVE  Spec => []NoEventLost
<1>1. Init => EventHeld
  BY DEF Init, EventHeld
<1>2. Inv /\ EventHeld /\ [Next]_vars => EventHeld'
  BY HeldStep
<1>3. EventHeld => NoEventLost
  BY DEF EventHeld, Held, NoEventLost, Carried
<1> QED BY <1>1, <1>2, <1>3, Invariance, PTL DEF Spec
=============================================================================
