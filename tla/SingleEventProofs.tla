-------------------------- MODULE SingleEventProofs -------------------------
(***************************************************************************)
(* The merchant is told one outcome, and it stays, if the dispatcher has   *)
(* published the event of a payment once and the consumer keeps its        *)
(* connection; its process may crash and its calls may fail at any point.  *)
(* Neither condition can go: a second message, from the dispatcher (run    *)
(* cons_duplicates) or put back while its first handler still runs, lets   *)
(* two handlers process one payment.                                       *)
(*                                                                         *)
(* The argument: as long as a payment has no outcome, one message at most  *)
(* is about it, in payments.new or with one handler (OneCopy).  So nobody  *)
(* can overtake a handler between its reading of the status and its        *)
(* update, and what it has read is still true (SnapshotIsFresh).           *)
(***************************************************************************)
EXTENDS PaymentConsumerProofs

\* The message that the dispatcher publishes.
First(p) == [payment |-> p, retry |-> 0]

\* Handler h has a message of payment p.
Handles(h, p) == pc[h] # "idle" /\ msg[h].payment = p

\* A payment without an outcome has one message, in one place.
OneCopy ==
  \A p \in Payment : status[p] \notin Final =>
    /\ ready[First(p)] <= 1
    /\ \A h \in Handler : Handles(h, p) => ready[First(p)] = 0
    /\ \A h, g \in Handler : Handles(h, p) /\ Handles(g, p) => h = g

\* Every message stems from one that was published.
NothingYet ==
  \A p \in Payment : events[p] = 0 =>
    /\ \A m \in Message : m.payment = p => ready[m] + delayed[m] = 0
    /\ \A h \in Handler : ~Handles(h, p)

\* Only retries wait.
RetriesWait == \A m \in Message : delayed[m] > 0 => m.retry > 0

\* What a handler has read of its payment is still so when it is used.
SnapshotIsFresh ==
  \A h \in Handler :
    /\ pc[h] = "process" => status[msg[h].payment] = "PENDING"
    /\ pc[h] \in {"send", "retry"} => seen[h] = status[msg[h].payment]

\* The merchant has heard nothing but what the database says.
ToldIsTrue == \A p \in Payment : heard[p] \subseteq {status[p]}

SingleInv == OneCopy /\ NothingYet /\ RetriesWait /\ SnapshotIsFresh /\ ToldIsTrue

-----------------------------------------------------------------------------

\* The one message of an event that has not been retried.
LEMMA FirstFacts ==
  ASSUME NEW p \in Payment
  PROVE  /\ First(p) \in Message /\ First(p).payment = p /\ First(p).retry = 0
         /\ \A m \in Message : m.payment = p /\ m.retry = 0 => m = First(p)
BY FirstMessage, MessageFields DEF First

\* A handler that processes is the only one for its payment, which has no
\* outcome yet.
LEMMA Alone ==
  ASSUME Inv, OneCopy, SnapshotIsFresh, NEW h \in Handler, pc[h] = "process"
  PROVE  /\ msg[h].payment \in Payment /\ status[msg[h].payment] = "PENDING"
         /\ heard[msg[h].payment] = {}
         /\ \A g \in Handler \ {h} : ~Handles(g, msg[h].payment)
<1>1. msg[h].payment \in Payment
  BY HandlerTypes
<1>2. status[msg[h].payment] = "PENDING" /\ status[msg[h].payment] \notin Final
  BY DEF SnapshotIsFresh, Final
<1>3. heard[msg[h].payment] = {}
  BY <1>1, <1>2 DEF Inv, WebhookAfterCommit
<1>4. Handles(h, msg[h].payment)
  BY DEF Handles
<1> QED BY <1>1, <1>2, <1>3, <1>4 DEF OneCopy

\* The update of a handler does not overwrite an outcome.
LEMMA OutcomeStays ==
  ASSUME Inv, SingleInv, [Next]_vars, NEW p \in Payment, status[p] \in Final
  PROVE  status'[p] = status[p]
<1>1. status \in [Payment -> Status] /\ status[p] # "PENDING" /\ status[p] # "absent"
  BY DEF Inv, TypeOK, Final
<1>2. ASSUME NEW q \in Payment, Create(q) PROVE status'[p] = status[p]
  BY <1>1, <1>2 DEF Create
<1>3. ASSUME NEW h \in Handler, NEW s \in Final, Process(h, s) \/ ProcessUnknown(h, s)
      PROVE  status'[p] = status[p]
  <2>1. pc[h] = "process" /\ Overwrite(msg[h].payment, s)
    BY <1>3 DEF Process, ProcessUnknown
  <2>2. status[msg[h].payment] = "PENDING"
    BY <2>1 DEF SingleInv, SnapshotIsFresh
  <2> QED BY <1>1, <2>1, <2>2 DEF Overwrite
<1>4. CASE UNCHANGED status
  BY <1>4
<1>5. ASSUME NEW h \in Handler, Step(h) \/ Failure(h) PROVE status'[p] = status[p]
  BY <1>3, <1>4, <1>5
  DEF Step, Failure, Deliver, Load, SendOk, SendFails, SendRaises, RetryOrDlq, Ack,
      DeadLetter, DbError, RetryRaises
<1> QED
  BY <1>2, <1>4, <1>5 DEF Next, Consumer, Arrive, Expire, Crash, Detach, vars

-----------------------------------------------------------------------------

\* Steps that put no message of a payment anywhere it was not before.
LEMMA CopyStays ==
  ASSUME Inv, OneCopy, [Next]_vars,
         \A p \in Payment : ready'[First(p)] = ready[First(p)],
         \A h \in Handler, p \in Payment : Handles(h, p)' => Handles(h, p)
  PROVE  OneCopy'
<1>1. \A p \in Payment : status'[p] \notin Final => status[p] \notin Final
  BY FinalStays
<1> QED BY <1>1 DEF OneCopy

\* A handler that goes on, or ends, has at most the message it had.
LEMMA GotoHandles ==
  ASSUME TypeOK, NEW h \in Handler, pc[h] # "idle", NEW place, Goto(h, place),
         NEW g \in Handler, NEW p \in Payment, Handles(g, p)'
  PROVE  Handles(g, p)
BY DEF TypeOK, Goto, Handles

\* A handler that ends has none.
LEMMA FreeHandles ==
  ASSUME TypeOK, NEW H \in SUBSET Handler, Free(H),
         NEW g \in Handler, NEW p \in Payment, Handles(g, p)'
  PROVE  Handles(g, p) /\ g \notin H
BY DEF TypeOK, Free, Handles

\* What is put back of a payment without an outcome is its one message.
LEMMA PutBackOne ==
  ASSUME Inv, OneCopy, PutBack, NEW p \in Payment, status[p] \notin Final
  PROVE  ready'[First(p)] <= 1
<1> DEFINE Of == {h \in InFlight : msg[h] = First(p)}
<1>1. /\ ready'[First(p)] = ready[First(p)] + Cardinality(Of)
      /\ ready[First(p)] \in Nat
  BY FirstFacts DEF PutBack, Inv, TypeOK
<1>2. \A h \in Of : Handles(h, p) /\ h \in Handler
  BY FirstFacts DEF InFlight, Handles
<1>3. CASE Of = {}
  <2>1. Cardinality(Of) = 0
    BY <1>3, FS_EmptySet
  <2> QED BY <1>1, <2>1 DEF OneCopy
<1>4. CASE Of # {}
  <2>1. PICK h \in Of : TRUE
    BY <1>4
  <2>2. Of = {h}
    BY <1>2, <2>1 DEF OneCopy
  <2>3. Cardinality(Of) = 1
    BY <2>2, FS_Singleton
  <2>4. ready[First(p)] = 0
    BY <1>2, <2>1 DEF OneCopy
  <2> QED BY <1>1, <2>3, <2>4
<1> QED BY <1>3, <1>4

\* Messages of a payment come from its event alone.
LEMMA NothingStep == Inv /\ NothingYet /\ [Next]_vars => NothingYet'
<1> SUFFICES ASSUME Inv, NothingYet, [Next]_vars,
                    NEW p \in Payment, events'[p] = 0
             PROVE  /\ \A m \in Message : m.payment = p => ready'[m] + delayed'[m] = 0
                    /\ \A h \in Handler : ~Handles(h, p)'
  BY DEF NothingYet
<1> DEFINE NoMessages == \A m \in Message : m.payment = p => ready'[m] + delayed'[m] = 0
           NoHandlers == \A h \in Handler : ~Handles(h, p)'
<1>0. TypeOK
  BY DEF Inv
<1>1. /\ ready \in [Message -> Nat] /\ delayed \in [Message -> Nat]
      /\ events \in [Payment -> Nat]
  BY <1>0 DEF TypeOK
<1>2. ASSUME NEW q \in Payment, Arrive(q) PROVE events[p] = 0 /\ q # p
  BY <1>1, <1>2 DEF Arrive
<1>3. CASE UNCHANGED events
  <2>1. /\ \A m \in Message : m.payment = p => ready[m] = 0 /\ delayed[m] = 0
        /\ \A h \in Handler : ~Handles(h, p)
    BY <1>1, <1>3 DEF NothingYet
  <2>2. ASSUME NEW h \in Handler, NEW place, pc[h] # "idle", Goto(h, place) PROVE NoHandlers
    BY <1>0, <2>1, <2>2, GotoHandles
  <2>3. ASSUME NEW H \in SUBSET Handler, Free(H) PROVE NoHandlers
    BY <1>0, <2>1, <2>3, FreeHandles
  <2>4. ASSUME UNCHANGED <<ready, delayed>> PROVE NoMessages
    BY <1>1, <2>1, <2>4
  <2>5. ASSUME UNCHANGED <<pc, msg>> PROVE NoHandlers
    BY <2>1, <2>5 DEF Handles
  <2>6. ASSUME NEW h \in Handler, pc[h] # "idle", Republish(msg[h]) PROVE NoMessages
    <3>1. msg[h] \in Message /\ msg[h].payment # p
      BY <2>1, <2>6, HandlerTypes DEF Handles
    <3>2. /\ ready' = ready /\ delayed' \in [Message -> Nat]
          /\ \A m \in Message : delayed'[m] >= delayed[m]
          /\ \A m \in Message : delayed'[m] > delayed[m] => m.payment = msg[h].payment
      BY <1>0, <2>6, <3>1, RepublishFacts
    <3> QED BY <1>1, <2>1, <3>1, <3>2
  <2>7. ASSUME PutBack PROVE NoMessages
    <3>1. /\ ready' \in [Message -> Nat] /\ delayed' = delayed
          /\ \A m \in Message : ready'[m] >= ready[m]
          /\ \A m \in Message : ready'[m] > ready[m] => \E h \in InFlight : msg[h] = m
      BY <1>0, <2>7, PutBackFacts
    <3>2. \A h \in InFlight : msg[h].payment # p
      BY <2>1 DEF InFlight, Handles
    <3> QED BY <1>1, <2>1, <3>1, <3>2
  <2> HIDE DEF NoMessages, NoHandlers
  <2>8. ASSUME NEW m \in Message, Expire(m) PROVE NoMessages /\ NoHandlers
    <3>1. /\ m.payment # p /\ UNCHANGED <<pc, msg>>
          /\ \A n \in Message : n # m => ready'[n] = ready[n] /\ delayed'[n] = delayed[n]
      BY <1>1, <2>1, <2>8 DEF Expire, handlers
    <3>2. NoMessages
      BY <1>1, <2>1, <3>1 DEF NoMessages
    <3> QED BY <2>5, <3>1, <3>2
  <2>9. ASSUME NEW h \in Handler, NEW m \in Message, Deliver(h, m)
        PROVE  NoMessages /\ NoHandlers
    <3>1. /\ m.payment # p /\ delayed' = delayed
          /\ pc' = [pc EXCEPT ![h] = "load"] /\ msg' = [msg EXCEPT ![h] = m]
          /\ \A n \in Message : n # m => ready'[n] = ready[n]
      BY <1>1, <2>1, <2>9 DEF Deliver
    <3>2. NoMessages
      BY <1>1, <2>1, <3>1 DEF NoMessages
    <3>3. NoHandlers
      BY <1>0, <2>1, <3>1 DEF NoHandlers, Handles, TypeOK
    <3> QED BY <3>2, <3>3
  <2>10. ASSUME NEW h \in Handler, Ack(h) \/ DeadLetter(h) PROVE NoMessages /\ NoHandlers
    BY <2>3, <2>4, <2>10 DEF Ack, DeadLetter, queues
  <2>11. ASSUME NEW h \in Handler, RetryOrDlq(h) \/ RetryRaises(h)
         PROVE  NoMessages /\ NoHandlers
    BY <2>2, <2>4, <2>6, <2>11 DEF RetryOrDlq, RetryRaises, queues
  <2>12. ASSUME NEW h \in Handler, NEW place, pc[h] # "idle", Goto(h, place), UNCHANGED queues
         PROVE  NoMessages /\ NoHandlers
    BY <2>2, <2>4, <2>12 DEF queues
  <2>13. ASSUME NEW h \in Handler, Step(h) \/ Failure(h) PROVE NoMessages /\ NoHandlers
    BY <2>9, <2>10, <2>11, <2>12, <2>13
    DEF Step, Failure, Load, Process, ProcessUnknown, DbError, SendOk, SendFails,
        SendRaises
  <2>14. CASE Crash \/ Detach
    <3>1. PutBack /\ (Free(Handler) \/ UNCHANGED <<pc, msg>>)
      BY <2>14 DEF Crash, Detach
    <3> QED BY <2>3, <2>5, <2>7, <3>1 DEF NoMessages, NoHandlers
  <2>15. ASSUME NEW q \in Payment, Create(q) PROVE NoMessages /\ NoHandlers
    BY <2>4, <2>5, <2>15 DEF Create, queues, handlers
  <2>16. ASSUME NEW q \in Payment, Arrive(q) PROVE FALSE
    BY <1>1, <1>3, <2>16 DEF Arrive
  <2>17. CASE UNCHANGED vars
    <3>1. UNCHANGED <<ready, delayed, pc, msg>>
      BY <2>17 DEF vars, queues, handlers
    <3> QED BY <2>4, <2>5, <3>1 DEF NoMessages, NoHandlers
  <2> QED
    BY <2>8, <2>13, <2>14, <2>15, <2>16, <2>17 DEF Next, Consumer, NoMessages, NoHandlers
<1>4. CASE ~UNCHANGED events
  <2>1. PICK q \in Payment : Arrive(q)
    BY <1>4
    DEF Next, Consumer, Step, Failure, Deliver, Load, Process, ProcessUnknown, DbError, SendOk,
        SendFails, SendRaises, RetryOrDlq, RetryRaises, Ack, DeadLetter, Create, Expire,
        Crash, Detach, vars, counts
  <2>2. /\ events[p] = 0 /\ q # p /\ UNCHANGED <<pc, msg, delayed>>
        /\ \A m \in Message : m.payment = p => ready'[m] = ready[m]
    BY <1>1, <1>2, <2>1, FirstMessage DEF Arrive, handlers
  <2> QED BY <2>2 DEF NothingYet, Handles
<1> QED BY <1>3, <1>4

\* No step makes a second copy of an event without an outcome.
LEMMA CopyStep ==
  ASSUME MaxEvents <= 1, MaxDetaches = 0, Inv, OneCopy, NothingYet, RetriesWait, [Next]_vars
  PROVE  OneCopy'
<1>0. TypeOK
  BY DEF Inv
<1>1. /\ ready \in [Message -> Nat] /\ delayed \in [Message -> Nat]
      /\ events \in [Payment -> Nat]
  BY <1>0 DEF TypeOK
<1>2. \A p \in Payment : status'[p] \notin Final => status[p] \notin Final
  BY FinalStays
<1>3. ASSUME events' = events, ready' = ready, NEW h \in Handler, NEW place, pc[h] # "idle",
             Goto(h, place)
      PROVE  OneCopy'
  BY <1>0, <1>3, CopyStays, GotoHandles
<1>4. ASSUME NEW h \in Handler, Ack(h) \/ DeadLetter(h) PROVE OneCopy'
  <2>1. Free({h}) /\ ready' = ready /\ events' = events
    BY <1>4 DEF Ack, DeadLetter, queues, counts
  <2>2. \A g \in Handler, p \in Payment : Handles(g, p)' => Handles(g, p)
    BY <1>0, <2>1, FreeHandles
  <2> QED BY <2>1, <2>2, CopyStays
<1>5. ASSUME NEW p \in Payment, Create(p) PROVE OneCopy'
  BY <1>5, CopyStays DEF Create, queues, handlers, counts, Handles
<1>6. ASSUME NEW p \in Payment, Arrive(p) PROVE OneCopy'
  <2>1. events[p] = 0 /\ events'[p] = 1
    BY <1>1, <1>6, ConsumerAssumption DEF Arrive
  <2>2. /\ ready' = [ready EXCEPT ![First(p)] = @ + 1] /\ First(p) \in Message
        /\ events' = [events EXCEPT ![p] = @ + 1] /\ UNCHANGED <<status, pc, msg>>
    BY <1>6, FirstFacts DEF Arrive, First, handlers
  <2>3. \A h \in Handler, q \in Payment : Handles(h, q)' = Handles(h, q)
    BY <2>2 DEF Handles
  <2>4. ready'[First(p)] = 1 /\ \A h \in Handler : ~Handles(h, p)
    BY <1>1, <2>1, <2>2, FirstFacts DEF NothingYet
  <2>5. \A q \in Payment \ {p} : ready'[First(q)] = ready[First(q)] /\ events'[q] = events[q]
    BY <1>1, <2>2, FirstFacts
  <2> QED BY <2>2, <2>3, <2>4, <2>5 DEF OneCopy
<1>7. ASSUME NEW m \in Message, Expire(m) PROVE OneCopy'
  <2>1. /\ m.retry > 0 /\ ready' = [ready EXCEPT ![m] = @ + 1] /\ events' = events
        /\ UNCHANGED <<pc, msg>>
    BY <1>7 DEF Expire, RetriesWait, handlers, counts
  <2>2. \A p \in Payment : ready'[First(p)] = ready[First(p)]
    BY <1>1, <2>1, FirstFacts
  <2> QED BY <2>1, <2>2, CopyStays DEF Handles
<1>8. ASSUME NEW h \in Handler, NEW m \in Message, Deliver(h, m) PROVE OneCopy'
  <2>1. /\ pc' = [pc EXCEPT ![h] = "load"] /\ msg' = [msg EXCEPT ![h] = m]
        /\ ready' = [ready EXCEPT ![m] = @ - 1] /\ ready[m] > 0 /\ pc[h] = "idle"
        /\ UNCHANGED <<status, delayed, events>>
    BY <1>8 DEF Deliver, counts
  <2>2. \A g \in Handler, p \in Payment :
          Handles(g, p)' <=> (g = h /\ m.payment = p) \/ Handles(g, p)
    BY <1>0, <2>1 DEF Handles, TypeOK
  <2>3. ASSUME NEW p \in Payment, m.payment # p
        PROVE  /\ ready'[First(p)] = ready[First(p)]
               /\ \A g \in Handler : Handles(g, p)' <=> Handles(g, p)
    BY <1>1, <2>1, <2>2, <2>3, FirstFacts
  <2>4. ASSUME status[m.payment] \notin Final
        PROVE  m = First(m.payment) /\ m.payment \in Payment
    <3>1. m.payment \in Payment /\ m.retry \in Nat /\ ready[m] + delayed[m] > 0
      BY <1>1, <2>1, MessageFields, ConsumerAssumption
    <3>2. ~(m.retry > 0)
      BY <2>4, <3>1 DEF Inv, RetriedIsProcessed
    <3> QED BY <3>1, <3>2, FirstFacts
  <2>5. ASSUME NEW p \in Payment, m.payment = p, status[p] \notin Final
        PROVE  /\ ready'[First(p)] = 0 /\ ready[First(p)] = 1
               /\ \A g \in Handler : Handles(g, p)' <=> g = h
    <3>1. m = First(p)
      BY <2>4, <2>5
    <3>2. ready[First(p)] = 1
      BY <1>1, <2>1, <2>5, <3>1, FirstFacts DEF OneCopy
    <3>3. \A g \in Handler : ~Handles(g, p)
      BY <2>5, <3>2 DEF OneCopy
    <3> QED BY <1>1, <2>1, <2>2, <2>5, <3>1, <3>2, <3>3
  <2> QED BY <2>1, <2>3, <2>5 DEF OneCopy
<1>9. CASE Crash
  <2>1. PutBack /\ Free(Handler) /\ UNCHANGED <<status, events>>
    BY <1>9 DEF Crash
  <2>2. \A h \in Handler, p \in Payment : ~Handles(h, p)'
    BY <1>0, <2>1, FreeHandles
  <2> QED BY <2>1, <2>2, PutBackOne DEF OneCopy
<1>10. CASE Detach
  BY <1>0, <1>10 DEF Detach, TypeOK
<1>11. CASE UNCHANGED vars
  BY <1>11, CopyStays DEF vars, queues, handlers, counts, Handles
<1>12. ASSUME NEW h \in Handler, Step(h) \/ Failure(h) PROVE OneCopy'
  <2>1. CASE Load(h)
    BY <1>3, <2>1 DEF Load, queues, counts
  <2>2. ASSUME NEW s \in Final, Process(h, s) \/ ProcessUnknown(h, s) PROVE OneCopy'
    BY <1>3, <2>2 DEF Process, ProcessUnknown, queues, counts
  <2>3. CASE DbError(h) \/ SendOk(h) \/ SendFails(h) \/ SendRaises(h)
    BY <1>3, <2>3 DEF DbError, SendOk, SendFails, SendRaises, queues, counts
  <2>4. CASE RetryOrDlq(h) \/ RetryRaises(h)
    BY <1>3, <2>4 DEF RetryOrDlq, RetryRaises, Republish, queues, counts
  <2> QED BY <1>4, <1>8, <1>12, <2>1, <2>2, <2>3, <2>4 DEF Step, Failure
<1> QED
  BY <1>5, <1>6, <1>7, <1>9, <1>10, <1>11, <1>12 DEF Next, Consumer

-----------------------------------------------------------------------------

\* A message waits only after a failed delivery, which has counted it up.
LEMMA WaitStep == Inv /\ RetriesWait /\ [Next]_vars => RetriesWait'
<1> SUFFICES ASSUME Inv, RetriesWait, [Next]_vars,
                    NEW m \in Message, delayed'[m] > 0
             PROVE  m.retry > 0
  BY DEF RetriesWait
<1>1. delayed \in [Message -> Nat]
  BY DEF Inv, TypeOK
<1>2. CASE UNCHANGED delayed
  BY <1>2 DEF RetriesWait
<1>3. ASSUME NEW n \in Message, Expire(n) PROVE m.retry > 0
  BY <1>1, <1>3 DEF Expire, RetriesWait
<1>4. ASSUME NEW h \in Handler, pc[h] # "idle", Republish(msg[h]) PROVE m.retry > 0
  <2>1. msg[h] \in Message /\ msg[h].retry \in Nat
    BY <1>4, HandlerTypes, MessageFields, ConsumerAssumption
  <2>2. CASE msg[h].retry < MaxRetries /\ ToRetryQueue([msg[h] EXCEPT !.retry = @ + 1])
    <3> DEFINE n == [msg[h] EXCEPT !.retry = @ + 1]
    <3>1. n \in Message /\ n.retry > 0
      BY <2>1, <2>2, NextMessage
    <3>2. delayed' = [delayed EXCEPT ![n] = @ + 1] \/ delayed' = delayed
      BY <2>2 DEF ToRetryQueue
    <3> HIDE DEF n
    <3> QED BY <1>1, <3>1, <3>2 DEF RetriesWait
  <2>3. CASE ToDlx(msg[h])
    BY <2>3 DEF ToDlx, RetriesWait
  <2> QED BY <1>4, <2>2, <2>3 DEF Republish
<1>5. ASSUME NEW h \in Handler, Step(h) \/ Failure(h) PROVE m.retry > 0
  BY <1>2, <1>4, <1>5
  DEF Step, Failure, Deliver, Load, Process, ProcessUnknown, DbError, SendOk, SendFails,
      SendRaises, RetryOrDlq, RetryRaises, Ack, DeadLetter, queues
<1> QED
  BY <1>2, <1>3, <1>5
  DEF Next, Consumer, Create, Arrive, Crash, Detach, PutBack, vars, queues

\* What a handler has read stays true, since it is alone.
LEMMA FreshStep == Inv /\ SingleInv /\ [Next]_vars => SnapshotIsFresh'
<1> SUFFICES ASSUME Inv, SingleInv, [Next]_vars PROVE SnapshotIsFresh'
  OBVIOUS
<1> DEFINE Knows(h) ==
             /\ pc[h] = "process" => status[msg[h].payment] = "PENDING"
             /\ pc[h] \in {"send", "retry"} => seen[h] = status[msg[h].payment]
<1>0. TypeOK /\ HandlerKnows /\ OneCopy /\ \A h \in Handler : Knows(h)
  BY DEF Inv, SingleInv, SnapshotIsFresh
<1>1. \A p \in Payment : status[p] \in Final => status'[p] = status[p]
  BY OutcomeStays
<1>2. \A h \in Handler : pc[h] # "idle" => msg[h].payment \in Payment
  BY HandlerTypes
\* A handler that stays where it is, while its payment stays PENDING.
<1>3. ASSUME NEW g \in Handler, pc'[g] = pc[g], msg'[g] = msg[g], seen'[g] = seen[g],
             pc[g] = "process" => status'[msg[g].payment] = status[msg[g].payment]
      PROVE  Knows(g)'
  <2>1. CASE pc[g] = "process"
    BY <1>0, <1>3, <2>1
  <2>2. CASE pc[g] \in {"send", "retry"}
    <3>1. status[msg[g].payment] \in Final /\ msg[g].payment \in Payment
      BY <1>0, <1>2, <2>2 DEF HandlerKnows
    <3> QED BY <1>0, <1>1, <1>3, <2>2, <3>1
  <2> QED BY <1>3, <2>1, <2>2
<1>4. ASSUME NEW h \in Handler, Step(h) \/ Failure(h)
      PROVE  \A g \in Handler : Knows(g)'
  <2>1. ASSUME NEW g \in Handler \ {h}
        PROVE  /\ pc'[g] = pc[g] /\ msg'[g] = msg[g] /\ seen'[g] = seen[g]
    <3>1. ASSUME NEW place, Goto(h, place) PROVE pc'[g] = pc[g] /\ msg'[g] = msg[g]
      BY <1>0, <3>1 DEF Goto, TypeOK
    <3>2. ASSUME Free({h}) PROVE pc'[g] = pc[g] /\ msg'[g] = msg[g] /\ seen'[g] = seen[g]
      BY <3>2 DEF Free
    <3>3. ASSUME NEW m \in Message, Deliver(h, m)
          PROVE  pc'[g] = pc[g] /\ msg'[g] = msg[g] /\ seen'[g] = seen[g]
      BY <1>0, <3>3 DEF Deliver, TypeOK
    <3>4. ASSUME NEW s, seen' = [seen EXCEPT ![h] = s] PROVE seen'[g] = seen[g]
      BY <1>0, <3>4 DEF TypeOK
    <3> QED
      BY <1>4, <3>1, <3>2, <3>3, <3>4
      DEF Step, Failure, Load, Process, ProcessUnknown, DbError, SendOk, SendFails,
          SendRaises, RetryOrDlq, RetryRaises, Ack, DeadLetter
  <2>2. ASSUME NEW g \in Handler \ {h}, pc[g] = "process"
        PROVE  status'[msg[g].payment] = status[msg[g].payment]
    <3>1. /\ msg[g].payment \in Payment
          /\ ~Handles(h, msg[g].payment)
      BY <2>2, Alone DEF SingleInv
    <3>2. CASE UNCHANGED status
      BY <3>2
    <3>3. ASSUME NEW s \in Final, Process(h, s) \/ ProcessUnknown(h, s)
          PROVE  status'[msg[g].payment] = status[msg[g].payment]
      <4>1. Overwrite(msg[h].payment, s) /\ msg[h].payment # msg[g].payment
        BY <3>1, <3>3 DEF Process, ProcessUnknown, Handles
      <4> QED BY <1>0, <3>1, <4>1 DEF Overwrite, TypeOK
    <3> QED
      BY <1>4, <3>2, <3>3
      DEF Step, Failure, Deliver, Load, SendOk, SendFails, SendRaises, RetryOrDlq, Ack,
          DeadLetter, DbError, RetryRaises
  <2>3. \A g \in Handler \ {h} : Knows(g)'
    BY <1>3, <2>1, <2>2
  <2>4. Knows(h)'
    <3>1. ASSUME NEW place \in Place \ {"process", "send", "retry"}, Goto(h, place)
          PROVE  Knows(h)'
      BY <1>0, <3>1 DEF Goto, TypeOK
    <3>2. CASE Load(h)
      <4>1. /\ pc[h] = "load" /\ seen'[h] = status[msg[h].payment] /\ status' = status
            /\ \/ Goto(h, "missing")
               \/ status[msg[h].payment] = "PENDING" /\ Goto(h, "process")
               \/ Goto(h, "send")
        BY <1>0, <3>2, LoadCases DEF Load, TypeOK
      <4> QED BY <1>0, <4>1 DEF Goto, TypeOK
    <3>3. ASSUME NEW s \in Final, Process(h, s) PROVE Knows(h)'
      <4>1. /\ msg[h].payment \in Payment /\ Overwrite(msg[h].payment, s)
            /\ seen' = [seen EXCEPT ![h] = s] /\ Goto(h, "send")
        BY <1>2, <3>3 DEF Process
      <4> QED BY <1>0, <4>1 DEF Overwrite, Goto, TypeOK
    <3>4. CASE SendFails(h)
      <4>1. pc[h] = "send" /\ Goto(h, "retry") /\ UNCHANGED <<status, seen>>
        BY <3>4 DEF SendFails
      <4> QED BY <1>0, <4>1 DEF Goto, TypeOK
    <3>5. ASSUME NEW m \in Message, Deliver(h, m) PROVE Knows(h)'
      BY <1>0, <3>5 DEF Deliver, TypeOK
    <3>6. CASE Ack(h) \/ DeadLetter(h)
      BY <3>6 DEF Ack, DeadLetter, Free
    <3>7. {"ack", "error", "missing"} \subseteq Place \ {"process", "send", "retry"}
      BY DEF Place, Unsettled
    <3>8. CASE SendOk(h) \/ SendRaises(h) \/ RetryOrDlq(h) \/ RetryRaises(h) \/ DbError(h)
      BY <3>1, <3>7, <3>8 DEF SendOk, SendRaises, RetryOrDlq, RetryRaises, DbError
    <3>9. ASSUME NEW s \in Final, ProcessUnknown(h, s) PROVE Knows(h)'
      BY <3>1, <3>7, <3>9 DEF ProcessUnknown
    <3> QED BY <1>4, <3>2, <3>3, <3>4, <3>5, <3>6, <3>8, <3>9 DEF Step, Failure
  <2> QED BY <2>3, <2>4
<1>5. ASSUME UNCHANGED <<status, pc, msg, seen>> PROVE \A g \in Handler : Knows(g)'
  BY <1>3, <1>5
<1>6. ASSUME NEW p \in Payment, Create(p) PROVE \A g \in Handler : Knows(g)'
  <2>1. \A q \in Payment : status[q] = "PENDING" => status'[q] = status[q]
    BY <1>0, <1>6 DEF Create, TypeOK
  <2>2. \A g \in Handler : pc[g] = "process" => status'[msg[g].payment] = status[msg[g].payment]
    BY <1>0, <1>2, <2>1
  <2> QED BY <1>3, <1>6, <2>2 DEF Create, handlers
<1>7. ASSUME Crash PROVE \A g \in Handler : Knows(g)'
  BY <1>7 DEF Crash, Free
<1> HIDE DEF Knows
<1>8. ASSUME NEW p \in Payment, Arrive(p) PROVE \A g \in Handler : Knows(g)'
  BY <1>5, <1>8 DEF Arrive, handlers
<1>9. ASSUME NEW m \in Message, Expire(m) PROVE \A g \in Handler : Knows(g)'
  BY <1>5, <1>9 DEF Expire, handlers
<1>10. ASSUME Detach PROVE \A g \in Handler : Knows(g)'
  BY <1>5, <1>10 DEF Detach
<1>11. ASSUME UNCHANGED vars PROVE \A g \in Handler : Knows(g)'
  BY <1>5, <1>11 DEF vars, handlers
<1>12. \A g \in Handler : Knows(g)'
  BY <1>4, <1>6, <1>7, <1>8, <1>9, <1>10, <1>11 DEF Next, Consumer
<1> QED BY <1>12 DEF Knows, SnapshotIsFresh

\* The merchant is told what is in the database, and that stays.
LEMMA TrueStep == Inv /\ SingleInv /\ [Next]_vars => ToldIsTrue'
<1> SUFFICES ASSUME Inv, SingleInv, [Next]_vars, NEW p \in Payment
             PROVE  heard'[p] \subseteq {status'[p]}
  BY DEF ToldIsTrue
<1>1. /\ status \in [Payment -> Status] /\ heard \in [Payment -> SUBSET Status]
      /\ heard[p] \subseteq {status[p]}
  BY DEF Inv, TypeOK, SingleInv, ToldIsTrue
<1>2. heard[p] = {} \/ status'[p] = status[p]
  BY OutcomeStays DEF Inv, WebhookAfterCommit
<1>3. CASE UNCHANGED heard
  BY <1>1, <1>2, <1>3
<1>4. ASSUME NEW h \in Handler, Post(h), pc[h] = "send", UNCHANGED status
      PROVE  heard'[p] \subseteq {status'[p]}
  <2>1. /\ heard' = [heard EXCEPT ![msg[h].payment] = @ \cup {seen[h]}]
        /\ seen[h] = status[msg[h].payment] /\ msg[h].payment \in Payment
    BY <1>4, HandlerTypes DEF Post, SingleInv, SnapshotIsFresh
  <2> QED BY <1>1, <1>4, <2>1
<1>5. ASSUME NEW h \in Handler, Step(h) \/ Failure(h) PROVE heard'[p] \subseteq {status'[p]}
  BY <1>3, <1>4, <1>5
  DEF Step, Failure, Deliver, Load, Process, ProcessUnknown, DbError, SendOk, SendFails,
      SendRaises, RetryOrDlq, RetryRaises, Ack, DeadLetter, merchant
<1> QED
  BY <1>3, <1>5
  DEF Next, Consumer, Create, Arrive, Expire, Crash, Detach, vars, merchant

-----------------------------------------------------------------------------

\* Nothing is published, read or told at the start.
LEMMA InitSingle == Init => SingleInv
<1> SUFFICES ASSUME Init PROVE SingleInv
  OBVIOUS
<1>1. OneCopy /\ NothingYet /\ RetriesWait
  BY FirstFacts DEF Init, OneCopy, NothingYet, RetriesWait, Handles
<1>2. SnapshotIsFresh /\ ToldIsTrue
  BY DEF Init, SnapshotIsFresh, ToldIsTrue
<1> QED BY <1>1, <1>2 DEF SingleInv

\* One event, one connection: the inductive step of the invariant.
LEMMA SingleInvariance ==
  ASSUME MaxEvents <= 1, MaxDetaches = 0
  PROVE  Spec => []SingleInv
<1>1. Inv /\ SingleInv /\ [Next]_vars => SingleInv'
  BY NothingStep, CopyStep, WaitStep, FreshStep, TrueStep DEF SingleInv
<1> QED BY <1>1, InitSingle, Invariance, PTL DEF Spec

\* One event, one connection: an outcome that is committed is never replaced,
\* although the UPDATE names the row by its id alone.
THEOREM OutcomesStay ==
  ASSUME MaxEvents <= 1, MaxDetaches = 0
  PROVE  Spec => OutcomeIsFinal
<1>1. Inv /\ SingleInv /\ [Next]_vars
        => [\A p \in Payment : status[p] \in Final => status'[p] = status[p]]_vars
  BY OutcomeStays
<1> QED BY <1>1, Invariance, SingleInvariance, PTL DEF Spec, OutcomeIsFinal

\* One event, one connection: the merchant hears one outcome, however often.
THEOREM MerchantHearsOneOutcome ==
  ASSUME MaxEvents <= 1, MaxDetaches = 0
  PROVE  Spec => []OneOutcomeTold
<1>1. ASSUME SingleInv PROVE OneOutcomeTold
  <2> SUFFICES ASSUME NEW p \in Payment PROVE Cardinality(heard[p]) <= 1
    BY DEF OneOutcomeTold
  <2>1. IsFiniteSet({status[p]}) /\ Cardinality({status[p]}) = 1
    BY FS_Singleton
  <2> QED BY <1>1, <2>1, FS_Subset DEF SingleInv, ToldIsTrue
<1> QED BY <1>1, SingleInvariance, PTL
=============================================================================
