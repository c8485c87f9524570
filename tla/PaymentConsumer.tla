--------------------------- MODULE PaymentConsumer --------------------------
(***************************************************************************)
(* The consumer of payments.new with the queues around it.  Up to          *)
(* CONSUMER_PREFETCH_COUNT handlers of _handle_payment_created run at once. *)
(* A handler loads its payment, emulates the processing of a PENDING one   *)
(* and commits the outcome, posts the webhook, and on a failed delivery    *)
(* republishes the event to the next retry queue or, after the last one,   *)
(* to the DLQ; then it acknowledges its message.                           *)
(*                                                                         *)
(* RabbitMQ: a message dead-letters from a retry queue back to             *)
(* payments.new when its TTL ends, and from payments.new to payments.dlq   *)
(* when it is nacked or rejected; a message delivered and not yet settled  *)
(* is put back when the channel or the process goes away.                  *)
(***************************************************************************)
EXTENDS Integers, FiniteSets, SsrfGuard

CONSTANTS Payment,     \* payment ids
          Handler,     \* concurrent deliveries: CONSUMER_PREFETCH_COUNT
          MaxRetries,  \* CONSUMER_MAX_RETRIES
          RetryQueues, \* retry queues declared: len(RETRY_TTL_MS_BY_ATTEMPT)
          NoMessage,   \* what an idle handler holds
          MaxEvents,   \* bound: messages the dispatcher publishes per payment
          MaxCrashes,  \* bound: crashes of the consumer process
          MaxDetaches, \* bound: losses of the broker connection
          MaxFaults    \* bound: failing database and publish calls

\* retry is the x-retry-count header, 0 when the message has none.
Message == [payment: Payment, retry: 0..MaxRetries]

ASSUME ConsumerAssumption ==
  /\ MaxRetries \in Nat
  /\ RetryQueues \in Nat
  /\ IsFiniteSet(Handler)
  /\ NoMessage \notin Message
  /\ MaxEvents \in Nat /\ MaxCrashes \in Nat /\ MaxDetaches \in Nat /\ MaxFaults \in Nat

VARIABLES status,    \* status of the committed payment row ("absent": no row)
          ready,     \* ready[m]: messages m in payments.new
          delayed,   \* delayed[m]: messages m in their retry queue
          dlq,       \* what payments.dlq holds
          pc,        \* where each handler is
          msg,       \* the message it handles
          seen,      \* the status in the Payment object it holds
          attached,  \* whether the broker still counts the message as its own
          events,    \* messages the dispatcher has published, per payment
          again,     \* messages put back after a delivery, per payment
          posts,     \* webhook requests that reached the merchant
          heard,     \* the statuses those requests carried
          accepted,  \* payments with a webhook answered below 400
          spent      \* failures so far, by kind

queues == <<ready, delayed, dlq>>
handlers == <<pc, msg, seen, attached>>
merchant == <<posts, heard, accepted>>
counts == <<events, again, spent>>
vars == <<status, queues, handlers, merchant, counts>>

\* The outcomes of ProcessingService.process, drawn at random.
Final == {"SUCCEEDED", "FAILED"}
Status == {"absent", "PENDING"} \cup Final

\* Handler places; the last two are the ways to payments.dlq by
\* dead-lettering: nack after an error (an SSRF reject is one), reject when
\* the payment does not exist.
Unsettled == {"error", "missing"}
Place == {"idle", "load", "process", "send", "retry", "ack"} \cup Unsettled

\* The DLQ entry of a message; x-dlq-reason is there exactly for "exhausted".
Letter == [payment: Payment, retry: 0..MaxRetries, cause: Unsettled \cup {"exhausted"}]

Init ==
  /\ status = [p \in Payment |-> "absent"]
  /\ ready = [m \in Message |-> 0]
  /\ delayed = [m \in Message |-> 0]
  /\ dlq = {}
  /\ pc = [h \in Handler |-> "idle"]
  /\ msg = [h \in Handler |-> NoMessage]
  /\ seen = [h \in Handler |-> "absent"]
  /\ attached = [h \in Handler |-> TRUE]
  /\ events = [p \in Payment |-> 0]
  /\ again = [p \in Payment |-> 0]
  /\ posts = [p \in Payment |-> 0]
  /\ heard = [p \in Payment |-> {}]
  /\ accepted = {}
  /\ spent = [crash |-> 0, detach |-> 0, fault |-> 0]

-----------------------------------------------------------------------------

Goto(h, place) ==
  /\ pc' = [pc EXCEPT ![h] = place]
  /\ UNCHANGED <<msg, attached>>

\* The handler returns, or its process dies.
Free(H) ==
  /\ pc' = [h \in Handler |-> IF h \in H THEN "idle" ELSE pc[h]]
  /\ msg' = [h \in Handler |-> IF h \in H THEN NoMessage ELSE msg[h]]
  /\ seen' = [h \in Handler |-> IF h \in H THEN "absent" ELSE seen[h]]
  /\ attached' = [h \in Handler |-> IF h \in H THEN TRUE ELSE attached[h]]

Fault ==
  /\ spent.fault < MaxFaults
  /\ spent' = [spent EXCEPT !.fault = @ + 1]

\* The API commits a payment.
Create(p) ==
  /\ status[p] = "absent"
  /\ status' = [status EXCEPT ![p] = "PENDING"]
  /\ UNCHANGED <<queues, handlers, merchant, counts>>

\* The broker accepts a message that the dispatcher publishes.
Arrive(p) ==
  /\ events[p] < MaxEvents
  /\ events' = [events EXCEPT ![p] = @ + 1]
  /\ ready' = [ready EXCEPT ![[payment |-> p, retry |-> 0]] = @ + 1]
  /\ UNCHANGED <<status, delayed, dlq, handlers, merchant, again, spent>>

\* Mutant of Expire: the message stays in the retry queue as well.
ExpireTwice(m) ==
  /\ delayed' = [delayed EXCEPT ![m] = @ - 1]
  /\ ready' = [ready EXCEPT ![m] = @ + 1]
  /\ UNCHANGED <<status, dlq, handlers, merchant, counts>>

\* The TTL of a retry queue ends for a message.
Expire(m) ==
  /\ delayed[m] > 0
  /\ delayed' = [delayed EXCEPT ![m] = @ - 1]
  /\ ready' = [ready EXCEPT ![m] = @ + 1]
  /\ UNCHANGED <<status, dlq, handlers, merchant, counts>>

Deliver(h, m) ==
  /\ pc[h] = "idle"
  /\ ready[m] > 0
  /\ ready' = [ready EXCEPT ![m] = @ - 1]
  /\ pc' = [pc EXCEPT ![h] = "load"]
  /\ msg' = [msg EXCEPT ![h] = m]
  /\ UNCHANGED <<status, delayed, dlq, seen, attached, merchant, counts>>

\* Mutants of Load: a payment is processed whatever its status, or never.
LoadAndProcess(h) ==
  /\ pc[h] = "load"
  /\ seen' = [seen EXCEPT ![h] = status[msg[h].payment]]
  /\ Goto(h, IF status[msg[h].payment] = "absent" THEN "missing" ELSE "process")
  /\ UNCHANGED <<status, queues, merchant, counts>>

LoadAndSend(h) ==
  /\ pc[h] = "load"
  /\ seen' = [seen EXCEPT ![h] = status[msg[h].payment]]
  /\ Goto(h, IF status[msg[h].payment] = "absent" THEN "missing" ELSE "send")
  /\ UNCHANGED <<status, queues, merchant, counts>>

\* get_payment: the status read now decides whether to process, however
\* much later the outcome is written.
Load(h) ==
  /\ pc[h] = "load"
  /\ LET s == status[msg[h].payment] IN
       /\ seen' = [seen EXCEPT ![h] = s]
       /\ Goto(h, CASE s = "absent" -> "missing"
                    [] s = "PENDING" -> "process"
                    [] s \in Final -> "send")
  /\ UNCHANGED <<status, queues, merchant, counts>>

\* update_processing_outcome: the UPDATE names the row by its id alone, and
\* overwrites whatever status the row has by now.
Overwrite(p, s) == status' = [status EXCEPT ![p] = s]

\* Mutants of Process: the commit is missing; the webhook is sent from the
\* object loaded before the update.
ProcessUncommitted(h, s) ==
  /\ pc[h] = "process"
  /\ seen' = [seen EXCEPT ![h] = s]
  /\ Goto(h, "send")
  /\ UNCHANGED <<status, queues, merchant, counts>>

ProcessStale(h, s) ==
  /\ pc[h] = "process"
  /\ Overwrite(msg[h].payment, s)
  /\ Goto(h, "send")
  /\ UNCHANGED <<queues, seen, merchant, counts>>

\* process, apply_processing_outcome and commit.
Process(h, s) ==
  /\ pc[h] = "process"
  /\ Overwrite(msg[h].payment, s)
  /\ seen' = [seen EXCEPT ![h] = s]
  /\ Goto(h, "send")
  /\ UNCHANGED <<queues, merchant, counts>>

\* The commit took effect, but the handler sees an error.
ProcessUnknown(h, s) ==
  /\ pc[h] = "process"
  /\ Fault
  /\ Overwrite(msg[h].payment, s)
  /\ Goto(h, "error")
  /\ UNCHANGED <<queues, seen, merchant, events, again>>

\* A database call fails: nothing is written, and the message is nacked.
DbError(h) ==
  /\ pc[h] \in {"load", "process"}
  /\ Fault
  /\ Goto(h, "error")
  /\ UNCHANGED <<status, queues, seen, merchant, events, again>>

\* The merchant gets the POST, with the status of the handler's snapshot.
Post(h) ==
  LET p == msg[h].payment IN
    /\ posts' = [posts EXCEPT ![p] = @ + 1]
    /\ heard' = [heard EXCEPT ![p] = @ \cup {seen[h]}]

\* The webhook is answered below 400.
SendOk(h) ==
  /\ pc[h] = "send"
  /\ Post(h)
  /\ accepted' = accepted \cup {msg[h].payment}
  /\ Goto(h, "ack")
  /\ UNCHANGED <<status, queues, seen, counts>>

\* Mutant of SendFails: the error is logged and the message acknowledged.
SendFailsSilently(h) ==
  /\ pc[h] = "send"
  /\ Goto(h, "ack")
  /\ UNCHANGED <<status, queues, seen, merchant, counts>>

\* WebhookSendError: no connection, or the merchant got the POST and answered
\* with an error, too late or not at all.
SendFails(h) ==
  /\ pc[h] = "send"
  /\ \/ UNCHANGED merchant
     \/ Post(h) /\ UNCHANGED accepted
  /\ Goto(h, "retry")
  /\ UNCHANGED <<status, queues, seen, counts>>

\* send raises what is no WebhookSendError, and the handler's last except gets
\* it: the guard refuses the URL (an https one, or it would not be booked), or,
\* where private hosts are allowed and the guard resolves nothing, the client
\* finds a host it cannot encode.
SendRaises(h) ==
  /\ pc[h] = "send"
  /\ Verdicts["https"] # {"allowed"} \/ AllowPrivateHosts
  /\ Goto(h, "error")
  /\ UNCHANGED <<status, queues, seen, merchant, counts>>

\* publish_to_queue: through the default exchange to the queue of that retry.
\* If nobody declared it, the broker returns the message and aio-pika drops it.
ToRetryQueue(m) ==
  /\ delayed' = IF m.retry <= RetryQueues THEN [delayed EXCEPT ![m] = @ + 1] ELSE delayed
  /\ UNCHANGED dlq

\* publish_to_dlx: payment.failed is bound to payments.dlq.
ToDlx(m) ==
  /\ dlq' = dlq \cup {[payment |-> m.payment, retry |-> m.retry, cause |-> "exhausted"]}
  /\ UNCHANGED delayed

\* Mutant of Republish: x-retry-count is copied, not incremented.
RepublishSameCount(m) ==
  /\ delayed' = [delayed EXCEPT ![m] = @ + 1]
  /\ UNCHANGED <<ready, dlq>>

\* What _retry_or_dlq publishes for a message whose delivery failed.
Republish(m) ==
  /\ \/ m.retry < MaxRetries /\ ToRetryQueue([m EXCEPT !.retry = @ + 1])
     \/ m.retry >= MaxRetries /\ ToDlx(m)
  /\ UNCHANGED ready

RetryOrDlq(h) ==
  /\ pc[h] = "retry"
  /\ Republish(msg[h])
  /\ Goto(h, "ack")
  /\ UNCHANGED <<status, seen, merchant, counts>>

\* Mutant of RetryRaises: the error is swallowed and the message acknowledged.
RetryRaisesSilently(h) ==
  /\ pc[h] = "retry"
  /\ Fault
  /\ Goto(h, "ack")
  /\ UNCHANGED <<status, queues, seen, merchant, events, again>>

\* The publish raises, before or after the broker has taken the message.
RetryRaises(h) ==
  /\ pc[h] = "retry"
  /\ Fault
  /\ UNCHANGED queues \/ Republish(msg[h])
  /\ Goto(h, "error")
  /\ UNCHANGED <<status, seen, merchant, events, again>>

\* msg.ack().  On a channel that is gone ack raises, nack after it too, and
\* the handler ends without an effect on the queues.
Ack(h) ==
  /\ pc[h] = "ack"
  /\ Free({h})
  /\ UNCHANGED <<status, queues, merchant, counts>>

\* msg.nack / msg.reject (requeue=False): payments.new dead-letters the
\* message, with its headers, through payment.safety-net to payments.dlq.
DeadLetter(h) ==
  /\ pc[h] \in Unsettled
  /\ dlq' = IF attached[h]
            THEN dlq \cup {[payment |-> msg[h].payment, retry |-> msg[h].retry,
                            cause |-> pc[h]]}
            ELSE dlq
  /\ Free({h})
  /\ UNCHANGED <<status, ready, delayed, merchant, counts>>

\* The messages the broker holds as delivered and not settled.
InFlight == {h \in Handler : pc[h] # "idle" /\ attached[h]}

\* Mutant of PutBack: messages are acknowledged when they are delivered.
PutBackNothing == UNCHANGED <<queues, again>>

\* The broker puts them back into payments.new.
PutBack ==
  /\ ready' = [m \in Message |-> ready[m] + Cardinality({h \in InFlight : msg[h] = m})]
  /\ again' = [p \in Payment |->
                 again[p] + Cardinality({h \in InFlight : msg[h].payment = p})]
  /\ UNCHANGED <<delayed, dlq>>

\* The consumer process dies, with all its handlers, and is started again.
Crash ==
  /\ spent.crash < MaxCrashes
  /\ spent' = [spent EXCEPT !.crash = @ + 1]
  /\ PutBack
  /\ Free(Handler)
  /\ UNCHANGED <<status, merchant, events>>

\* The connection to the broker is lost and restored: the messages are
\* delivered again while the handlers of their first delivery still run.
Detach ==
  /\ spent.detach < MaxDetaches
  /\ spent' = [spent EXCEPT !.detach = @ + 1]
  /\ PutBack
  /\ attached' = [h \in Handler |-> pc[h] = "idle"]
  /\ UNCHANGED <<status, pc, msg, seen, merchant, events>>

Step(h) ==
  \/ \E m \in Message : Deliver(h, m)
  \/ Load(h)
  \/ \E s \in Final : Process(h, s)
  \/ SendOk(h) \/ SendFails(h) \/ SendRaises(h)
  \/ RetryOrDlq(h) \/ Ack(h) \/ DeadLetter(h)

Failure(h) ==
  DbError(h) \/ RetryRaises(h) \/ \E s \in Final : ProcessUnknown(h, s)

Consumer == (\E h \in Handler : Step(h) \/ Failure(h)) \/ Crash \/ Detach

Next ==
  \/ \E p \in Payment : Create(p) \/ Arrive(p)
  \/ \E m \in Message : Expire(m)
  \/ Consumer

Spec == Init /\ [][Next]_vars

\* Handlers run on (the webhook and the publish calls have timeouts; a database
\* call that never returns is not modelled), the broker delivers
\* to an idle handler, and every TTL ends.
Fairness ==
  /\ \A h \in Handler : WF_vars(Step(h))
  /\ \A m \in Message : WF_vars(Expire(m))

FairSpec == Spec /\ Fairness

-----------------------------------------------------------------------------

TypeOK ==
  /\ status \in [Payment -> Status]
  /\ ready \in [Message -> Nat]
  /\ delayed \in [Message -> Nat]
  /\ dlq \subseteq Letter
  /\ pc \in [Handler -> Place]
  /\ msg \in [Handler -> Message \cup {NoMessage}]
  /\ seen \in [Handler -> Status]
  /\ attached \in [Handler -> BOOLEAN]
  /\ events \in [Payment -> Nat]
  /\ again \in [Payment -> Nat]
  /\ posts \in [Payment -> Nat]
  /\ heard \in [Payment -> SUBSET Status]
  /\ accepted \subseteq Payment
  /\ spent \in [crash: 0..MaxCrashes, detach: 0..MaxDetaches, fault: 0..MaxFaults]

\* Someone will still see to an event of p: a queue, or a handler whose
\* message the broker would put back.
Carried(p) ==
  \/ \E m \in Message : m.payment = p /\ ready[m] + delayed[m] > 0
  \/ \E h \in InFlight : msg[h].payment = p

InDlq(p) == \E x \in dlq : x.payment = p

\* No event disappears between two queues, in a handler, or in a crash: until
\* the merchant has accepted the webhook or the DLQ holds the event, some
\* queue or unacknowledged delivery does.
NoEventLost ==
  \A p \in Payment : events[p] > 0 => Carried(p) \/ p \in accepted \/ InDlq(p)

\* A webhook never runs ahead of the database: what the merchant has been
\* told is a final status, of a payment that is final in the database.
WebhookAfterCommit ==
  \A p \in Payment : heard[p] # {} => heard[p] \subseteq Final /\ status[p] \in Final

\* A message on its way to or back from a retry queue belongs to a payment
\* that has its outcome, so a retry never runs the processing again.
RetriedIsProcessed ==
  \A m \in Message :
    m.retry > 0 /\ ready[m] + delayed[m] > 0 => status[m.payment] \in Final

\* The merchant gets at most MaxRetries + 1 requests per message the
\* dispatcher has published or the broker has put back.
PostsBounded ==
  \A p \in Payment : posts[p] <= (MaxRetries + 1) * (events[p] + again[p])

\* An outcome, once committed, is not replaced by another one.
OutcomeIsFinal ==
  [][\A p \in Payment : status[p] \in Final => status'[p] = status[p]]_vars

\* README.md:191: the merchant may take payment_id and the final status for
\* the identity of the event; it is never told two different outcomes.
OneOutcomeTold ==
  \A p \in Payment : Cardinality(heard[p]) <= 1

\* Retries end: the queues in front of the DLQ run empty again and again.
QueuesDrain ==
  []<>(/\ \A m \in Message : ready[m] = 0 /\ delayed[m] = 0
       /\ \A h \in Handler : pc[h] = "idle")

\* Every event of an existing payment ends in an accepted webhook or the DLQ.
EveryEventSettles ==
  \A p \in Payment : events[p] > 0 ~> p \in accepted \/ InDlq(p)
=============================================================================
