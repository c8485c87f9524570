--------------------------- MODULE PaymentsSystem ---------------------------
(***************************************************************************)
(* The three services put together: the API, the outbox dispatcher and the *)
(* consumer, which meet in the database and in the broker only.            *)
(*   - A commit of the API inserts the payment row that the consumer reads *)
(*     and the outbox row that the dispatcher polls, in one step.          *)
(*   - A message the broker accepts from the dispatcher is a message in    *)
(*     the consumer's queue.                                               *)
(* Every other step belongs to one service.                                *)
(***************************************************************************)
EXTENDS Integers, FiniteSets

CONSTANTS Request, Key, Amount, Currency, Url, UrlKind,       \* API
          AllowPrivateHosts,                                  \* API and consumer
          Dispatcher, BatchSize, Initial, Cap, FloatLimit,    \* dispatcher
          Handler, MaxRetries, RetryQueues, NoMessage,        \* consumer
          MaxDispatcherFaults, MaxCrashes, MaxDetaches, MaxConsumerFaults \* bounds

VARIABLES payments, outbox, rpc, key, body, tx, code, ref,
          ostatus, attempts, nextAt, draft, now, disp, work, sent, ofaults,
          pstatus, ready, delayed, dlq, hpc, msg, seen, attached, events, again,
          posts, heard, accepted, spent

api == <<payments, outbox, rpc, key, body, tx, code, ref>>
dispatcher == <<ostatus, attempts, nextAt, draft, now, disp, work, sent, ofaults>>
consumer == <<pstatus, ready, delayed, dlq, hpc, msg, seen, attached, events, again,
              posts, heard, accepted, spent>>
vars == <<api, dispatcher, consumer>>

Api == INSTANCE PaymentApi WITH pc <- rpc

Disp == INSTANCE OutboxDispatcher WITH
  Payment <- Request, MaxFaults <- MaxDispatcherFaults,
  status <- ostatus, faults <- ofaults

\* A publish beyond the first follows a dispatcher fault, so this bound on
\* events never keeps the broker from taking a message.
Cons == INSTANCE PaymentConsumer WITH
  Payment <- Request, MaxFaults <- MaxConsumerFaults,
  MaxEvents <- MaxDispatcherFaults + 1,
  status <- pstatus, pc <- hpc

ASSUME SystemAssumption ==
  /\ Api!GuardAssumption /\ Api!ApiAssumption
  /\ Disp!DispatcherAssumption
  /\ Cons!ConsumerAssumption

Init == Api!Init /\ Disp!Init /\ Cons!Init

-----------------------------------------------------------------------------

\* Mutant of CommitPayment: no outbox row comes with the payment.
CommitWithoutEvent(r) ==
  /\ Api!Commit(r) \/ Api!CommitUnknown(r)
  /\ Cons!Create(r)
  /\ UNCHANGED dispatcher

\* One transaction makes the payment visible to the consumer and its event
\* visible to the dispatcher.
CommitPayment(r) ==
  /\ Api!Commit(r) \/ Api!CommitUnknown(r)
  /\ Disp!Enqueue(r)
  /\ Cons!Create(r)

\* The broker takes a message from dispatcher d into payments.new.
PublishEvent(d, p) ==
  /\ Disp!Publish(d, p) \/ Disp!PublishUnconfirmed(d, p)
  /\ Cons!Arrive(p)
  /\ UNCHANGED api

\* Mutant of ApiStep: the event is published to the broker right away.
ApiStepPublishing(r) ==
  /\ \/ /\ Api!Receive(r) \/ Api!ValidateUrl(r) \/ Api!Lookup(r) \/ Api!Insert(r)
        /\ UNCHANGED consumer
     \/ Api!Enqueue(r) /\ Cons!Arrive(r)
  /\ UNCHANGED dispatcher

ApiStep(r) ==
  /\ \/ Api!Receive(r) \/ Api!Reject(r) \/ Api!ValidateUrl(r) \/ Api!Lookup(r)
     \/ Api!Insert(r) \/ Api!InsertConflict(r) \/ Api!Enqueue(r)
     \/ Api!Answer(r) \/ Api!DbError(r) \/ Api!Crash(r)
  /\ UNCHANGED <<dispatcher, consumer>>

DispatcherStep(d) ==
  /\ \/ Disp!Fetch(d) \/ Disp!Commit(d) \/ Disp!Wake(d)
     \/ Disp!CommitUnknown(d) \/ Disp!DbError(d) \/ Disp!Crash(d)
     \/ \E p \in Request : \/ Disp!Mark(d, p) \/ Disp!PublishFails(d, p)
                           \/ Disp!Bump(d, p) \/ Disp!BumpOverflows(d, p)
  /\ UNCHANGED <<api, consumer>>

ClockTick == Disp!Tick /\ UNCHANGED <<api, consumer>>

ConsumerStep == Cons!Consumer /\ UNCHANGED <<api, dispatcher>>

RetryExpires(m) == Cons!Expire(m) /\ UNCHANGED <<api, dispatcher>>

Next ==
  \/ \E r \in Request : CommitPayment(r) \/ ApiStep(r)
  \/ \E d \in Dispatcher : DispatcherStep(d) \/ \E p \in Request : PublishEvent(d, p)
  \/ \E m \in Cons!Message : RetryExpires(m)
  \/ ClockTick
  \/ ConsumerStep

Spec == Init /\ [][Next]_vars

\* The fairness of the three services, for their joint steps.
Fairness ==
  /\ \A d \in Dispatcher :
       WF_vars(/\ Disp!Loop(d)
               /\ DispatcherStep(d) \/ \E p \in Request : PublishEvent(d, p))
  /\ WF_vars(ClockTick)
  /\ \A h \in Handler : WF_vars(Cons!Step(h) /\ ConsumerStep)
  /\ \A m \in Cons!Message : WF_vars(RetryExpires(m))

FairSpec == Spec /\ Fairness

-----------------------------------------------------------------------------

\* Where the event of a payment can be found once the payment is durable.
Underway(p) ==
  \/ ostatus[p] = "PENDING"
  \/ Cons!Carried(p)

\* README.md:41: "a crash never leaves payment created in DB but no event",
\* from the commit to the merchant: a durable payment's event is in the
\* outbox, in a queue or a handler, or it has come to its end.
PaymentNeverForgotten ==
  \A p \in outbox : Underway(p) \/ p \in accepted \/ Cons!InDlq(p)

\* No event overtakes its payment: the consumer never finds a payment missing
\* and never rejects an event for it.
EventFollowsPayment ==
  /\ \A h \in Handler : hpc[h] # "missing"
  /\ \A m \in Cons!Message : ready[m] > 0 => \E row \in payments : row.id = m.payment

\* A merchant hears only of payments that were created, and no request that
\* was refused makes a webhook.
WebhookOnlyForCreated ==
  \A r \in Request :
    heard[r] # {} => \E row \in payments : row.id = r /\ code[r] \notin {400, 401, 409, 422}

\* How often the merchant is called for a payment: MaxRetries + 1 times, and
\* as often again for each failure of a dispatcher and for each message that
\* the broker had to put back.
RequestsArePaid ==
  \A r \in Request : posts[r] <= (MaxRetries + 1) * (1 + ofaults + again[r])

\* What 202 promises the client, end to end: the merchant accepts the webhook
\* of the payment, or an operator finds its event in the DLQ.
AcceptedIsSettled ==
  \A r \in Request :
    rpc[r] = "done" /\ code[r] = 202 ~>
      \E p \in Request : p = ref[r] /\ (p \in accepted \/ Cons!InDlq(p))
=============================================================================
