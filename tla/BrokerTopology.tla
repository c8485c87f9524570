--------------------------- MODULE BrokerTopology ---------------------------
(***************************************************************************)
(* The RabbitMQ objects of the system and the one-shot job that declares   *)
(* them.  The services start once the job has completed, so their messages *)
(* are routed by what it has left behind: exchanges, queues with their     *)
(* dead-letter arguments, bindings.  The broker may restart, the job may   *)
(* die between two declarations and may be run again at any time.          *)
(*                                                                         *)
(* Publishing and acknowledging are one step here; what happens between    *)
(* them is the subject of OutboxDispatcher and PaymentConsumer.            *)
(***************************************************************************)
EXTENDS Integers

CONSTANTS Message,      \* events, one message each
          RetryQueues,  \* len(RETRY_TTL_MS_BY_ATTEMPT)
          MaxRetries,   \* CONSUMER_MAX_RETRIES
          MaxFaults     \* bound: deaths of broker, consumer and job, and reruns

\* With more retries than queues events are lost (PaymentConsumer shows it).
ASSUME TopologyAssumption ==
  /\ RetryQueues \in Nat /\ MaxFaults \in Nat
  /\ MaxRetries \in 0..RetryQueues

VARIABLES exchanges,  \* exchanges that exist
          queues,     \* the arguments of each queue, or Undeclared
          bindings,   \* bindings that exist
          job,        \* the declaration the job makes next; 0: it is not running
          completed,  \* whether the job has ended without an error once
          consumer,   \* whether the consumer is subscribed
          place,      \* where each event is
          tries,      \* its x-retry-count
          faults      \* deaths and reruns so far

broker == <<exchanges, queues, bindings>>
events == <<place, tries>>
vars == <<broker, job, completed, consumer, events, faults>>

-----------------------------------------------------------------------------

Exchange == {"payments", "payments.dlx"}

RoutingKey == {"payment.created", "payment.failed", "payment.safety-net"}

Main == <<"payments.new", 0>>
Dlq == <<"payments.dlq", 0>>
Retry(n) == <<"payments.retry.", n>>

RetryQueue == {Retry(n) : n \in 1..RetryQueues}

Queue == {Main, Dlq} \cup RetryQueue

\* Where a dead letter goes, and after which step of RETRY_TTL_MS_BY_ATTEMPT
\* a message becomes one (0: never).
Arguments(exchange, routingKey, ttl) == [exchange |-> exchange, key |-> routingKey, ttl |-> ttl]

NoArguments == Arguments("none", "none", 0)

Undeclared == Arguments("undeclared", "none", 0)

Binding(exchange, routingKey, queue) == [exchange |-> exchange, key |-> routingKey, queue |-> queue]

\* Mutant of QueueArguments: expired messages return by the DLX.
QueueArgumentsToDlx ==
  [q \in Queue |->
     IF q = Dlq THEN NoArguments ELSE Arguments("payments.dlx", "payment.safety-net", q[2])]

QueueArguments ==
  [q \in Queue |->
     IF q = Main THEN Arguments("payments.dlx", "payment.safety-net", 0)
     ELSE IF q = Dlq THEN NoArguments
     ELSE Arguments("payments", "payment.created", q[2])]

\* Mutant of ConsumerArguments: the second copy of the literal has changed.
ConsumerArgumentsFailed == Arguments("payments.dlx", "payment.failed", 0)

\* payments.new as _register_consumer declares it once more.
ConsumerArguments == Arguments("payments.dlx", "payment.safety-net", 0)

\* Mutant of DurableQueue: the DLQ does not outlive the broker process.
DurableQueueButDlq == Queue \ {Dlq}

DurableQueue == Queue

\* Places of an event that are no queues.
Outbox == <<"outbox", 0>>
AtConsumer == <<"consumer", 0>>
Settled == <<"settled", 0>>
Lost == <<"lost", 0>>

Init ==
  /\ exchanges = {}
  /\ queues = [q \in Queue |-> Undeclared]
  /\ bindings = {}
  /\ job = 0
  /\ completed = FALSE
  /\ consumer = FALSE
  /\ place = [m \in Message |-> Outbox]
  /\ tries = [m \in Message |-> 0]
  /\ faults = 0

-----------------------------------------------------------------------------

Fault ==
  /\ faults < MaxFaults
  /\ faults' = faults + 1

\* The job is started; a rerun after it has completed is an operator's.
RunJob ==
  /\ job = 0
  /\ (completed /\ Fault) \/ (~completed /\ UNCHANGED faults)
  /\ job' = 1
  /\ UNCHANGED <<broker, completed, consumer, events>>

LastStep == RetryQueues + 7

\* The job makes its declaration number i.
At(i) ==
  /\ job = i
  /\ job' = IF i = LastStep THEN 0 ELSE i + 1
  /\ completed' = (completed \/ i = LastStep)
  /\ UNCHANGED <<consumer, events, faults>>

DeclareExchange(x) ==
  /\ exchanges' = exchanges \cup {x}
  /\ UNCHANGED <<queues, bindings>>

\* A queue is created, or is there with equal arguments; with others the
\* broker refuses (PRECONDITION_FAILED).
DeclareQueue(q, arguments) ==
  /\ queues[q] \in {Undeclared, arguments}
  /\ queues' = [queues EXCEPT ![q] = arguments]
  /\ UNCHANGED <<exchanges, bindings>>

Bind(x, routingKey, q) ==
  /\ x \in exchanges /\ queues[q] # Undeclared
  /\ bindings' = bindings \cup {Binding(x, routingKey, q)}
  /\ UNCHANGED <<exchanges, queues>>

\* declare_topology, one call after the other.
Declare ==
  \/ At(1) /\ DeclareExchange("payments")
  \/ At(2) /\ DeclareExchange("payments.dlx")
  \/ At(3) /\ DeclareQueue(Main, QueueArguments[Main])
  \/ At(4) /\ Bind("payments", "payment.created", Main)
  \/ \E n \in 1..RetryQueues :
       At(4 + n) /\ DeclareQueue(Retry(n), QueueArguments[Retry(n)])
  \/ At(RetryQueues + 5) /\ DeclareQueue(Dlq, QueueArguments[Dlq])
  \/ At(RetryQueues + 6) /\ Bind("payments.dlx", "payment.safety-net", Dlq)
  \/ At(RetryQueues + 7) /\ Bind("payments.dlx", "payment.failed", Dlq)

JobDies ==
  /\ job # 0
  /\ Fault
  /\ job' = 0
  /\ UNCHANGED <<broker, completed, consumer, events>>

-----------------------------------------------------------------------------

\* Mutant of ServicesMayRun: the services do not wait for the job.
ServicesMayRunAtOnce == TRUE

\* depends_on: service_completed_successfully.
ServicesMayRun == completed

\* The consumer subscribes, which declares its queue; a consumer that is
\* refused does not get further than that.
StartConsumer ==
  /\ ServicesMayRun /\ ~consumer
  /\ DeclareQueue(Main, ConsumerArguments)
  /\ consumer' = TRUE
  /\ UNCHANGED <<job, completed, events, faults>>

\* The queues a message reaches.
Route(x, routingKey) == {q \in Queue : Binding(x, routingKey, q) \in bindings}

\* The default exchange knows every queue by its name.
RouteToQueue(q) == {r \in Queue : r = q /\ queues[r] # Undeclared}

\* A message without a route is returned (mandatory), and dropped there.
Into(m, route) ==
  \/ \E q \in route : place' = [place EXCEPT ![m] = q]
  \/ route = {} /\ place' = [place EXCEPT ![m] = Lost]

\* A dead letter goes where the arguments of its queue say.
DeadLetter(m, q) ==
  /\ Into(m, Route(queues[q].exchange, queues[q].key))
  /\ UNCHANGED tries

Step(m, from) ==
  /\ place[m] = from
  /\ UNCHANGED <<broker, job, completed, consumer, faults>>

\* The dispatcher publishes.  Without the exchange the call raises, and the
\* row stays pending.
Publish(m) ==
  /\ ServicesMayRun
  /\ Step(m, Outbox)
  /\ "payments" \in exchanges
  /\ Into(m, Route("payments", "payment.created"))
  /\ UNCHANGED tries

Deliver(m) ==
  /\ consumer
  /\ Step(m, Main)
  /\ place' = [place EXCEPT ![m] = AtConsumer]
  /\ UNCHANGED tries

\* The webhook is accepted, the message acknowledged.
Succeed(m) ==
  /\ Step(m, AtConsumer)
  /\ place' = [place EXCEPT ![m] = Settled]
  /\ UNCHANGED tries

\* Mutant of RetryOrDlq: one retry too many.
RetryOrDlqOnceMore(m) ==
  /\ Step(m, AtConsumer)
  /\ \/ /\ tries[m] <= MaxRetries
        /\ Into(m, RouteToQueue(Retry(tries[m] + 1)))
        /\ tries' = [tries EXCEPT ![m] = @ + 1]
     \/ /\ tries[m] > MaxRetries
        /\ Into(m, Route("payments.dlx", "payment.failed"))
        /\ UNCHANGED tries

\* The webhook is not accepted: to the next retry queue by the default
\* exchange, or by the DLX to the DLQ; then the message is acknowledged.
RetryOrDlq(m) ==
  /\ Step(m, AtConsumer)
  /\ \/ /\ tries[m] < MaxRetries
        /\ Into(m, RouteToQueue(Retry(tries[m] + 1)))
        /\ tries' = [tries EXCEPT ![m] = @ + 1]
     \/ /\ tries[m] >= MaxRetries
        /\ Into(m, Route("payments.dlx", "payment.failed"))
        /\ UNCHANGED tries

\* nack or reject without requeue.
Reject(m) ==
  /\ Step(m, AtConsumer)
  /\ DeadLetter(m, Main)

\* The TTL of its retry queue ends for a message.
Expire(m) ==
  \E q \in Queue :
    /\ queues[q].ttl > 0
    /\ Step(m, q)
    /\ DeadLetter(m, q)

\* What the consumer has not settled is put back.
PutBack(q) == IF q = AtConsumer THEN Main ELSE q

ConsumerDies ==
  /\ consumer
  /\ Fault
  /\ consumer' = FALSE
  /\ place' = [m \in Message |-> PutBack(place[m])]
  /\ UNCHANGED <<broker, job, completed, tries>>

\* What a durable object holds, and persistent messages, outlive the broker's
\* process; connections do not, nor a job that is running.
BrokerRestarts ==
  /\ Fault
  /\ queues' = [q \in Queue |-> IF q \in DurableQueue THEN queues[q] ELSE Undeclared]
  /\ bindings' = {b \in bindings : b.queue \in DurableQueue}
  /\ place' = [m \in Message |->
                 IF place[m] \in Queue \ DurableQueue THEN Lost ELSE PutBack(place[m])]
  /\ job' = 0
  /\ consumer' = FALSE
  /\ UNCHANGED <<exchanges, completed, tries>>

Handle(m) == Succeed(m) \/ RetryOrDlq(m) \/ Reject(m)

Event(m) == Publish(m) \/ Deliver(m) \/ Handle(m) \/ Expire(m)

Next ==
  \/ RunJob \/ Declare \/ JobDies
  \/ StartConsumer \/ ConsumerDies \/ BrokerRestarts
  \/ \E m \in Message : Event(m)

Spec == Init /\ [][Next]_vars

\* A consumer that ends is started again (restart: unless-stopped), the
\* broker delivers and TTLs end, and a handler comes to an end.  That the job
\* is run, or the outbox published, is not assumed.
Fairness ==
  /\ WF_vars(StartConsumer)
  /\ \A m \in Message : WF_vars(Deliver(m)) /\ WF_vars(Handle(m)) /\ WF_vars(Expire(m))

FairSpec == Spec /\ Fairness

-----------------------------------------------------------------------------

ArgumentsOf ==
  [exchange: Exchange \cup {"none", "undeclared"}, key: RoutingKey \cup {"none"}, ttl: 0..RetryQueues]

TypeOK ==
  /\ exchanges \subseteq Exchange
  /\ queues \in [Queue -> ArgumentsOf]
  /\ bindings \subseteq [exchange: Exchange, key: RoutingKey, queue: Queue]
  /\ job \in 0..LastStep
  /\ completed \in BOOLEAN
  /\ consumer \in BOOLEAN
  /\ place \in [Message -> Queue \cup {Outbox, AtConsumer, Settled, Lost}]
  /\ tries \in [Message -> 0..MaxRetries]
  /\ faults \in 0..MaxFaults

\* The routes the services rely on (constants/payments_constants.py).
Bindings ==
  {Binding("payments", "payment.created", Main),
   Binding("payments.dlx", "payment.safety-net", Dlq),
   Binding("payments.dlx", "payment.failed", Dlq)}

\* Once the job has completed, the topology is whole and stays so: through
\* restarts of the broker, reruns of the job that die half way, and the
\* consumer's own declaration of payments.new.
TopologyStands ==
  completed => exchanges = Exchange /\ queues = QueueArguments /\ bindings = Bindings

\* README.md:43: no message is published, dead-lettered or expired into
\* nothing, in whatever order the job, the services and the broker start,
\* die and start again.
NothingDropped == \A m \in Message : place[m] # Lost

\* The way of an event without the broker's objects, as EventPath has it.
Seen(q) ==
  IF q = Outbox THEN "outbox"
  ELSE IF q = Main THEN "new"
  ELSE IF q = AtConsumer THEN "consumer"
  ELSE IF q = Settled THEN "done"
  ELSE IF q = Dlq THEN "dead"
  ELSE IF q \in RetryQueue THEN "waiting"
  ELSE "lost"

Path == INSTANCE EventPath WITH
          at <- [m \in Message |-> Seen(place[m])]

\* Exchanges, keys and arguments bring every event along its path: a retry
\* waits and returns to the consumer, what is rejected or exhausted ends in
\* the DLQ and nowhere else, and nothing leaves it.
KeepsPath == Path!ASpec

\* README.md:43: whatever is published ends with an accepted webhook or in the
\* DLQ, also when broker and consumer die on the way.
EveryMessageEnds ==
  \A m \in Message : place[m] # Outbox ~> place[m] \in {Settled, Dlq}
=============================================================================
