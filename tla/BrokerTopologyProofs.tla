------------------------ MODULE BrokerTopologyProofs ------------------------
(***************************************************************************)
(* Theorems about BrokerTopology, for any number of events, retry queues,  *)
(* retries and failures.  The inductive invariant says how far a job has   *)
(* come by the objects that exist (Made), that nobody else has created any *)
(* (OnlyOurs), and that no event leaves the outbox before the topology is  *)
(* whole (ServicesWait).                                                   *)
(***************************************************************************)
EXTENDS BrokerTopology, TLAPS

\* What a job has declared when declaration j is the next.
Made(j) ==
  /\ j > 1 => "payments" \in exchanges
  /\ j > 2 => "payments.dlx" \in exchanges
  /\ j > 3 => queues[Main] = QueueArguments[Main]
  /\ j > 4 => Binding("payments", "payment.created", Main) \in bindings
  /\ \A n \in 1..RetryQueues : j > 4 + n => queues[Retry(n)] = QueueArguments[Retry(n)]
  /\ j > RetryQueues + 5 => queues[Dlq] = QueueArguments[Dlq]
  /\ j > RetryQueues + 6 => Binding("payments.dlx", "payment.safety-net", Dlq) \in bindings
  /\ j > RetryQueues + 7 => Binding("payments.dlx", "payment.failed", Dlq) \in bindings

JobProgress == Made(job) /\ (completed => Made(LastStep + 1))

OnlyOurs ==
  /\ exchanges \subseteq Exchange
  /\ \A q \in Queue : queues[q] \in {Undeclared, QueueArguments[q]}
  /\ bindings \subseteq Bindings

ServicesWait ==
  /\ consumer => completed
  /\ \A m \in Message : place[m] # Outbox => completed

Inv == TypeOK /\ OnlyOurs /\ JobProgress /\ ServicesWait /\ NothingDropped

-----------------------------------------------------------------------------

\* Queues and other places are different things.
LEMMA Places ==
  /\ Main \in Queue /\ Dlq \in Queue /\ Main # Dlq
  /\ \A n \in 1..RetryQueues : Retry(n) \in Queue /\ Retry(n) # Main /\ Retry(n) # Dlq
  /\ \A q \in Queue : q # Outbox /\ q # AtConsumer /\ q # Settled /\ q # Lost
  /\ Outbox # AtConsumer /\ Outbox # Settled /\ Outbox # Lost
  /\ AtConsumer # Settled /\ AtConsumer # Lost /\ Settled # Lost
BY DEF Queue, RetryQueue, Main, Dlq, Retry, Outbox, AtConsumer, Settled, Lost

\* The arguments of every queue.
LEMMA ArgumentFacts ==
  /\ QueueArguments[Main] = Arguments("payments.dlx", "payment.safety-net", 0)
  /\ QueueArguments[Dlq] = Arguments("none", "none", 0)
  /\ \A n \in 1..RetryQueues : QueueArguments[Retry(n)] = Arguments("payments", "payment.created", n)
  /\ ConsumerArguments = QueueArguments[Main]
  /\ Undeclared = Arguments("undeclared", "none", 0)
  /\ \A q \in Queue : QueueArguments[q] # Undeclared
<1>1. QueueArguments[Main] = Arguments("payments.dlx", "payment.safety-net", 0)
  BY Places DEF QueueArguments, Arguments
<1>2. QueueArguments[Dlq] = Arguments("none", "none", 0)
  BY Places DEF QueueArguments, Arguments, NoArguments
<1>3. \A n \in 1..RetryQueues : QueueArguments[Retry(n)] = Arguments("payments", "payment.created", n)
  <2>1. SUFFICES ASSUME NEW n \in 1..RetryQueues
                 PROVE  QueueArguments[Retry(n)] = Arguments("payments", "payment.created", n)
    OBVIOUS
  <2>2. Retry(n)[2] = n
    BY DEF Retry
  <2> QED BY <2>2, Places DEF QueueArguments, Arguments
<1>4. ConsumerArguments = QueueArguments[Main]
  BY <1>1 DEF ConsumerArguments, Arguments
<1>5. Undeclared = Arguments("undeclared", "none", 0)
  BY DEF Undeclared, Arguments
<1>6. \A q \in Queue : QueueArguments[q] # Undeclared
  <2>1. \A q \in Queue : q = Main \/ q = Dlq \/ \E n \in 1..RetryQueues : q = Retry(n)
    BY DEF Queue, RetryQueue
  <2>2. ASSUME NEW n \in 1..RetryQueues
        PROVE  Arguments("payments", "payment.created", n) # Arguments("undeclared", "none", 0)
    BY DEF Arguments
  <2>3. Arguments("payments.dlx", "payment.safety-net", 0) # Arguments("undeclared", "none", 0)
    BY DEF Arguments
  <2>4. Arguments("none", "none", 0) # Arguments("undeclared", "none", 0)
    BY DEF Arguments
  <2>5. ASSUME NEW n \in 1..RetryQueues
        PROVE  QueueArguments[Retry(n)] # Undeclared
    BY <2>2, <1>3, <1>5
  <2>6. QueueArguments[Main] # Undeclared /\ QueueArguments[Dlq] # Undeclared
    BY <2>3, <2>4, <1>1, <1>2, <1>5
  <2> QED BY <2>1, <2>5, <2>6
<1> QED BY <1>1, <1>2, <1>3, <1>4, <1>5, <1>6

\* A job that has made its last declaration leaves the whole topology.
LEMMA Whole == TypeOK /\ OnlyOurs /\ JobProgress => TopologyStands
<1>1. SUFFICES ASSUME TypeOK, OnlyOurs, JobProgress, completed
               PROVE  exchanges = Exchange /\ queues = QueueArguments /\ bindings = Bindings
  BY DEF TopologyStands
<1>2. RetryQueues \in Nat
  BY TopologyAssumption
<1>3. Made(RetryQueues + 8)
  BY <1>1, <1>2 DEF JobProgress, LastStep
<1>4. exchanges = Exchange
  <2>1. "payments" \in exchanges /\ "payments.dlx" \in exchanges
    BY <1>2, <1>3 DEF Made
  <2> QED BY <1>1, <2>1 DEF OnlyOurs, Exchange
<1>5. queues = QueueArguments
  <2>1. \A q \in Queue : queues[q] = QueueArguments[q]
    BY <1>2, <1>3 DEF Made, Queue, RetryQueue
  <2>2. queues = [q \in Queue |-> queues[q]]
    BY <1>1 DEF TypeOK
  <2> QED BY <2>1, <2>2 DEF QueueArguments
<1>6. bindings = Bindings
  <2>1. /\ Binding("payments", "payment.created", Main) \in bindings
        /\ Binding("payments.dlx", "payment.safety-net", Dlq) \in bindings
        /\ Binding("payments.dlx", "payment.failed", Dlq) \in bindings
    BY <1>2, <1>3 DEF Made
  <2> QED BY <1>1, <2>1 DEF OnlyOurs, Bindings
<1> QED BY <1>4, <1>5, <1>6

\* Where the whole topology leads the messages of the services.
LEMMA Routes ==
  ASSUME TopologyStands, completed
  PROVE  /\ Route("payments", "payment.created") = {Main}
         /\ Route("payments.dlx", "payment.safety-net") = {Dlq}
         /\ Route("payments.dlx", "payment.failed") = {Dlq}
         /\ \A n \in 1..RetryQueues : RouteToQueue(Retry(n)) = {Retry(n)}
<1>1. queues = QueueArguments /\ bindings = Bindings
  BY DEF TopologyStands
<1>2. Route("payments", "payment.created") = {Main}
  BY <1>1, Places DEF Route, Bindings, Binding
<1>3. Route("payments.dlx", "payment.safety-net") = {Dlq}
  BY <1>1, Places DEF Route, Bindings, Binding
<1>4. Route("payments.dlx", "payment.failed") = {Dlq}
  BY <1>1, Places DEF Route, Bindings, Binding
<1>5. \A n \in 1..RetryQueues : RouteToQueue(Retry(n)) = {Retry(n)}
  BY <1>1, Places, ArgumentFacts DEF RouteToQueue
<1> QED BY <1>2, <1>3, <1>4, <1>5

-----------------------------------------------------------------------------

\* What a step that only adds objects does to them.
Grows ==
  /\ exchanges \subseteq exchanges'
  /\ bindings \subseteq bindings'
  /\ \A q \in Queue : queues[q] = QueueArguments[q] => queues'[q] = QueueArguments[q]

\* What has been made stays made while objects are only added.
LEMMA MadeStays ==
  ASSUME NEW j \in Int, Grows, Made(j)
  PROVE  Made(j)'
BY Places DEF Grows, Made

\* A declaration that adds what Made says of it carries the job forward.
LEMMA AtStep ==
  ASSUME NEW i \in 1..LastStep, At(i), Grows, JobProgress, Made(i + 1)'
  PROVE  JobProgress'
<1>1. LastStep \in Nat
  BY TopologyAssumption DEF LastStep
<1>2. Made(job)'
  <2>1. CASE job' = 0
    BY <2>1, TopologyAssumption DEF Made
  <2>2. CASE job' = i + 1
    BY <2>2 DEF Made
  <2> QED BY <2>1, <2>2 DEF At
<1>3. completed' => Made(LastStep + 1)'
  <2>1. completed => Made(LastStep + 1)'
    BY <1>1, MadeStays DEF JobProgress
  <2> QED BY <2>1, <1>1 DEF At
<1> QED BY <1>2, <1>3 DEF JobProgress

\* The arguments are of the type that TypeOK gives them.
LEMMA ArgumentTypes ==
  QueueArguments \in [Queue -> ArgumentsOf]
<1>1. \A q \in Queue : q = Main \/ q = Dlq \/ \E n \in 1..RetryQueues : q = Retry(n)
  BY DEF Queue, RetryQueue
<1>2. \A q \in Queue : QueueArguments[q] \in ArgumentsOf
  <2>1. \A n \in 1..RetryQueues : Arguments("payments", "payment.created", n) \in ArgumentsOf
    BY TopologyAssumption DEF Arguments, ArgumentsOf, Exchange, RoutingKey
  <2>2. Arguments("none", "none", 0) \in ArgumentsOf
    BY TopologyAssumption DEF Arguments, ArgumentsOf, Exchange, RoutingKey
  <2>3. Arguments("payments.dlx", "payment.safety-net", 0) \in ArgumentsOf
    BY TopologyAssumption DEF Arguments, ArgumentsOf, Exchange, RoutingKey
  <2> QED BY <1>1, <2>1, <2>2, <2>3, ArgumentFacts
<1>3. QueueArguments = [q \in Queue |-> QueueArguments[q]]
  BY DEF QueueArguments
<1> QED BY <1>2, <1>3

\* What the declaration of a queue, by the job or by the consumer, does.
LEMMA QueueDeclared ==
  ASSUME TypeOK, OnlyOurs, NEW q \in Queue, DeclareQueue(q, QueueArguments[q])
  PROVE  /\ Grows /\ OnlyOurs'
         /\ queues' \in [Queue -> ArgumentsOf]
         /\ queues'[q] = QueueArguments[q]
         /\ UNCHANGED <<exchanges, bindings>>
<1>1. /\ queues' = [queues EXCEPT ![q] = QueueArguments[q]]
      /\ UNCHANGED <<exchanges, bindings>>
  BY DEF DeclareQueue
<1>2. queues \in [Queue -> ArgumentsOf]
  BY DEF TypeOK
<1>3. queues' \in [Queue -> ArgumentsOf]
  BY <1>1, <1>2, ArgumentTypes
<1>4. \A r \in Queue : queues'[r] = IF r = q THEN QueueArguments[q] ELSE queues[r]
  BY <1>1, <1>2
<1>5. Grows
  BY <1>1, <1>4 DEF Grows
<1>6. OnlyOurs'
  BY <1>1, <1>4 DEF OnlyOurs
<1> QED BY <1>1, <1>3, <1>4, <1>5, <1>6

\* The job's declarations.
LEMMA DeclareStep ==
  ASSUME TypeOK, OnlyOurs, JobProgress, Declare
  PROVE  TypeOK' /\ OnlyOurs' /\ JobProgress'
<1>1. RetryQueues \in Nat /\ LastStep \in Nat /\ LastStep = RetryQueues + 7
  BY TopologyAssumption DEF LastStep
<1>2. ASSUME NEW i \in 1..LastStep, At(i), Grows, OnlyOurs', Made(i + 1)',
             queues' \in [Queue -> ArgumentsOf]
      PROVE  TypeOK' /\ OnlyOurs' /\ JobProgress'
  <2>1. JobProgress'
    BY <1>2, AtStep
  <2>2. exchanges' \subseteq Exchange /\ bindings' \subseteq [exchange: Exchange, key: RoutingKey, queue: Queue]
    <3>1. exchanges' \subseteq Exchange /\ bindings' \subseteq Bindings
      BY <1>2 DEF OnlyOurs
    <3>2. Bindings \subseteq [exchange: Exchange, key: RoutingKey, queue: Queue]
      BY Places DEF Bindings, Binding, Exchange, RoutingKey
    <3> QED BY <3>1, <3>2
  <2>3. job' \in 0..LastStep /\ completed' \in BOOLEAN
    BY <1>1, <1>2 DEF At, TypeOK
  <2>4. UNCHANGED <<consumer, place, tries, faults>>
    BY <1>2 DEF At, events
  <2> QED BY <1>2, <2>1, <2>2, <2>3, <2>4 DEF TypeOK
<1>3. ASSUME NEW i \in Int, job = i, At(i) PROVE Made(i)
  BY <1>3 DEF JobProgress
<1>4. ASSUME NEW x \in Exchange, DeclareExchange(x)
      PROVE  /\ Grows /\ OnlyOurs' /\ x \in exchanges'
             /\ queues' \in [Queue -> ArgumentsOf]
  BY <1>4 DEF DeclareExchange, Grows, OnlyOurs, TypeOK
<1>5. ASSUME NEW x, NEW k, NEW q \in Queue, Binding(x, k, q) \in Bindings, Bind(x, k, q)
      PROVE  /\ Grows /\ OnlyOurs' /\ Binding(x, k, q) \in bindings'
             /\ queues' \in [Queue -> ArgumentsOf]
  BY <1>5 DEF Bind, Grows, OnlyOurs, TypeOK
<1>6. CASE At(1) /\ DeclareExchange("payments")
  <2>1. Grows /\ OnlyOurs' /\ "payments" \in exchanges'
        /\ queues' \in [Queue -> ArgumentsOf]
    BY <1>4, <1>6 DEF Exchange
  <2>2. Made(2)'
    BY <2>1, <1>1 DEF Made
  <2> QED BY <1>1, <1>2, <1>6, <2>1, <2>2
<1>7. CASE At(2) /\ DeclareExchange("payments.dlx")
  <2>1. Grows /\ OnlyOurs' /\ "payments.dlx" \in exchanges'
        /\ queues' \in [Queue -> ArgumentsOf]
    BY <1>4, <1>7 DEF Exchange
  <2>2. Made(2)'
    BY <1>3, <1>7, <2>1, MadeStays DEF At
  <2>3. Made(3)'
    BY <2>1, <2>2, <1>1 DEF Made
  <2> QED BY <1>1, <1>2, <1>7, <2>1, <2>3
<1>8. CASE At(3) /\ DeclareQueue(Main, QueueArguments[Main])
  <2>1. /\ Grows /\ OnlyOurs' /\ queues'[Main] = QueueArguments[Main]
        /\ queues' \in [Queue -> ArgumentsOf]
    BY <1>8, QueueDeclared, Places
  <2>2. Made(3)'
    BY <1>3, <1>8, <2>1, MadeStays DEF At
  <2>3. Made(4)'
    BY <2>1, <2>2, <1>1 DEF Made
  <2> QED BY <1>1, <1>2, <1>8, <2>1, <2>3
<1>9. CASE At(4) /\ Bind("payments", "payment.created", Main)
  <2>1. /\ Grows /\ OnlyOurs' /\ Binding("payments", "payment.created", Main) \in bindings'
        /\ queues' \in [Queue -> ArgumentsOf]
    BY <1>5, <1>9, Places DEF Bindings
  <2>2. Made(4)'
    BY <1>3, <1>9, <2>1, MadeStays DEF At
  <2>3. Made(5)'
    BY <2>1, <2>2, <1>1 DEF Made
  <2> QED BY <1>1, <1>2, <1>9, <2>1, <2>3
<1>10. ASSUME NEW n \in 1..RetryQueues, At(4 + n),
              DeclareQueue(Retry(n), QueueArguments[Retry(n)])
       PROVE  TypeOK' /\ OnlyOurs' /\ JobProgress'
  <2>1. /\ Grows /\ OnlyOurs' /\ queues'[Retry(n)] = QueueArguments[Retry(n)]
        /\ queues' \in [Queue -> ArgumentsOf]
    BY <1>10, QueueDeclared, Places
  <2>2. Made(4 + n)'
    BY <1>1, <1>3, <1>10, <2>1, MadeStays DEF At
  <2>3. Made(5 + n)'
    BY <2>1, <2>2, <1>1 DEF Made
  <2>4. 4 + n \in 1..LastStep /\ 5 + n = (4 + n) + 1
    BY <1>1
  <2> QED BY <1>2, <1>10, <2>1, <2>3, <2>4
<1>11. CASE /\ At(RetryQueues + 5)
            /\ DeclareQueue(Dlq, QueueArguments[Dlq])
  <2>1. /\ Grows /\ OnlyOurs' /\ queues'[Dlq] = QueueArguments[Dlq]
        /\ queues' \in [Queue -> ArgumentsOf]
    BY <1>11, QueueDeclared, Places
  <2>2. Made(RetryQueues + 5)'
    BY <1>1, <1>3, <1>11, <2>1, MadeStays DEF At
  <2>3. Made(RetryQueues + 6)'
    BY <2>1, <2>2, <1>1 DEF Made
  <2>4. RetryQueues + 5 \in 1..LastStep /\ RetryQueues + 6 = (RetryQueues + 5) + 1
    BY <1>1
  <2> QED BY <1>2, <1>11, <2>1, <2>3, <2>4
<1>12. CASE /\ At(RetryQueues + 6)
            /\ Bind("payments.dlx", "payment.safety-net", Dlq)
  <2>1. /\ Grows /\ OnlyOurs' /\ Binding("payments.dlx", "payment.safety-net", Dlq) \in bindings'
        /\ queues' \in [Queue -> ArgumentsOf]
    BY <1>5, <1>12, Places DEF Bindings
  <2>2. Made(RetryQueues + 6)'
    BY <1>1, <1>3, <1>12, <2>1, MadeStays DEF At
  <2>3. Made(RetryQueues + 7)'
    BY <2>1, <2>2, <1>1 DEF Made
  <2>4. RetryQueues + 6 \in 1..LastStep /\ RetryQueues + 7 = (RetryQueues + 6) + 1
    BY <1>1
  <2> QED BY <1>2, <1>12, <2>1, <2>3, <2>4
<1>13. CASE /\ At(RetryQueues + 7)
            /\ Bind("payments.dlx", "payment.failed", Dlq)
  <2>1. /\ Grows /\ OnlyOurs' /\ Binding("payments.dlx", "payment.failed", Dlq) \in bindings'
        /\ queues' \in [Queue -> ArgumentsOf]
    BY <1>5, <1>13, Places DEF Bindings
  <2>2. Made(RetryQueues + 7)'
    BY <1>1, <1>3, <1>13, <2>1, MadeStays DEF At
  <2>3. Made(RetryQueues + 8)'
    BY <2>1, <2>2, <1>1 DEF Made
  <2>4. RetryQueues + 7 \in 1..LastStep /\ RetryQueues + 8 = (RetryQueues + 7) + 1
    BY <1>1
  <2> QED BY <1>2, <1>13, <2>1, <2>3, <2>4
<1> QED BY <1>6, <1>7, <1>8, <1>9, <1>10, <1>11, <1>12, <1>13 DEF Declare

-----------------------------------------------------------------------------

\* One event changes its place, and perhaps its x-retry-count; nothing else.
Move(m, from, to) ==
  /\ place[m] = from
  /\ place' = [place EXCEPT ![m] = to]

Moved(m) ==
  \/ Move(m, Outbox, Main) /\ tries' = tries
  \/ Move(m, Main, AtConsumer) /\ tries' = tries
  \/ Move(m, AtConsumer, Settled) /\ tries' = tries
  \/ Move(m, AtConsumer, Dlq) /\ tries' = tries
  \/ \E n \in 1..RetryQueues :
       /\ Move(m, AtConsumer, Retry(n))
       /\ tries[m] < MaxRetries
       /\ tries' = [tries EXCEPT ![m] = @ + 1]
  \/ \E n \in 1..RetryQueues : Move(m, Retry(n), Main) /\ tries' = tries

\* Into, for a message that has exactly one route.
LEMMA IntoOne ==
  ASSUME NEW m \in Message, NEW q, NEW route, route = {q}, Into(m, route)
  PROVE  place' = [place EXCEPT ![m] = q]
BY DEF Into

\* The arguments, field by field.
LEMMA ArgumentFields ==
  /\ QueueArguments[Main].exchange = "payments.dlx"
  /\ QueueArguments[Main].key = "payment.safety-net"
  /\ QueueArguments[Main].ttl = 0
  /\ QueueArguments[Dlq].ttl = 0
  /\ \A n \in 1..RetryQueues :
       /\ QueueArguments[Retry(n)].exchange = "payments"
       /\ QueueArguments[Retry(n)].key = "payment.created"
<1>1. QueueArguments[Main] = [exchange |-> "payments.dlx", key |-> "payment.safety-net", ttl |-> 0]
  BY ArgumentFacts DEF Arguments
<1>2. QueueArguments[Dlq] = [exchange |-> "none", key |-> "none", ttl |-> 0]
  BY ArgumentFacts DEF Arguments
<1>3. QueueArguments[Main].exchange = "payments.dlx"
  BY <1>1
<1>4. QueueArguments[Main].key = "payment.safety-net"
  BY <1>1
<1>5. QueueArguments[Main].ttl = 0
  BY <1>1
<1>6. QueueArguments[Dlq].ttl = 0
  BY <1>2
<1>7. ASSUME NEW n \in 1..RetryQueues
      PROVE  /\ QueueArguments[Retry(n)].exchange = "payments"
             /\ QueueArguments[Retry(n)].key = "payment.created"
  <2>1. QueueArguments[Retry(n)] = [exchange |-> "payments", key |-> "payment.created", ttl |-> n]
    BY ArgumentFacts DEF Arguments
  <2>2. QueueArguments[Retry(n)].exchange = "payments"
    BY <2>1
  <2>3. QueueArguments[Retry(n)].key = "payment.created"
    BY <2>1
  <2> QED BY <2>2, <2>3
<1> QED BY <1>3, <1>4, <1>5, <1>6, <1>7

\* What the services, the consumer and the TTLs do to an event.
LEMMA EventMoves ==
  ASSUME Inv, NEW m \in Message, Event(m)
  PROVE  /\ Moved(m) /\ completed
         /\ UNCHANGED <<broker, job, completed, consumer, faults>>
<1>1. RetryQueues \in Nat /\ MaxRetries \in 0..RetryQueues /\ tries[m] \in 0..MaxRetries
  BY TopologyAssumption DEF Inv, TypeOK
<1>2. completed /\ UNCHANGED <<broker, job, completed, consumer, faults>>
  <2>1. CASE Publish(m)
    BY <2>1 DEF Publish, ServicesMayRun, Step
  <2>2. CASE Deliver(m)
    BY <2>2 DEF Deliver, Step, Inv, ServicesWait
  <2>3. CASE Handle(m)
    <3>1. Step(m, AtConsumer)
      BY <2>3 DEF Handle, Succeed, RetryOrDlq, Reject
    <3> QED BY <3>1, Places DEF Step, Inv, ServicesWait
  <2>4. CASE Expire(m)
    BY <2>4, Places DEF Expire, Step, Inv, ServicesWait
  <2> QED BY <2>1, <2>2, <2>3, <2>4 DEF Event
<1>3. TopologyStands
  BY Whole DEF Inv
<1>4. /\ Route("payments", "payment.created") = {Main}
      /\ Route("payments.dlx", "payment.safety-net") = {Dlq}
      /\ Route("payments.dlx", "payment.failed") = {Dlq}
      /\ \A n \in 1..RetryQueues : RouteToQueue(Retry(n)) = {Retry(n)}
  BY <1>2, <1>3, Routes
<1>5. queues = QueueArguments
  BY <1>2, <1>3 DEF TopologyStands
<1>6. CASE Publish(m)
  <2>1. Move(m, Outbox, Main) /\ tries' = tries
    BY <1>4, <1>6, IntoOne DEF Publish, Step, Move
  <2> QED BY <1>2, <2>1 DEF Moved
<1>7. CASE Deliver(m)
  BY <1>2, <1>7 DEF Deliver, Step, Move, Moved
<1>8. CASE Succeed(m)
  BY <1>2, <1>8 DEF Succeed, Step, Move, Moved
<1>9. CASE RetryOrDlq(m)
  <2>1. CASE /\ tries[m] < MaxRetries
             /\ Into(m, RouteToQueue(Retry(tries[m] + 1)))
             /\ tries' = [tries EXCEPT ![m] = @ + 1]
    <3>1. tries[m] + 1 \in 1..RetryQueues
      BY <1>1, <2>1
    <3>2. Move(m, AtConsumer, Retry(tries[m] + 1))
      BY <1>4, <1>9, <2>1, <3>1, IntoOne DEF RetryOrDlq, Step, Move
    <3> QED BY <1>2, <2>1, <3>1, <3>2 DEF Moved
  <2>2. CASE /\ Into(m, Route("payments.dlx", "payment.failed"))
             /\ UNCHANGED tries
    <3>1. Move(m, AtConsumer, Dlq)
      BY <1>4, <1>9, <2>2, IntoOne DEF RetryOrDlq, Step, Move
    <3> QED BY <1>2, <2>2, <3>1 DEF Moved
  <2> QED BY <1>9, <2>1, <2>2 DEF RetryOrDlq
<1>10. CASE Reject(m)
  <2>1. Into(m, Route("payments.dlx", "payment.safety-net")) /\ tries' = tries
    BY <1>5, <1>10, ArgumentFields DEF Reject, DeadLetter
  <2>2. Move(m, AtConsumer, Dlq)
    BY <1>4, <1>10, <2>1, IntoOne DEF Reject, Step, Move
  <2> QED BY <1>2, <2>1, <2>2 DEF Moved
<1>11. CASE Expire(m)
  <2>1. PICK q \in Queue : /\ queues[q].ttl > 0
                           /\ place[m] = q
                           /\ DeadLetter(m, q)
    BY <1>11 DEF Expire, Step
  <2>2. PICK n \in 1..RetryQueues : q = Retry(n)
    <3>1. q # Main /\ q # Dlq
      BY <1>5, <2>1, ArgumentFields
    <3> QED BY <3>1 DEF Queue, RetryQueue
  <2>3. Into(m, Route("payments", "payment.created")) /\ tries' = tries
    BY <1>5, <2>1, <2>2, ArgumentFields DEF DeadLetter
  <2>4. Move(m, Retry(n), Main)
    BY <1>4, <2>1, <2>2, <2>3, IntoOne DEF Move
  <2> QED BY <1>2, <2>3, <2>4 DEF Moved
<1> QED BY <1>6, <1>7, <1>8, <1>9, <1>10, <1>11 DEF Event, Handle

-----------------------------------------------------------------------------

\* The invariant holds before anything is declared.
LEMMA InitInv == Init => Inv
<1> SUFFICES ASSUME Init PROVE Inv
  OBVIOUS
<1>1. RetryQueues \in Nat /\ MaxRetries \in Nat /\ MaxFaults \in Nat
  BY TopologyAssumption
<1>2. Undeclared \in ArgumentsOf
  BY <1>1 DEF Undeclared, Arguments, ArgumentsOf
<1>3. TypeOK
  <2>1. exchanges \subseteq Exchange /\ bindings \subseteq [exchange: Exchange, key: RoutingKey, queue: Queue]
    BY DEF Init
  <2>2. queues \in [Queue -> ArgumentsOf]
    BY <1>2 DEF Init
  <2>3. place \in [Message -> Queue \cup {Outbox, AtConsumer, Settled, Lost}]
    BY DEF Init
  <2>4. tries \in [Message -> 0..MaxRetries]
    BY <1>1 DEF Init
  <2>5. job \in 0..LastStep /\ faults \in 0..MaxFaults
    BY <1>1 DEF Init, LastStep
  <2>6. completed \in BOOLEAN /\ consumer \in BOOLEAN
    BY DEF Init
  <2> QED BY <2>1, <2>2, <2>3, <2>4, <2>5, <2>6 DEF TypeOK
<1>4. OnlyOurs
  BY DEF Init, OnlyOurs
<1>5. JobProgress
  BY <1>1 DEF Init, JobProgress, Made
<1>6. ServicesWait /\ NothingDropped
  BY Places DEF Init, ServicesWait, NothingDropped
<1> QED BY <1>3, <1>4, <1>5, <1>6 DEF Inv

\* The parts of the invariant that are about events, when one of them moves.
LEMMA MovedStep ==
  ASSUME Inv, NEW m \in Message, Moved(m), completed,
         UNCHANGED <<broker, job, completed, consumer, faults>>
  PROVE  Inv'
<1>1. MaxRetries \in Nat /\ tries \in [Message -> 0..MaxRetries]
  BY TopologyAssumption DEF Inv, TypeOK
<1>2. place \in [Message -> Queue \cup {Outbox, AtConsumer, Settled, Lost}]
  BY DEF Inv, TypeOK
<1>3. \E q \in Queue \cup {AtConsumer, Settled} : place' = [place EXCEPT ![m] = q]
  BY Places DEF Moved, Move
<1>4. tries' \in [Message -> 0..MaxRetries]
  BY <1>1 DEF Moved
<1>5. place' \in [Message -> Queue \cup {Outbox, AtConsumer, Settled, Lost}]
  BY <1>2, <1>3
<1>6. TypeOK'
  BY <1>4, <1>5 DEF Inv, TypeOK, broker
<1>7. OnlyOurs'
  BY DEF Inv, OnlyOurs, broker
<1>8. JobProgress'
  BY DEF Inv, JobProgress, Made, broker
<1>9. ServicesWait'
  BY DEF Inv, ServicesWait
<1>10. NothingDropped'
  BY <1>2, <1>3, Places DEF Inv, NothingDropped
<1> QED BY <1>6, <1>7, <1>8, <1>9, <1>10 DEF Inv

\* No step of the job, the services or the broker breaks the invariant.
LEMMA InvStep == Inv /\ [Next]_vars => Inv'
<1> SUFFICES ASSUME Inv, [Next]_vars PROVE Inv'
  OBVIOUS
<1>1. RetryQueues \in Nat /\ MaxFaults \in Nat /\ LastStep \in Nat /\ LastStep = RetryQueues + 7
  BY TopologyAssumption DEF LastStep
<1>2. CASE RunJob
  <2>1. TypeOK'
    BY <1>1, <1>2 DEF RunJob, Fault, Inv, TypeOK, broker, events
  <2>2. OnlyOurs'
    BY <1>2 DEF RunJob, Inv, OnlyOurs, broker
  <2>3. JobProgress'
    BY <1>1, <1>2 DEF RunJob, Inv, JobProgress, Made, broker
  <2>4. ServicesWait' /\ NothingDropped'
    BY <1>2 DEF RunJob, Inv, ServicesWait, NothingDropped, events
  <2> QED BY <2>1, <2>2, <2>3, <2>4 DEF Inv
<1>3. CASE Declare
  <2>1. TypeOK' /\ OnlyOurs' /\ JobProgress'
    BY <1>3, DeclareStep DEF Inv
  <2>2. UNCHANGED <<consumer, place>> /\ (completed => completed')
    BY <1>3 DEF Declare, At, events
  <2>3. ServicesWait' /\ NothingDropped'
    BY <2>1, <2>2 DEF Inv, ServicesWait, NothingDropped, TypeOK
  <2> QED BY <2>1, <2>3 DEF Inv
<1>4. CASE JobDies
  <2>1. TypeOK'
    BY <1>1, <1>4 DEF JobDies, Fault, Inv, TypeOK, broker, events
  <2>2. OnlyOurs'
    BY <1>4 DEF JobDies, Inv, OnlyOurs, broker
  <2>3. JobProgress'
    BY <1>1, <1>4 DEF JobDies, Inv, JobProgress, Made, broker
  <2>4. ServicesWait' /\ NothingDropped'
    BY <1>4 DEF JobDies, Inv, ServicesWait, NothingDropped, events
  <2> QED BY <2>1, <2>2, <2>3, <2>4 DEF Inv
<1>5. CASE StartConsumer
  <2>1. DeclareQueue(Main, QueueArguments[Main])
    BY <1>5, ArgumentFacts DEF StartConsumer
  <2>2. Grows /\ OnlyOurs' /\ queues' \in [Queue -> ArgumentsOf] /\ UNCHANGED <<exchanges, bindings>>
    BY <2>1, QueueDeclared, Places DEF Inv
  <2>3. TypeOK'
    BY <1>5, <2>2 DEF StartConsumer, Inv, TypeOK, events
  <2>4. Made(job)' /\ (completed => Made(LastStep + 1)')
    <3>1. Made(job) => Made(job)'
      <4>1. job \in Int /\ job' = job
        BY <1>1, <1>5 DEF StartConsumer, Inv, TypeOK
      <4> QED BY <4>1, <2>2, Places DEF Grows, Made
    <3>2. Made(LastStep + 1) => Made(LastStep + 1)'
      BY <1>1, <2>2, MadeStays
    <3> QED BY <3>1, <3>2 DEF Inv, JobProgress
  <2>5. JobProgress'
    BY <1>5, <2>4 DEF StartConsumer, JobProgress
  <2>6. ServicesWait' /\ NothingDropped'
    BY <1>5 DEF StartConsumer, ServicesMayRun, Inv, ServicesWait, NothingDropped, events
  <2> QED BY <2>2, <2>3, <2>5, <2>6 DEF Inv
<1>6. CASE ConsumerDies
  <2>1. \A m \in Message : place'[m] = PutBack(place[m])
    BY <1>6 DEF ConsumerDies
  <2>2. place' \in [Message -> Queue \cup {Outbox, AtConsumer, Settled, Lost}]
    BY <1>6, Places DEF ConsumerDies, PutBack, Inv, TypeOK
  <2>3. TypeOK'
    <3>1. faults' \in 0..MaxFaults
      BY <1>1, <1>6 DEF ConsumerDies, Fault, Inv, TypeOK
    <3>2. consumer' \in BOOLEAN /\ UNCHANGED <<broker, job, completed, tries>>
      BY <1>6 DEF ConsumerDies
    <3> QED BY <2>2, <3>1, <3>2 DEF Inv, TypeOK, broker
  <2>4. OnlyOurs'
    BY <1>6 DEF ConsumerDies, Inv, OnlyOurs, broker
  <2>5. JobProgress'
    BY <1>6 DEF ConsumerDies, Inv, JobProgress, Made, broker
  <2>6. ServicesWait' /\ NothingDropped'
    BY <1>6, <2>1, Places DEF ConsumerDies, PutBack, Inv, ServicesWait, NothingDropped
  <2> QED BY <2>3, <2>4, <2>5, <2>6 DEF Inv
<1>7. CASE BrokerRestarts
  <2>1. queues' = queues /\ bindings' = bindings /\ exchanges' = exchanges
    <3>1. \A b \in bindings : b.queue \in Queue
      BY DEF Inv, TypeOK
    <3>2. queues = [q \in Queue |-> queues[q]]
      BY DEF Inv, TypeOK
    <3> QED BY <1>7, <3>1, <3>2 DEF BrokerRestarts, DurableQueue
  <2>2. \A m \in Message : place'[m] = PutBack(place[m])
    BY <1>7 DEF BrokerRestarts, DurableQueue
  <2>3. place' \in [Message -> Queue \cup {Outbox, AtConsumer, Settled, Lost}]
    BY <1>7, Places DEF BrokerRestarts, PutBack, Inv, TypeOK
  <2>4. TypeOK'
    <3>1. Fault /\ job' = 0 /\ consumer' = FALSE /\ UNCHANGED <<completed, tries>>
      BY <1>7 DEF BrokerRestarts
    <3>2. faults' \in 0..MaxFaults
      BY <1>1, <3>1 DEF Fault, Inv, TypeOK
    <3>3. job' \in 0..LastStep
      BY <1>1, <3>1 DEF LastStep
    <3>4. consumer' \in BOOLEAN
      BY <3>1
    <3> QED BY <2>1, <2>3, <3>1, <3>2, <3>3, <3>4 DEF Inv, TypeOK
  <2>5. OnlyOurs'
    BY <2>1 DEF Inv, OnlyOurs
  <2>6. JobProgress'
    BY <1>1, <1>7, <2>1 DEF BrokerRestarts, Inv, JobProgress, Made
  <2>7. ServicesWait' /\ NothingDropped'
    BY <1>7, <2>2, Places DEF BrokerRestarts, PutBack, Inv, ServicesWait, NothingDropped
  <2> QED BY <2>4, <2>5, <2>6, <2>7 DEF Inv
<1>8. ASSUME NEW m \in Message, Event(m) PROVE Inv'
  <2>1. Moved(m) /\ completed /\ UNCHANGED <<broker, job, completed, consumer, faults>>
    BY <1>8, EventMoves
  <2> QED BY <2>1, MovedStep
<1>9. CASE UNCHANGED vars
  BY <1>9 DEF Inv, TypeOK, OnlyOurs, JobProgress, Made, ServicesWait, NothingDropped,
              vars, broker, events
<1> QED BY <1>2, <1>3, <1>4, <1>5, <1>6, <1>7, <1>8, <1>9 DEF Next

-----------------------------------------------------------------------------

\* The invariant holds in every reachable state.
LEMMA Invariance == Spec => []Inv
<1>1. Init => Inv
  BY InitInv
<1>2. Inv /\ [Next]_vars => Inv'
  BY InvStep
<1> QED BY <1>1, <1>2, PTL DEF Spec

\* The type invariant, with x-retry-count never above CONSUMER_MAX_RETRIES.
THEOREM TypeCorrect == Spec => []TypeOK
<1>1. Inv => TypeOK
  BY DEF Inv
<1> QED BY <1>1, Invariance, PTL

\* Once the job has completed, the broker has exactly the exchanges, queues
\* and bindings that declare_topology names, whatever dies or is run again.
THEOREM TopologyWhole == Spec => []TopologyStands
<1>1. Inv => TopologyStands
  BY Whole DEF Inv
<1> QED BY <1>1, Invariance, PTL

\* No message is ever published, dead-lettered or expired into nothing.
THEOREM NothingIsDropped == Spec => []NothingDropped
<1>1. Inv => NothingDropped
  BY DEF Inv
<1> QED BY <1>1, Invariance, PTL

-----------------------------------------------------------------------------

\* EventPath's view of the places.
LEMMA SeenPlaces ==
  /\ Seen(Outbox) = "outbox" /\ Seen(Main) = "new" /\ Seen(AtConsumer) = "consumer"
  /\ Seen(Settled) = "done" /\ Seen(Dlq) = "dead"
  /\ \A n \in 1..RetryQueues : Seen(Retry(n)) = "waiting"
BY DEF Seen, Outbox, Main, AtConsumer, Settled, Dlq, RetryQueue, Retry

\* A move of an event is one step of its path.
LEMMA MovedPath ==
  ASSUME TypeOK, NEW m \in Message, Moved(m)
  PROVE  Path!Step(m)
<1> DEFINE at == [k \in Message |-> Seen(place[k])]
<1>1. ASSUME NEW p, NEW q, Move(m, p, q)
      PROVE  Path!Move(m, Seen(p), Seen(q))
  <2>1. /\ place \in [Message -> Queue \cup {Outbox, AtConsumer, Settled, Lost}]
        /\ place[m] = p /\ place' = [place EXCEPT ![m] = q]
    BY <1>1 DEF Move, TypeOK
  <2>2. at[m] = Seen(p)
    BY <2>1
  <2>3. \A k \in Message : place'[k] = IF k = m THEN q ELSE place[k]
    BY <2>1
  <2>4. at' = [k \in Message |-> Seen(place'[k])]
    BY DEF Seen, Outbox, Main, AtConsumer, Settled, Dlq, RetryQueue, Retry
  <2>5. at' = [at EXCEPT ![m] = Seen(q)]
    <3> HIDE DEF Seen
    <3> QED BY <2>3, <2>4
  <2> QED BY <2>2, <2>5 DEF Path!Move
<1>3. CASE Move(m, Outbox, Main) /\ tries' = tries
  <2>1. Path!Move(m, "outbox", "new")
    BY <1>1, <1>3, SeenPlaces
  <2> QED BY <1>3, <2>1 DEF Path!Step, Path!Stay
<1>4. CASE Move(m, Main, AtConsumer) /\ tries' = tries
  <2>1. Path!Move(m, "new", "consumer")
    BY <1>1, <1>4, SeenPlaces
  <2> QED BY <1>4, <2>1 DEF Path!Step, Path!Stay
<1>5. CASE Move(m, AtConsumer, Settled) /\ tries' = tries
  <2>1. Path!Move(m, "consumer", "done")
    BY <1>1, <1>5, SeenPlaces
  <2> QED BY <1>5, <2>1 DEF Path!Step, Path!Stay
<1>6. CASE Move(m, AtConsumer, Dlq) /\ tries' = tries
  <2>1. Path!Move(m, "consumer", "dead")
    BY <1>1, <1>6, SeenPlaces
  <2> QED BY <1>6, <2>1 DEF Path!Step, Path!Stay
<1>7. ASSUME NEW n \in 1..RetryQueues, Move(m, AtConsumer, Retry(n)),
             tries[m] < MaxRetries, tries' = [tries EXCEPT ![m] = @ + 1]
      PROVE  Path!Step(m)
  <2>1. Path!Move(m, "consumer", "waiting")
    BY <1>1, <1>7, SeenPlaces
  <2> QED BY <1>7, <2>1 DEF Path!Step, Path!Wait
<1>8. ASSUME NEW n \in 1..RetryQueues, Move(m, Retry(n), Main), tries' = tries
      PROVE  Path!Step(m)
  <2>1. Path!Move(m, "waiting", "new")
    BY <1>1, <1>8, SeenPlaces
  <2> QED BY <1>8, <2>1 DEF Path!Step, Path!Stay
<1> QED BY <1>3, <1>4, <1>5, <1>6, <1>7, <1>8 DEF Moved

\* The events that the consumer has not settled are put back.
LEMMA PutBackPath ==
  ASSUME TypeOK, place' = [m \in Message |-> PutBack(place[m])], tries' = tries
  PROVE  Path!TakeBack
<1> DEFINE at == [m \in Message |-> Seen(place[m])]
<1>1. \A m \in Message :
        Seen(PutBack(place[m])) = IF Seen(place[m]) = "consumer" THEN "new" ELSE Seen(place[m])
  BY Places DEF Seen, PutBack
<1>2. \A m \in Message : place'[m] = PutBack(place[m])
  OBVIOUS
<1>3. at' = [m \in Message |-> Seen(place'[m])]
  BY DEF Seen
<1>4. at' = [m \in Message |-> IF at[m] = "consumer" THEN "new" ELSE at[m]]
  <2> HIDE DEF Seen
  <2> QED BY <1>1, <1>2, <1>3
<1> QED BY <1>4 DEF Path!TakeBack, Path!Stay

\* Every step of the system is a step of the path or leaves events alone.
LEMMA PathStep == Inv /\ [Next]_vars => [Path!ANext]_Path!avars
<1> SUFFICES ASSUME Inv, [Next]_vars PROVE [Path!ANext]_Path!avars
  OBVIOUS
<1>1. ASSUME NEW m \in Message, Event(m) PROVE Path!ANext
  <2>1. Path!Step(m)
    BY <1>1, EventMoves, MovedPath DEF Inv
  <2> QED BY <2>1 DEF Path!ANext
<1>2. CASE ConsumerDies \/ BrokerRestarts
  <2>1. place' = [m \in Message |-> PutBack(place[m])] /\ tries' = tries
    BY <1>2 DEF ConsumerDies, BrokerRestarts, DurableQueue
  <2>2. Path!TakeBack
    BY <2>1, PutBackPath DEF Inv
  <2> QED BY <2>2 DEF Path!ANext
<1>3. CASE RunJob \/ Declare \/ JobDies \/ StartConsumer \/ UNCHANGED vars
  <2>1. place' = place /\ tries' = tries
    BY <1>3 DEF RunJob, Declare, At, JobDies, StartConsumer, vars, events
  <2>2. UNCHANGED Path!avars
    BY <2>1 DEF Path!avars, Seen
  <2> QED BY <2>2
<1> QED BY <1>1, <1>2, <1>3 DEF Next

\* Exchanges, queues and bindings bring every event along the path that
\* EventPath lays out, for every number of retries and of failures.
THEOREM Refinement == Spec => KeepsPath
<1>1. Init => Path!AInit
  <2>1. ASSUME Init PROVE [m \in Message |-> Seen(place[m])] = [m \in Message |-> "outbox"]
    BY <2>1, SeenPlaces DEF Init
  <2> QED BY <2>1 DEF Path!AInit, Init
<1>2. Inv /\ [Next]_vars => [Path!ANext]_Path!avars
  BY PathStep
<1> QED BY <1>1, <1>2, Invariance, PTL DEF Spec, KeepsPath, Path!ASpec
=============================================================================
