------------------------- MODULE WebhookBudgetProofs ------------------------
(***************************************************************************)
(* PostsBounded of PaymentConsumer, for any payments, handlers, retries    *)
(* and failures.                                                           *)
(*                                                                         *)
(* Every delivery of an event carries a number of webhook requests that    *)
(* may still come from it: MaxRetries + 1 when it is new, one less with    *)
(* each retry.  What the queues and the handlers carry, together with what *)
(* has been posted, never exceeds MaxRetries + 1 for each message that was *)
(* published or put back.  The sum over the queues, and over the handlers, *)
(* is the number of points of a chart with one column for each.            *)
(***************************************************************************)
EXTENDS PaymentConsumerProofs

\* The points below a function into the naturals, one column per argument.
Chart(f) == UNION {{x} \X (1..f[x]) : x \in DOMAIN f}

\* The values of x-retry-count.
Count == 0..MaxRetries

\* The requests that a handling of m may still cause, retries included.
Worth(m) == MaxRetries + 1 - m.retry

\* The event of p as it comes back to payments.new for its k-th retry.
Event(p, k) == [payment |-> p, retry |-> k]

\* What the messages of p in each queue are worth.
InQueues(p) ==
  [k \in Count |->
     (ready[Event(p, k)] + delayed[Event(p, k)]) * Worth(Event(p, k))]

\* What a handler of an event of p may still post, now and in later retries.
InHandlers(p) ==
  [h \in Handler |->
     IF pc[h] = "idle" \/ msg[h].payment # p THEN 0
     ELSE IF pc[h] \in {"load", "process", "send"} THEN Worth(msg[h])
     ELSE IF pc[h] = "retry" THEN Worth(msg[h]) - 1
     ELSE 0]

\* Requests made and still possible never exceed what deliveries allow.
Budget(p) ==
  /\ IsFiniteSet(Chart(InQueues(p)))
  /\ IsFiniteSet(Chart(InHandlers(p)))
  /\ posts[p] + Cardinality(Chart(InQueues(p))) + Cardinality(Chart(InHandlers(p)))
       <= (MaxRetries + 1) * (events[p] + again[p])

WithinBudget == \A p \in Payment : Budget(p)

-----------------------------------------------------------------------------

\* A chart has the points on and below the function.
LEMMA ChartPoints ==
  ASSUME NEW X, NEW f \in [X -> Nat]
  PROVE  /\ \A x \in X : \A i \in 1..f[x] : <<x, i>> \in Chart(f)
         /\ \A z \in Chart(f) : \E x \in X : \E i \in 1..f[x] : z = <<x, i>>
         /\ \A x, i : <<x, i>> \in Chart(f) => x \in X /\ i \in 1..f[x]
BY DEF Chart

\* The size of a piece of a column.
LEMMA ColumnSize ==
  ASSUME NEW x, NEW n \in Nat
  PROVE  IsFiniteSet({x} \X (1..n)) /\ Cardinality({x} \X (1..n)) = n
<1>1. IsFiniteSet({x}) /\ Cardinality({x}) = 1
  BY FS_Singleton
<1>2. IsFiniteSet(1..n) /\ Cardinality(1..n) = n
  BY FS_Interval
<1>3. /\ IsFiniteSet({x} \X (1..n))
      /\ Cardinality({x} \X (1..n)) = Cardinality({x}) * Cardinality(1..n)
  BY <1>1, <1>2, FS_Product
<1> QED BY <1>1, <1>2, <1>3

\* A function that is 0 everywhere has an empty chart.
LEMMA EmptyChart ==
  ASSUME NEW X, NEW f \in [X -> Nat], \A x \in X : f[x] = 0
  PROVE  IsFiniteSet(Chart(f)) /\ Cardinality(Chart(f)) = 0
<1>1. Chart(f) = {}
  BY ChartPoints
<1> QED BY <1>1, FS_EmptySet

\* When one value changes, the chart changes by the difference.
LEMMA ChangeColumn ==
  ASSUME NEW X, NEW f \in [X -> Nat], NEW g \in [X -> Nat], NEW x \in X,
         \A y \in X \ {x} : g[y] = f[y], IsFiniteSet(Chart(f))
  PROVE  /\ IsFiniteSet(Chart(g))
         /\ Cardinality(Chart(f)) \in Nat /\ Cardinality(Chart(g)) \in Nat
         /\ f[x] \in Nat /\ g[x] \in Nat
         /\ Cardinality(Chart(g)) = Cardinality(Chart(f)) - f[x] + g[x]
<1> DEFINE C == {x} \X (1..f[x])
           D == {x} \X (1..g[x])
           Rest == Chart(f) \ C
<1>1. f[x] \in Nat /\ g[x] \in Nat
  OBVIOUS
<1>2. /\ IsFiniteSet(C) /\ Cardinality(C) = f[x]
      /\ IsFiniteSet(D) /\ Cardinality(D) = g[x]
  BY <1>1, ColumnSize
<1>3. Chart(f) \cap C = C
  BY ChartPoints
<1>4. Rest \cap D = {}
  BY ChartPoints
<1>5. Chart(g) = Rest \cup D
  <2>1. ASSUME NEW z \in Chart(g) PROVE z \in Rest \cup D
    <3>1. PICK y \in X : \E i \in 1..g[y] : z = <<y, i>>
      BY ChartPoints
    <3>2. CASE y = x
      BY <3>1, <3>2
    <3>3. CASE y # x
      BY <3>1, <3>3, ChartPoints
    <3> QED BY <3>2, <3>3
  <2>2. ASSUME NEW z \in D PROVE z \in Chart(g)
    BY ChartPoints
  <2>3. ASSUME NEW z \in Rest PROVE z \in Chart(g)
    <3>1. PICK y \in X : \E i \in 1..f[y] : z = <<y, i>>
      BY ChartPoints
    <3>2. y # x
      BY <3>1
    <3> QED BY <3>1, <3>2, ChartPoints
  <2> QED BY <2>1, <2>2, <2>3
<1>6. IsFiniteSet(Rest) /\ Cardinality(Rest) = Cardinality(Chart(f)) - Cardinality(C)
  <2> HIDE DEF C
  <2> QED BY <1>3, FS_Difference
<1>7. /\ IsFiniteSet(Rest \cup D)
      /\ Cardinality(Rest \cup D) = Cardinality(Rest) + Cardinality(D) - Cardinality({})
  <2> HIDE DEF D, Rest
  <2> QED BY <1>2, <1>4, <1>6, FS_Union
<1>8. /\ Cardinality(Chart(f)) \in Nat /\ Cardinality(Rest) \in Nat
      /\ Cardinality({}) = 0
  BY <1>6, FS_CardinalityType, FS_EmptySet
<1> HIDE DEF C, D, Rest
<1> QED BY <1>1, <1>2, <1>5, <1>6, <1>7, <1>8

\* The points of column x that g has on top of those of f.
Growth(f, g, x) == (f[x] + 1)..g[x]

\* F names every point of that growth by a member of T.
Names(F, T, f, g) ==
  \A x \in DOMAIN g : \A i \in Growth(f, g, x) : \E t \in T : F[t] = <<x, i>>

\* A chart that grows by points which F maps the members of T onto grows by
\* no more than T has members.
LEMMA GrowColumns ==
  ASSUME NEW X, NEW f \in [X -> Nat], NEW g \in [X -> Nat], IsFiniteSet(Chart(f)),
         NEW T, IsFiniteSet(T), NEW F, Names(F, T, f, g)
  PROVE  /\ IsFiniteSet(Chart(g))
         /\ Cardinality(Chart(g)) \in Nat /\ Cardinality(Chart(f)) \in Nat
         /\ Cardinality(T) \in Nat
         /\ Cardinality(Chart(g)) <= Cardinality(Chart(f)) + Cardinality(T)
<1> DEFINE New == Chart(g) \ Chart(f)
           Used == {t \in T : F[t] \in New}
           onto == [t \in Used |-> F[t]]
<1>1. \A z \in New : \E t \in T : F[t] = z
  <2> SUFFICES ASSUME NEW z \in New PROVE \E t \in T : F[t] = z
    OBVIOUS
  <2>0. PICK x \in X : \E i \in 1..g[x] : z = <<x, i>>
    BY ChartPoints
  <2>1. PICK i \in 1..g[x] : z = <<x, i>>
    BY <2>0
  <2>2. i \notin 1..f[x]
    BY <2>1, ChartPoints
  <2>3. f[x] \in Nat /\ g[x] \in Nat
    OBVIOUS
  <2>4. i \in Growth(f, g, x)
    BY <2>2, <2>3 DEF Growth
  <2>5. x \in DOMAIN g
    OBVIOUS
  <2> QED BY <2>1, <2>4, <2>5 DEF Names
<1>2. onto \in Surjection(Used, New)
  BY <1>1 DEF Surjection
<1>3. IsFiniteSet(Used) /\ Cardinality(Used) <= Cardinality(T)
  BY FS_Subset
<1>4. IsFiniteSet(New) /\ Cardinality(New) <= Cardinality(Used)
  BY <1>2, <1>3, FS_Surjection
<1>5. /\ IsFiniteSet(Chart(f) \cup New)
      /\ Cardinality(Chart(f) \cup New)
           = Cardinality(Chart(f)) + Cardinality(New) - Cardinality({})
  <2>1. Chart(f) \cap New = {}
    OBVIOUS
  <2> QED BY <1>4, <2>1, FS_Union
<1>6. /\ IsFiniteSet(Chart(g))
      /\ Cardinality(Chart(g)) <= Cardinality(Chart(f) \cup New)
  BY <1>5, FS_Subset
<1>7. /\ Cardinality({}) = 0 /\ Cardinality(Chart(f)) \in Nat /\ Cardinality(Chart(g)) \in Nat
      /\ Cardinality(New) \in Nat /\ Cardinality(Used) \in Nat /\ Cardinality(T) \in Nat
  BY <1>3, <1>4, <1>6, FS_CardinalityType, FS_EmptySet
<1> HIDE DEF New, Used
<1> QED BY <1>3, <1>4, <1>5, <1>6, <1>7

-----------------------------------------------------------------------------

\* The messages of a payment are told apart by their retry counts.
LEMMA EventFacts ==
  ASSUME NEW p \in Payment, NEW k \in Count
  PROVE  /\ Event(p, k) \in Message
         /\ Event(p, k).payment = p /\ Event(p, k).retry = k
         /\ \A m \in Message : m = Event(p, k) <=> m.payment = p /\ m.retry = k
         /\ Worth(Event(p, k)) = MaxRetries + 1 - k
BY ConsumerAssumption, MessageFields DEF Event, Message, Worth, Count

\* What a message is worth.
LEMMA WorthType ==
  ASSUME NEW m \in Message
  PROVE  Worth(m) \in Nat /\ Worth(m) >= 1 /\ Worth(m) <= MaxRetries + 1
BY ConsumerAssumption, MessageFields DEF Worth

\* Both are functions into the naturals.
LoadsAreNumbers ==
  \A p \in Payment :
    InQueues(p) \in [Count -> Nat] /\ InHandlers(p) \in [Handler -> Nat]

\* What queues and handlers carry is a natural number.
LEMMA LoadTypes == Inv => LoadsAreNumbers
<1> SUFFICES ASSUME Inv, NEW p \in Payment
             PROVE  /\ InQueues(p) \in [Count -> Nat]
                    /\ InHandlers(p) \in [Handler -> Nat]
  BY DEF LoadsAreNumbers
<1>1. ready \in [Message -> Nat] /\ delayed \in [Message -> Nat]
  BY DEF Inv, TypeOK
<1>2. ASSUME NEW k \in Count
      PROVE  (ready[Event(p, k)] + delayed[Event(p, k)]) * Worth(Event(p, k)) \in Nat
  <2>1. Event(p, k) \in Message
    BY EventFacts
  <2>2. ready[Event(p, k)] + delayed[Event(p, k)] \in Nat /\ Worth(Event(p, k)) \in Nat
    BY <1>1, <2>1, WorthType
  <2> QED BY <2>2
<1>3. ASSUME NEW h \in Handler, pc[h] # "idle"
      PROVE  Worth(msg[h]) \in Nat /\ Worth(msg[h]) - 1 \in Nat
  <2>1. msg[h] \in Message
    BY <1>3, HandlerTypes
  <2> QED BY <2>1, WorthType
<1>4. InQueues(p) \in [Count -> Nat]
  BY <1>2 DEF InQueues
<1>5. InHandlers(p) \in [Handler -> Nat]
  BY <1>3 DEF InHandlers
<1> QED BY <1>4, <1>5

\* A step that moves requests between one queue, one handler and the
\* merchant, and makes no new ones, keeps the budget.
LEMMA OneMove ==
  ASSUME Inv, Inv', NEW p \in Payment, Budget(p), NEW h \in Handler, NEW k \in Count,
         \A g \in Handler \ {h} : InHandlers(p)'[g] = InHandlers(p)[g],
         \A j \in Count \ {k} : InQueues(p)'[j] = InQueues(p)[j],
         posts'[p] + InQueues(p)'[k] + InHandlers(p)'[h]
           <= posts[p] + InQueues(p)[k] + InHandlers(p)[h],
         events'[p] = events[p], again'[p] = again[p]
  PROVE  Budget(p)'
<1> DEFINE Q == InQueues(p)
           H == InHandlers(p)
           q == InQueues(p)'
           g == InHandlers(p)'
           limit == (MaxRetries + 1) * (events[p] + again[p])
<1>1. /\ Q \in [Count -> Nat] /\ H \in [Handler -> Nat]
      /\ q \in [Count -> Nat] /\ g \in [Handler -> Nat]
  <2>1. LoadsAreNumbers /\ LoadsAreNumbers'
    BY LoadTypes, PTL
  <2> QED BY <2>1 DEF LoadsAreNumbers
<1>2. IsFiniteSet(Chart(Q)) /\ IsFiniteSet(Chart(H))
  BY DEF Budget
<1>3. \A i \in Handler \ {h} : g[i] = H[i]
  OBVIOUS
<1>4. \A j \in Count \ {k} : q[j] = Q[j]
  OBVIOUS
<1>5. /\ posts'[p] + q[k] + g[h] <= posts[p] + Q[k] + H[h]
      /\ posts[p] + Cardinality(Chart(Q)) + Cardinality(Chart(H)) <= limit
  BY DEF Budget
<1>6. posts[p] \in Nat /\ posts'[p] \in Nat
  BY DEF Inv, TypeOK
<1>7. limit \in Nat
  <2>1. events[p] + again[p] \in Nat /\ MaxRetries + 1 \in Nat
    BY ConsumerAssumption DEF Inv, TypeOK
  <2> QED BY <2>1
<1>8. /\ IsFiniteSet(Chart(q)) /\ IsFiniteSet(Chart(g))
      /\ posts'[p] + Cardinality(Chart(q)) + Cardinality(Chart(g)) <= limit
  <2> HIDE DEF Q, H, q, g, limit
  <2>1. /\ IsFiniteSet(Chart(q))
        /\ Cardinality(Chart(Q)) \in Nat /\ Cardinality(Chart(q)) \in Nat
        /\ Cardinality(Chart(q)) = Cardinality(Chart(Q)) - Q[k] + q[k]
        /\ Q[k] \in Nat /\ q[k] \in Nat
    BY <1>1, <1>2, <1>4, ChangeColumn
  <2>2. /\ IsFiniteSet(Chart(g))
        /\ Cardinality(Chart(H)) \in Nat /\ Cardinality(Chart(g)) \in Nat
        /\ Cardinality(Chart(g)) = Cardinality(Chart(H)) - H[h] + g[h]
        /\ H[h] \in Nat /\ g[h] \in Nat
    BY <1>1, <1>2, <1>3, ChangeColumn
  <2> QED BY <1>5, <1>6, <1>7, <2>1, <2>2
<1> QED BY <1>8 DEF Budget

\* A new message of p brings its worth, for which its publication allows.
LEMMA ArriveStep ==
  ASSUME Inv, Inv', NEW p \in Payment, Budget(p), NEW r \in Payment, Arrive(r)
  PROVE  Budget(p)'
<1> DEFINE Q == InQueues(p)
           q == InQueues(p)'
           limit == (MaxRetries + 1) * (events[p] + again[p])
           limit2 == (MaxRetries + 1) * (events'[p] + again'[p])
<1>1. InHandlers(p)' = InHandlers(p) /\ posts' = posts
  BY DEF Arrive, InHandlers, handlers, merchant
<1>2. Q \in [Count -> Nat] /\ q \in [Count -> Nat]
  <2>1. LoadsAreNumbers /\ LoadsAreNumbers'
    BY LoadTypes, PTL
  <2> QED BY <2>1 DEF LoadsAreNumbers
<1>3. 0 \in Count
  BY ConsumerAssumption DEF Count
<1>4. ready' = [ready EXCEPT ![Event(r, 0)] = @ + 1] /\ delayed' = delayed
  BY DEF Arrive, Event
<1>5. \A j \in Count : Event(p, j) = Event(r, 0) <=> p = r /\ j = 0
  BY <1>3, EventFacts
<1>6. ready \in [Message -> Nat] /\ delayed \in [Message -> Nat]
  BY DEF Inv, TypeOK
<1>7. \A j \in Count : Event(p, j) \in Message
  BY EventFacts
<1>8. \A j \in Count : p # r \/ j # 0 => q[j] = Q[j]
  <2>1. ASSUME NEW j \in Count, p # r \/ j # 0
        PROVE  ready'[Event(p, j)] = ready[Event(p, j)]
    BY <1>4, <1>5, <1>6, <1>7, <2>1
  <2> QED BY <1>4, <2>1 DEF InQueues
<1>9. p = r => q[0] = Q[0] + MaxRetries + 1
  <2> SUFFICES ASSUME p = r PROVE q[0] = Q[0] + MaxRetries + 1
    OBVIOUS
  <2> DEFINE m == Event(p, 0)
  <2>1. m \in Message /\ Worth(m) = MaxRetries + 1
    BY <1>3, EventFacts
  <2>2. Q[0] = (ready[m] + delayed[m]) * Worth(m) /\ q[0] = (ready'[m] + delayed'[m]) * Worth(m)
    BY <1>3 DEF InQueues
  <2>3. ready'[m] = ready[m] + 1 /\ delayed'[m] = delayed[m]
    BY <1>4, <1>6, <2>1
  <2> QED BY <1>6, <2>1, <2>2, <2>3, ConsumerAssumption
<1>10. /\ p = r => limit2 = limit + MaxRetries + 1
       /\ p # r => limit2 = limit
       /\ limit \in Nat /\ limit2 \in Nat
  <2>1. events[p] \in Nat /\ again[p] \in Nat /\ MaxRetries \in Nat
    BY ConsumerAssumption DEF Inv, TypeOK
  <2>2. again' = again /\ (p = r => events'[p] = events[p] + 1) /\ (p # r => events'[p] = events[p])
    BY DEF Arrive, Inv, TypeOK
  <2> QED BY <2>1, <2>2
<1>11. /\ IsFiniteSet(Chart(Q)) /\ IsFiniteSet(Chart(InHandlers(p)))
       /\ posts[p] + Cardinality(Chart(Q)) + Cardinality(Chart(InHandlers(p))) <= limit
  BY DEF Budget
<1>12. posts[p] \in Nat /\ Cardinality(Chart(InHandlers(p))) \in Nat /\ MaxRetries \in Nat
  BY <1>11, FS_CardinalityType, ConsumerAssumption DEF Inv, TypeOK
<1>13. /\ IsFiniteSet(Chart(q))
       /\ posts[p] + Cardinality(Chart(q)) + Cardinality(Chart(InHandlers(p))) <= limit2
  <2> DEFINE zero == 0
  <2>1. zero \in Count /\ \A j \in Count \ {zero} : q[j] = Q[j]
    BY <1>3, <1>8
  <2>2. /\ p = r => q[zero] = Q[zero] + MaxRetries + 1
        /\ p # r => q[zero] = Q[zero]
    BY <1>3, <1>8, <1>9
  <2> HIDE DEF Q, q, limit, limit2, zero
  <2>3. /\ IsFiniteSet(Chart(q))
        /\ Cardinality(Chart(Q)) \in Nat /\ Cardinality(Chart(q)) \in Nat
        /\ Cardinality(Chart(q)) = Cardinality(Chart(Q)) - Q[zero] + q[zero]
        /\ Q[zero] \in Nat /\ q[zero] \in Nat
    BY <1>2, <1>11, <2>1, ChangeColumn
  <2> QED BY <1>10, <1>11, <1>12, <2>2, <2>3
<1> QED BY <1>1, <1>11, <1>13 DEF Budget

\* A step of one handler that leaves the queues alone keeps the budget if
\* what it posts comes out of what it carries.
LEMMA HandlerMove ==
  ASSUME Inv, Inv', NEW p \in Payment, Budget(p), NEW h \in Handler,
         \A g \in Handler \ {h} : pc'[g] = pc[g] /\ msg'[g] = msg[g],
         UNCHANGED <<ready, delayed, events, again>>,
         posts'[p] + InHandlers(p)'[h] <= posts[p] + InHandlers(p)[h]
  PROVE  Budget(p)'
<1>1. PICK k \in Count : TRUE
  BY ConsumerAssumption DEF Count
<1>2. InQueues(p)' = InQueues(p)
  BY DEF InQueues
<1>3. \A g \in Handler \ {h} : InHandlers(p)'[g] = InHandlers(p)[g]
  BY DEF InHandlers
<1>4. /\ InQueues(p)[k] \in Nat /\ InHandlers(p)[h] \in Nat /\ InHandlers(p)'[h] \in Nat
      /\ posts[p] \in Nat /\ posts'[p] \in Nat
  <2>1. LoadsAreNumbers /\ LoadsAreNumbers'
    BY LoadTypes, PTL
  <2>2. posts[p] \in Nat /\ posts'[p] \in Nat
    BY DEF Inv, TypeOK
  <2> QED BY <2>1, <2>2 DEF LoadsAreNumbers
<1>5. posts'[p] + InQueues(p)'[k] + InHandlers(p)'[h]
        <= posts[p] + InQueues(p)[k] + InHandlers(p)[h]
  BY <1>2, <1>4
<1> QED BY <1>2, <1>3, <1>5, OneMove

\* A handler that goes on with its message, or is done with it.
LEMMA GoOnStep ==
  ASSUME Inv, Inv', NEW p \in Payment, Budget(p), NEW h \in Handler, pc[h] # "idle",
         \/ \E place \in {"ack", "error", "missing"} : Goto(h, place)
         \/ pc[h] = "load" /\ (Goto(h, "process") \/ Goto(h, "send"))
         \/ pc[h] = "process" /\ Goto(h, "send")
         \/ pc[h] = "send" /\ Goto(h, "retry")
         \/ Free({h}),
         UNCHANGED <<queues, posts, events, again>>
  PROVE  Budget(p)'
<1>0. /\ pc \in [Handler -> Place] /\ msg \in [Handler -> Message \cup {NoMessage}]
      /\ posts[p] \in Nat
  BY DEF Inv, TypeOK
<1>1. \A g \in Handler \ {h} : pc'[g] = pc[g] /\ msg'[g] = msg[g]
  <2>1. ASSUME NEW place, Goto(h, place)
        PROVE  \A g \in Handler \ {h} : pc'[g] = pc[g] /\ msg'[g] = msg[g]
    BY <1>0, <2>1 DEF Goto
  <2>2. ASSUME Free({h})
        PROVE  \A g \in Handler \ {h} : pc'[g] = pc[g] /\ msg'[g] = msg[g]
    BY <2>2 DEF Free
  <2> QED BY <2>1, <2>2
<1>2. Worth(msg[h]) \in Nat /\ Worth(msg[h]) >= 1
  BY HandlerTypes, WorthType
<1>3. InHandlers(p)[h] \in Nat /\ InHandlers(p)'[h] \in Nat
  <2>1. LoadsAreNumbers /\ LoadsAreNumbers'
    BY LoadTypes, PTL
  <2> QED BY <2>1 DEF LoadsAreNumbers
<1>4. InHandlers(p)'[h] = 0 \/ (msg' = msg /\ msg[h].payment = p)
  <2>1. msg' = msg \/ Free({h})
    BY DEF Goto
  <2>2. CASE msg' = msg
    BY <2>2 DEF InHandlers
  <2>3. CASE Free({h})
    BY <2>3 DEF Free, InHandlers
  <2> QED BY <2>1, <2>2, <2>3
<1>5. InHandlers(p)'[h] <= InHandlers(p)[h]
  <2>1. CASE InHandlers(p)'[h] = 0
    BY <1>3, <2>1
  <2>2. CASE /\ msg' = msg /\ msg[h].payment = p
             /\ \/ pc[h] = "load" /\ (Goto(h, "process") \/ Goto(h, "send"))
                \/ pc[h] = "process" /\ Goto(h, "send")
    <3>1. pc'[h] \in {"load", "process", "send"} /\ pc[h] \in {"load", "process", "send"}
      BY <1>0, <2>2 DEF Goto
    <3>2. InHandlers(p)[h] = Worth(msg[h]) /\ InHandlers(p)'[h] = Worth(msg[h])
      BY <2>2, <3>1 DEF InHandlers
    <3> QED BY <1>3, <3>2
  <2>3. CASE msg' = msg /\ msg[h].payment = p /\ pc[h] = "send" /\ Goto(h, "retry")
    <3>1. pc'[h] = "retry"
      BY <1>0, <2>3 DEF Goto
    <3>2. InHandlers(p)[h] = Worth(msg[h]) /\ InHandlers(p)'[h] = Worth(msg[h]) - 1
      BY <2>3, <3>1 DEF InHandlers
    <3> QED BY <1>2, <3>2
  <2>4. CASE \E place \in {"ack", "error", "missing"} : Goto(h, place)
    BY <1>0, <1>3, <2>4 DEF Goto, InHandlers
  <2>5. CASE Free({h})
    BY <1>0, <1>3, <2>5 DEF Free, InHandlers
  <2> QED BY <1>4, <2>1, <2>2, <2>3, <2>4, <2>5
<1>6. posts'[p] + InHandlers(p)'[h] <= posts[p] + InHandlers(p)[h]
  BY <1>0, <1>3, <1>5
<1> QED BY <1>1, <1>6, HandlerMove DEF queues

\* A webhook is one request less in what its handler carries.
LEMMA PostStep ==
  ASSUME Inv, Inv', NEW p \in Payment, Budget(p), NEW h \in Handler, pc[h] = "send",
         Post(h), Goto(h, "ack") \/ Goto(h, "retry"), UNCHANGED <<queues, events, again>>
  PROVE  Budget(p)'
<1>0. /\ pc \in [Handler -> Place] /\ posts \in [Payment -> Nat]
      /\ msg' = msg /\ posts' = [posts EXCEPT ![msg[h].payment] = @ + 1]
      /\ pc' = [pc EXCEPT ![h] = "ack"] \/ pc' = [pc EXCEPT ![h] = "retry"]
  BY DEF Inv, TypeOK, Post, Goto
<1>1. \A g \in Handler \ {h} : pc'[g] = pc[g] /\ msg'[g] = msg[g]
  BY <1>0
<1>2. Worth(msg[h]) \in Nat /\ Worth(msg[h]) >= 1
  BY HandlerTypes, WorthType
<1>3. CASE msg[h].payment = p
  <2>1. InHandlers(p)[h] = Worth(msg[h])
    BY <1>3 DEF InHandlers
  <2>2. pc'[h] = "ack" \/ pc'[h] = "retry"
    BY <1>0
  <2>3. InHandlers(p)'[h] = 0 \/ InHandlers(p)'[h] = Worth(msg[h]) - 1
    BY <1>0, <1>3, <2>2 DEF InHandlers
  <2>4. posts'[p] = posts[p] + 1
    BY <1>0, <1>3
  <2>5. posts'[p] + InHandlers(p)'[h] <= posts[p] + InHandlers(p)[h]
    BY <1>0, <1>2, <2>1, <2>3, <2>4
  <2> QED BY <1>1, <2>5, HandlerMove DEF queues
<1>4. CASE msg[h].payment # p
  <2>1. InHandlers(p)[h] = 0 /\ InHandlers(p)'[h] = 0
    BY <1>0, <1>4 DEF InHandlers
  <2>2. posts'[p] = posts[p] /\ posts[p] \in Nat
    BY <1>0, <1>4
  <2>3. posts'[p] + InHandlers(p)'[h] <= posts[p] + InHandlers(p)[h]
    BY <2>1, <2>2
  <2> QED BY <1>1, <2>3, HandlerMove DEF queues
<1> QED BY <1>3, <1>4

\* A delivery takes from the queue what it gives to the handler.
LEMMA DeliverStep ==
  ASSUME Inv, Inv', NEW p \in Payment, Budget(p), NEW h \in Handler, NEW m \in Message,
         Deliver(h, m)
  PROVE  Budget(p)'
<1> DEFINE k == m.retry
<1>0. /\ pc \in [Handler -> Place] /\ posts \in [Payment -> Nat]
      /\ msg \in [Handler -> Message \cup {NoMessage}]
      /\ ready \in [Message -> Nat] /\ delayed \in [Message -> Nat]
  BY DEF Inv, TypeOK
<1>1. /\ pc[h] = "idle" /\ ready[m] > 0 /\ ready' = [ready EXCEPT ![m] = @ - 1]
      /\ pc' = [pc EXCEPT ![h] = "load"] /\ msg' = [msg EXCEPT ![h] = m]
      /\ delayed' = delayed /\ posts' = posts /\ events' = events /\ again' = again
  BY DEF Deliver, merchant, counts
<1>2. k \in Count
  BY MessageFields DEF Count
<1>3. /\ InQueues(p)[k] \in Nat /\ InHandlers(p)[h] \in Nat
      /\ InQueues(p)'[k] \in Nat /\ InHandlers(p)'[h] \in Nat
  <2>1. LoadsAreNumbers /\ LoadsAreNumbers'
    BY LoadTypes, PTL
  <2> QED BY <1>2, <2>1 DEF LoadsAreNumbers
<1>4. \A j \in Count : Event(p, j) \in Message /\ (Event(p, j) = m <=> m.payment = p /\ j = k)
  BY EventFacts
<1>5. \A g \in Handler \ {h} : InHandlers(p)'[g] = InHandlers(p)[g]
  <2>1. \A g \in Handler \ {h} : pc'[g] = pc[g] /\ msg'[g] = msg[g]
    BY <1>0, <1>1
  <2> QED BY <2>1 DEF InHandlers
<1>6. \A j \in Count : Event(p, j) # m => InQueues(p)'[j] = InQueues(p)[j]
  <2>1. ASSUME NEW j \in Count, Event(p, j) # m
        PROVE  ready'[Event(p, j)] = ready[Event(p, j)]
    BY <1>0, <1>1, <1>4, <2>1
  <2> QED BY <1>1, <2>1 DEF InQueues
<1>7. InQueues(p)'[k] + InHandlers(p)'[h] <= InQueues(p)[k] + InHandlers(p)[h]
  <2>1. CASE m.payment = p
    <3>1. Event(p, k) = m
      BY <1>2, <1>4, <2>1
    <3>2. /\ InQueues(p)[k] = (ready[m] + delayed[m]) * Worth(m)
          /\ InQueues(p)'[k] = (ready'[m] + delayed'[m]) * Worth(m)
      BY <1>2, <3>1 DEF InQueues
    <3>3. ready'[m] = ready[m] - 1 /\ delayed'[m] = delayed[m]
      BY <1>0, <1>1
    <3>4. Worth(m) \in Nat
      BY WorthType
    <3>5. InQueues(p)'[k] = InQueues(p)[k] - Worth(m)
      BY <1>0, <3>2, <3>3, <3>4
    <3>6. InHandlers(p)[h] = 0 /\ InHandlers(p)'[h] = Worth(m)
      BY <1>0, <1>1, <2>1 DEF InHandlers
    <3> QED BY <1>3, <3>4, <3>5, <3>6
  <2>2. CASE m.payment # p
    <3>1. InQueues(p)'[k] = InQueues(p)[k]
      BY <1>2, <1>4, <1>6, <2>2
    <3>2. InHandlers(p)'[h] = 0
      BY <1>0, <1>1, <2>2 DEF InHandlers
    <3> QED BY <1>3, <3>1, <3>2
  <2> QED BY <2>1, <2>2
<1>8. posts'[p] + InQueues(p)'[k] + InHandlers(p)'[h]
        <= posts[p] + InQueues(p)[k] + InHandlers(p)[h]
  BY <1>0, <1>1, <1>3, <1>7
<1>9. \A j \in Count \ {k} : InQueues(p)'[j] = InQueues(p)[j]
  BY <1>4, <1>6
<1> HIDE DEF k
<1> QED BY <1>1, <1>2, <1>5, <1>8, <1>9, OneMove

\* A retry is worth what its handler still carries, in the queue of the retry.
LEMMA RepublishStep ==
  ASSUME Inv, Inv', NEW p \in Payment, Budget(p), NEW h \in Handler, pc[h] = "retry",
         Republish(msg[h]), Goto(h, "ack") \/ Goto(h, "error"),
         UNCHANGED <<posts, events, again>>
  PROVE  Budget(p)'
<1> DEFINE m == msg[h]
           n == [m EXCEPT !.retry = @ + 1]
           k == n.retry
<1>0. /\ pc \in [Handler -> Place] /\ posts \in [Payment -> Nat]
      /\ ready \in [Message -> Nat] /\ delayed \in [Message -> Nat]
      /\ m \in Message /\ m.retry \in 0..MaxRetries /\ MaxRetries \in Nat
  BY HandlerTypes, MessageFields, ConsumerAssumption DEF Inv, TypeOK
<1>1. /\ pc' = [pc EXCEPT ![h] = "ack"] \/ pc' = [pc EXCEPT ![h] = "error"]
      /\ msg' = msg
  BY DEF Goto
<1>2. \A g \in Handler \ {h} : pc'[g] = pc[g] /\ msg'[g] = msg[g]
  BY <1>0, <1>1
<1>3. InHandlers(p)'[h] = 0
  <2>1. pc'[h] = "ack" \/ pc'[h] = "error"
    BY <1>0, <1>1
  <2> QED BY <2>1 DEF InHandlers
<1>4. /\ InHandlers(p)[h] \in Nat
      /\ \A j \in Count : InQueues(p)[j] \in Nat /\ InQueues(p)'[j] \in Nat
  <2>1. LoadsAreNumbers /\ LoadsAreNumbers'
    BY LoadTypes, PTL
  <2> QED BY <2>1 DEF LoadsAreNumbers
<1>5. /\ ready' = ready
      /\ \/ delayed' = delayed
         \/ m.retry < MaxRetries /\ delayed' = [delayed EXCEPT ![n] = @ + 1]
  BY DEF Republish, ToRetryQueue, ToDlx
<1>6. CASE delayed' = delayed
  <2>1. posts'[p] + InHandlers(p)'[h] <= posts[p] + InHandlers(p)[h]
    BY <1>0, <1>3, <1>4
  <2> QED BY <1>2, <1>5, <1>6, <2>1, HandlerMove
<1>7. CASE m.retry < MaxRetries /\ delayed' = [delayed EXCEPT ![n] = @ + 1]
  <2>1. n \in Message /\ n.payment = m.payment /\ k = m.retry + 1
    BY <1>0, <1>7, NextMessage
  <2>2. k \in Count
    BY <2>1, MessageFields DEF Count
  <2> HIDE DEF n
  <2>3. \A j \in Count : Event(p, j) \in Message /\ (Event(p, j) = n <=> n.payment = p /\ j = k)
    BY <2>1, EventFacts
  <2>4. \A g \in Handler \ {h} : InHandlers(p)'[g] = InHandlers(p)[g]
    BY <1>2 DEF InHandlers
  <2>5. \A j \in Count : Event(p, j) # n => InQueues(p)'[j] = InQueues(p)[j]
    <3>1. ASSUME NEW j \in Count, Event(p, j) # n
          PROVE  delayed'[Event(p, j)] = delayed[Event(p, j)]
      BY <1>0, <1>7, <2>3, <3>1
    <3> QED BY <1>5, <3>1 DEF InQueues
  <2>6. InQueues(p)'[k] + InHandlers(p)'[h] <= InQueues(p)[k] + InHandlers(p)[h]
    <3>1. CASE m.payment = p
      <4>1. Event(p, k) = n
        BY <2>1, <2>2, <2>3, <3>1
      <4>2. /\ InQueues(p)[k] = (ready[n] + delayed[n]) * Worth(n)
            /\ InQueues(p)'[k] = (ready'[n] + delayed'[n]) * Worth(n)
        BY <2>2, <4>1 DEF InQueues
      <4>3. ready'[n] = ready[n] /\ delayed'[n] = delayed[n] + 1
        BY <1>0, <1>5, <1>7, <2>1
      <4>4. Worth(n) \in Nat /\ Worth(n) = Worth(m) - 1
        BY <1>0, <2>1, WorthType DEF Worth
      <4>5. InQueues(p)'[k] = InQueues(p)[k] + Worth(n)
        BY <1>0, <2>1, <4>2, <4>3, <4>4
      <4>6. InHandlers(p)[h] = Worth(m) - 1
        BY <3>1 DEF InHandlers
      <4> QED BY <1>3, <1>4, <2>2, <4>4, <4>5, <4>6
    <3>2. CASE m.payment # p
      <4>1. InQueues(p)'[k] = InQueues(p)[k]
        BY <2>1, <2>2, <2>3, <2>5, <3>2
      <4> QED BY <1>3, <1>4, <2>2, <4>1
    <3> QED BY <3>1, <3>2
  <2>7. posts'[p] + InQueues(p)'[k] + InHandlers(p)'[h]
          <= posts[p] + InQueues(p)[k] + InHandlers(p)[h]
    BY <1>0, <1>3, <1>4, <2>2, <2>6
  <2>8. \A j \in Count \ {k} : InQueues(p)'[j] = InQueues(p)[j]
    BY <2>3, <2>5
  <2> HIDE DEF k
  <2> QED BY <2>2, <2>4, <2>7, <2>8, OneMove
<1> QED BY <1>5, <1>6, <1>7

\* What the broker puts back is worth MaxRetries + 1 per message at most: the
\* new requests of each queue are numbered by handler and attempt.
LEMMA PutBackQueues ==
  ASSUME Inv, Inv', NEW p \in Payment, IsFiniteSet(Chart(InQueues(p))), PutBack
  PROVE  /\ IsFiniteSet(Chart(InQueues(p)'))
         /\ Cardinality(Chart(InQueues(p)')) \in Nat /\ Cardinality(Chart(InQueues(p))) \in Nat
         /\ again[p] \in Nat /\ again'[p] \in Nat /\ again'[p] - again[p] \in Nat
         /\ Cardinality(Chart(InQueues(p)'))
              <= Cardinality(Chart(InQueues(p))) + (MaxRetries + 1) * (again'[p] - again[p])
<1> DEFINE Q == InQueues(p)
           q == InQueues(p)'
           Of(m) == {h \in InFlight : msg[h] = m}
           OfPayment == {h \in InFlight : msg[h].payment = p}
           Attempts(k) == Of(Event(p, k)) \X (1..Worth(Event(p, k)))
           number == [k \in Count |-> CHOOSE s : s \in Bijection(Attempts(k), Growth(Q, q, k))]
           T == OfPayment \X (1..(MaxRetries + 1))
           F == [t \in T |-> <<msg[t[1]].retry, number[msg[t[1]].retry][t]>>]
<1>1. Q \in [Count -> Nat] /\ q \in [Count -> Nat]
  <2>1. LoadsAreNumbers /\ LoadsAreNumbers'
    BY LoadTypes, PTL
  <2> QED BY <2>1 DEF LoadsAreNumbers
<1>2. /\ ready \in [Message -> Nat] /\ delayed \in [Message -> Nat] /\ again \in [Payment -> Nat]
      /\ MaxRetries \in Nat
  BY ConsumerAssumption DEF Inv, TypeOK
<1>3. \A k \in Count : /\ Event(p, k) \in Message /\ Event(p, k).payment = p
                       /\ Event(p, k).retry = k
                       /\ Worth(Event(p, k)) \in Nat /\ Worth(Event(p, k)) <= MaxRetries + 1
  BY EventFacts, WorthType
<1>4. ASSUME NEW k \in Count
      PROVE  ExistsBijection(Attempts(k), Growth(Q, q, k))
  <2> DEFINE e == Event(p, k)
             c == Cardinality(Of(e))
             w == Worth(e)
  <2>1. IsFiniteSet(Of(e)) /\ c \in Nat
    BY HandlersCounted DEF InFlight
  <2>2. e \in Message /\ w \in Nat
    BY <1>3
  <2>3. ready'[e] = ready[e] + c /\ delayed'[e] = delayed[e]
    BY <2>2 DEF PutBack
  <2>4. Q[k] = (ready[e] + delayed[e]) * w /\ q[k] = (ready'[e] + delayed'[e]) * w
    BY DEF InQueues
  <2>5. ready[e] \in Nat /\ delayed[e] \in Nat /\ Q[k] \in Nat /\ q[k] \in Nat
    BY <1>1, <1>2, <2>2
  <2>6. IsFiniteSet(1..w) /\ Cardinality(1..w) = w
    BY <2>2, FS_Interval
  <2>7. IsFiniteSet(Attempts(k)) /\ Cardinality(Attempts(k)) = c * w
    <3> HIDE DEF Of, e
    <3> QED BY <2>1, <2>6, FS_Product DEF e
  <2> HIDE DEF c, w, e
  <2>8. q[k] = Q[k] + c * w /\ c * w \in Nat
    BY <2>1, <2>2, <2>3, <2>4, <2>5
  <2> HIDE DEF Q, q
  <2>9. IsFiniteSet(Growth(Q, q, k)) /\ Cardinality(Growth(Q, q, k)) = c * w
    <3> DEFINE n == c * w
    <3>1. n \in Nat /\ q[k] = Q[k] + n
      BY <2>8
    <3> HIDE DEF n
    <3>2. Q[k] + 1 \in Int /\ q[k] \in Int /\ q[k] - (Q[k] + 1) + 1 = n
          /\ (Q[k] + 1 > q[k] => n = 0)
      BY <2>5, <3>1
    <3>3. IsFiniteSet(Growth(Q, q, k)) /\ Cardinality(Growth(Q, q, k)) = n
      BY <3>2, FS_Interval DEF Growth
    <3> QED BY <3>3 DEF n
  <2> HIDE DEF Attempts, Q, q
  <2> QED BY <2>7, <2>9, FS_SameCardinalityBij
<1>5. ASSUME NEW k \in Count
      PROVE  number[k] \in Bijection(Attempts(k), Growth(Q, q, k))
  <2> HIDE DEF Attempts, Q, q
  <2> QED BY <1>4 DEF ExistsBijection
<1>6. \A k \in Count : \A i \in Growth(Q, q, k) : \E t \in T : F[t] = <<k, i>>
  <2> HIDE DEF Q, q, number
  <2> SUFFICES ASSUME NEW k \in Count, NEW i \in Growth(Q, q, k)
               PROVE  \E t \in T : F[t] = <<k, i>>
    OBVIOUS
  <2>1. PICK t \in Attempts(k) : number[k][t] = i
    <3> HIDE DEF Attempts
    <3> QED BY <1>5 DEF Bijection, Surjection
  <2>2. t[1] \in InFlight /\ msg[t[1]] = Event(p, k) /\ t[2] \in 1..Worth(Event(p, k))
        /\ t = <<t[1], t[2]>>
    BY <2>1
  <2>3. msg[t[1]].payment = p /\ msg[t[1]].retry = k
    BY <1>3, <2>2
  <2>4. t[2] \in 1..(MaxRetries + 1)
    BY <1>2, <1>3, <2>2
  <2>5. t \in T
    BY <2>2, <2>3, <2>4
  <2>6. F[t] = <<k, i>>
    BY <2>1, <2>3, <2>5
  <2> QED BY <2>5, <2>6
<1>7. IsFiniteSet(OfPayment) /\ Cardinality(OfPayment) \in Nat
  BY HandlersCounted DEF InFlight
<1>8. IsFiniteSet(T) /\ Cardinality(T) = Cardinality(OfPayment) * (MaxRetries + 1)
  <2>1. IsFiniteSet(1..(MaxRetries + 1)) /\ Cardinality(1..(MaxRetries + 1)) = MaxRetries + 1
    BY <1>2, FS_Interval
  <2> HIDE DEF OfPayment
  <2> QED BY <1>7, <2>1, FS_Product
<1>9. again'[p] = again[p] + Cardinality(OfPayment)
  BY DEF PutBack
<1>10. /\ IsFiniteSet(Chart(q))
       /\ Cardinality(Chart(q)) \in Nat /\ Cardinality(Chart(Q)) \in Nat
       /\ Cardinality(Chart(q)) <= Cardinality(Chart(Q)) + Cardinality(T)
  <2>1. IsFiniteSet(Chart(Q))
    OBVIOUS
  <2>2. Names(F, T, Q, q)
    <3> HIDE DEF Q, q, T, F
    <3>1. DOMAIN q = Count
      BY <1>1
    <3> QED BY <1>6, <3>1 DEF Names
  <2>3. IsFiniteSet(T)
    BY <1>8
  <2> HIDE DEF Q, q, T, F
  <2> QED BY <1>1, <2>1, <2>2, <2>3, GrowColumns
<1> HIDE DEF OfPayment, T
<1>11. /\ again[p] \in Nat /\ again'[p] \in Nat /\ again'[p] - again[p] = Cardinality(OfPayment)
  BY <1>2, <1>7, <1>9
<1> QED BY <1>2, <1>7, <1>8, <1>10, <1>11

\* A lost connection or a crash: what comes back to the queue is allowed for,
\* and a handler carries what it did, or nothing.
LEMMA PutBackStep ==
  ASSUME Inv, Inv', NEW p \in Payment, Budget(p), PutBack, UNCHANGED <<posts, events>>,
         InHandlers(p)' = InHandlers(p) \/ \A h \in Handler : InHandlers(p)'[h] = 0
  PROVE  Budget(p)'
<1> DEFINE Q == Cardinality(Chart(InQueues(p)))
           q == Cardinality(Chart(InQueues(p)'))
           H == Cardinality(Chart(InHandlers(p)))
           g == Cardinality(Chart(InHandlers(p)'))
           new == again'[p] - again[p]
<1>1. /\ IsFiniteSet(Chart(InQueues(p))) /\ IsFiniteSet(Chart(InHandlers(p)))
      /\ posts[p] + Q + H <= (MaxRetries + 1) * (events[p] + again[p])
  BY DEF Budget
<1>2. /\ IsFiniteSet(Chart(InQueues(p)')) /\ q \in Nat /\ Q \in Nat
      /\ again[p] \in Nat /\ again'[p] \in Nat /\ new \in Nat
      /\ q <= Q + (MaxRetries + 1) * new
  BY <1>1, PutBackQueues
<1>3. H \in Nat
  BY <1>1, FS_CardinalityType
<1>4. IsFiniteSet(Chart(InHandlers(p)')) /\ g \in Nat /\ g <= H
  <2>1. CASE InHandlers(p)' = InHandlers(p)
    BY <1>1, <1>3, <2>1
  <2>2. CASE \A h \in Handler : InHandlers(p)'[h] = 0
    <3>1. LoadsAreNumbers'
      BY LoadTypes, PTL
    <3>2. InHandlers(p)' \in [Handler -> Nat]
      BY <3>1 DEF LoadsAreNumbers
    <3>3. IsFiniteSet(Chart(InHandlers(p)')) /\ g = 0
      BY <2>2, <3>2, EmptyChart
    <3> QED BY <1>3, <3>3
  <2> QED BY <2>1, <2>2
<1>5. posts[p] \in Nat /\ events[p] \in Nat /\ MaxRetries \in Nat
  BY ConsumerAssumption DEF Inv, TypeOK
<1>6. again'[p] = again[p] + new
  BY <1>2
<1> HIDE DEF Q, q, H, g, new
<1>7. (MaxRetries + 1) * (events[p] + again'[p])
        = (MaxRetries + 1) * (events[p] + again[p]) + (MaxRetries + 1) * new
  BY <1>2, <1>5, <1>6
<1>8. posts[p] + q + g <= (MaxRetries + 1) * (events[p] + again'[p])
  <2> DEFINE a == (MaxRetries + 1) * (events[p] + again[p])
             b == (MaxRetries + 1) * new
  <2>1. a \in Nat /\ b \in Nat
    BY <1>2, <1>5
  <2>2. /\ posts[p] + Q + H <= a /\ q <= Q + b
        /\ (MaxRetries + 1) * (events[p] + again'[p]) = a + b
    BY <1>1, <1>2, <1>7 DEF Q, H
  <2> HIDE DEF a, b
  <2>3. posts[p] + q + g <= a + b
    BY <1>2, <1>3, <1>4, <1>5, <2>1, <2>2
  <2> QED BY <2>2, <2>3
<1>9. posts'[p] = posts[p] /\ events'[p] = events[p]
  OBVIOUS
<1> QED BY <1>2, <1>4, <1>8, <1>9 DEF Budget, q, g

\* Nothing is carried at the start.
LEMMA InitBudget == Init => WithinBudget
<1> SUFFICES ASSUME Init, NEW p \in Payment PROVE Budget(p)
  BY DEF WithinBudget
<1>1. LoadsAreNumbers
  BY InitInv, LoadTypes
<1>2. \A h \in Handler : InHandlers(p)[h] = 0
  BY DEF Init, InHandlers
<1>3. ASSUME NEW k \in Count PROVE InQueues(p)[k] = 0
  <2>1. Event(p, k) \in Message /\ Worth(Event(p, k)) \in Nat
    BY EventFacts, WorthType
  <2>2. ready[Event(p, k)] = 0 /\ delayed[Event(p, k)] = 0
    BY <2>1 DEF Init
  <2>3. InQueues(p)[k] = (0 + 0) * Worth(Event(p, k))
    BY <2>2 DEF InQueues
  <2> QED BY <2>1, <2>3
<1>4. /\ IsFiniteSet(Chart(InHandlers(p))) /\ Cardinality(Chart(InHandlers(p))) = 0
      /\ IsFiniteSet(Chart(InQueues(p))) /\ Cardinality(Chart(InQueues(p))) = 0
  BY <1>1, <1>2, <1>3, EmptyChart DEF LoadsAreNumbers
<1>5. posts[p] = 0 /\ events[p] = 0 /\ again[p] = 0 /\ MaxRetries \in Nat
  BY ConsumerAssumption DEF Init
<1> QED BY <1>4, <1>5 DEF Budget

\* Every step keeps the budget of every payment.
LEMMA BudgetStep == Inv /\ Inv' /\ WithinBudget /\ [Next]_vars => WithinBudget'
<1> SUFFICES ASSUME Inv, Inv', WithinBudget, [Next]_vars, NEW p \in Payment
             PROVE  Budget(p)'
  BY DEF WithinBudget
<1>0. Budget(p)
  BY DEF WithinBudget
<1>1. ASSUME UNCHANGED <<ready, delayed, pc, msg, posts, events, again>>
      PROVE  Budget(p)'
  BY <1>0, <1>1 DEF Budget, InQueues, InHandlers
<1>2. ASSUME NEW r \in Payment, Create(r) PROVE Budget(p)'
  BY <1>1, <1>2 DEF Create, queues, handlers, merchant, counts
<1>3. ASSUME NEW r \in Payment, Arrive(r) PROVE Budget(p)'
  BY <1>0, <1>3, ArriveStep
<1>4. ASSUME NEW m \in Message, Expire(m) PROVE Budget(p)'
  <2>1. UNCHANGED <<pc, msg, posts, events, again>>
    BY <1>4 DEF Expire, handlers, merchant, counts
  <2>2. \A e \in Message : ready'[e] + delayed'[e] = ready[e] + delayed[e]
    BY <1>4 DEF Expire, Inv, TypeOK
  <2>3. InQueues(p)' = InQueues(p) /\ InHandlers(p)' = InHandlers(p)
    BY <2>1, <2>2, EventFacts DEF InQueues, InHandlers
  <2> QED BY <1>0, <2>1, <2>3 DEF Budget
<1>5. ASSUME NEW h \in Handler, NEW m \in Message, Deliver(h, m) PROVE Budget(p)'
  BY <1>0, <1>5, DeliverStep
<1>6. ASSUME NEW h \in Handler, Load(h) PROVE Budget(p)'
  BY <1>0, <1>6, LoadCases, GoOnStep DEF Load, merchant, counts
<1>7. ASSUME NEW h \in Handler, NEW s \in Final, Process(h, s) PROVE Budget(p)'
  BY <1>0, <1>7, GoOnStep DEF Process, merchant, counts
<1>8. ASSUME NEW h \in Handler, NEW s \in Final, ProcessUnknown(h, s) PROVE Budget(p)'
  BY <1>0, <1>8, GoOnStep DEF ProcessUnknown, merchant
<1>9. ASSUME NEW h \in Handler, DbError(h) PROVE Budget(p)'
  BY <1>0, <1>9, GoOnStep DEF DbError, merchant
<1>10. ASSUME NEW h \in Handler, SendOk(h) PROVE Budget(p)'
  BY <1>0, <1>10, PostStep DEF SendOk, counts
<1>11. ASSUME NEW h \in Handler, SendFails(h) PROVE Budget(p)'
  <2>1. CASE UNCHANGED merchant
    BY <1>0, <1>11, <2>1, GoOnStep DEF SendFails, merchant, counts
  <2>2. CASE Post(h)
    BY <1>0, <1>11, <2>2, PostStep DEF SendFails, counts
  <2> QED BY <1>11, <2>1, <2>2 DEF SendFails
<1>12. ASSUME NEW h \in Handler, SendRaises(h) PROVE Budget(p)'
  BY <1>0, <1>12, GoOnStep DEF SendRaises, merchant, counts
<1>13. ASSUME NEW h \in Handler, RetryOrDlq(h) PROVE Budget(p)'
  BY <1>0, <1>13, RepublishStep DEF RetryOrDlq, merchant, counts
<1>14. ASSUME NEW h \in Handler, RetryRaises(h) PROVE Budget(p)'
  <2>1. CASE UNCHANGED queues
    BY <1>0, <1>14, <2>1, GoOnStep DEF RetryRaises, merchant
  <2>2. CASE Republish(msg[h])
    BY <1>0, <1>14, <2>2, RepublishStep DEF RetryRaises, merchant
  <2> QED BY <1>14, <2>1, <2>2 DEF RetryRaises
<1>15. ASSUME NEW h \in Handler, Ack(h) PROVE Budget(p)'
  BY <1>0, <1>15, GoOnStep DEF Ack, merchant, counts
<1>16. ASSUME NEW h \in Handler, DeadLetter(h) PROVE Budget(p)'
  <2>1. /\ pc[h] # "idle" /\ Free({h})
        /\ UNCHANGED <<ready, delayed, posts, events, again>>
    BY <1>16 DEF DeadLetter, Unsettled, merchant, counts
  <2>2. \A g \in Handler \ {h} : pc'[g] = pc[g] /\ msg'[g] = msg[g]
    BY <2>1 DEF Free
  <2>3. InHandlers(p)'[h] = 0
    BY <2>1 DEF Free, InHandlers
  <2>4. InHandlers(p)[h] \in Nat /\ posts[p] \in Nat
    BY LoadTypes DEF LoadsAreNumbers, Inv, TypeOK
  <2>5. posts'[p] + InHandlers(p)'[h] <= posts[p] + InHandlers(p)[h]
    BY <2>1, <2>3, <2>4
  <2> QED BY <1>0, <2>1, <2>2, <2>5, HandlerMove
<1>17. CASE Crash
  <2>1. \A h \in Handler : InHandlers(p)'[h] = 0
    BY <1>17 DEF Crash, Free, InHandlers
  <2> QED BY <1>0, <1>17, <2>1, PutBackStep DEF Crash, merchant
<1>18. CASE Detach
  <2>1. InHandlers(p)' = InHandlers(p)
    BY <1>18 DEF Detach, InHandlers
  <2> QED BY <1>0, <1>18, <2>1, PutBackStep DEF Detach, merchant
<1>19. CASE UNCHANGED vars
  BY <1>1, <1>19 DEF vars, queues, handlers, merchant, counts
<1> QED
  BY <1>2, <1>3, <1>4, <1>5, <1>6, <1>7, <1>8, <1>9, <1>10, <1>11, <1>12, <1>13, <1>14, <1>15,
     <1>16, <1>17, <1>18, <1>19 DEF Next, Consumer, Step, Failure

\* Within the budget the merchant has got no more than the budget.
LEMMA BudgetBounds == Inv /\ WithinBudget => PostsBounded
<1> SUFFICES ASSUME Inv, NEW p \in Payment, Budget(p)
             PROVE  posts[p] <= (MaxRetries + 1) * (events[p] + again[p])
  BY DEF WithinBudget, PostsBounded
<1> DEFINE a == (MaxRetries + 1) * (events[p] + again[p])
           Q == Cardinality(Chart(InQueues(p)))
           H == Cardinality(Chart(InHandlers(p)))
<1>1. Q \in Nat /\ H \in Nat /\ posts[p] + Q + H <= a
  BY FS_CardinalityType DEF Budget
<1>2. posts[p] \in Nat /\ a \in Nat
  <2>1. events[p] + again[p] \in Nat /\ MaxRetries + 1 \in Nat /\ posts[p] \in Nat
    BY ConsumerAssumption DEF Inv, TypeOK
  <2> QED BY <2>1
<1> HIDE DEF a, Q, H
<1>3. posts[p] <= a
  BY <1>1, <1>2
<1> QED BY <1>3 DEF a

\* The merchant gets at most CONSUMER_MAX_RETRIES + 1 requests for each message
\* that was published or put back, whatever fails in between.
THEOREM RequestsAreBounded == Spec => []PostsBounded
BY InitBudget, BudgetStep, BudgetBounds, Invariance, PTL DEF Spec
=============================================================================
