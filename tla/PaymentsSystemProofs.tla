------------------------- MODULE PaymentsSystemProofs -----------------------
(***************************************************************************)
(* Theorems about PaymentsSystem: the services put together, for any       *)
(* requests, processes and failures.                                       *)
(*                                                                         *)
(* Every step of the system is a step of each service or leaves it alone,  *)
(* so what is proved of a service holds in the system.  What connects them *)
(* is Links: a payment, its outbox row and what the consumer can read of   *)
(* it appear together (CreatedTogether), and the consumer's queue has got  *)
(* what the broker took from the dispatcher (TakenIsQueued), which was     *)
(* taken for a payment (TakenWasCreated).                                  *)
(***************************************************************************)
EXTENDS PaymentsSystem, TLAPS

\* The services again, with what is proved of them.
ApiP == INSTANCE PaymentApiProofs WITH pc <- rpc

DispP == INSTANCE OutboxDispatcherProofs WITH
  Payment <- Request, MaxFaults <- MaxDispatcherFaults,
  status <- ostatus, faults <- ofaults

ConsP == INSTANCE PaymentConsumerTheorems WITH
  Payment <- Request, MaxFaults <- MaxConsumerFaults,
  MaxEvents <- MaxDispatcherFaults + 1,
  status <- pstatus, pc <- hpc

\* One commit of the API is a payment, its outbox row and its event to send.
CreatedTogether ==
  \A p \in Request :
    /\ p \in outbox <=> ostatus[p] # "absent"
    /\ p \in outbox <=> pstatus[p] # "absent"

\* What the dispatcher's publish gives to the broker is in the consumer's queue.
TakenIsQueued == \A p \in Request : events[p] = sent[p]

\* Only events of durable payments are published.
TakenWasCreated == \A p \in Request : sent[p] > 0 => p \in outbox

\* No handler looks for a payment in vain.
NoneMissing == \A h \in Handler : hpc[h] # "missing"

Links == CreatedTogether /\ TakenIsQueued /\ TakenWasCreated /\ NoneMissing

\* What is proved of the services.
Parts == ApiP!Inv /\ DispP!Inv /\ ConsP!Inv /\ ConsP!NothingYet

-----------------------------------------------------------------------------

\* Both instances of a service are the same, definition by definition.
LEMMA SameApi ==
  (Api!Init <=> ApiP!Init) /\ ([Api!Next]_(Api!vars) <=> [ApiP!Next]_(ApiP!vars))
  BY DEF Api!Init, ApiP!Init, Api!Next, ApiP!Next, Api!vars, ApiP!vars, Api!Body,
       ApiP!Body, Api!Step, ApiP!Step, Api!CommitUnknown, ApiP!CommitUnknown,
       Api!DbError, ApiP!DbError, Api!Crash, ApiP!Crash, Api!Receive, ApiP!Receive,
       Api!Reject, ApiP!Reject, Api!ValidateUrl, ApiP!ValidateUrl, Api!Lookup,
       ApiP!Lookup, Api!Insert, ApiP!Insert, Api!InsertConflict, ApiP!InsertConflict,
       Api!Enqueue, ApiP!Enqueue, Api!Commit, ApiP!Commit, Api!Answer, ApiP!Answer,
       Api!Install, ApiP!Install, Api!Finish, ApiP!Finish, Api!Fail, ApiP!Fail,
       Api!Working, ApiP!Working, Api!Goto, ApiP!Goto, Api!Verdicts, ApiP!Verdicts,
       Api!Refusal, ApiP!Refusal, Api!RowsOf, ApiP!RowsOf, Api!Matches, ApiP!Matches,
       Api!HeldByOther, ApiP!HeldByOther, Api!NewRow, ApiP!NewRow, Api!StatusOf,
       ApiP!StatusOf, Api!Kind, ApiP!Kind, Api!VerdictOn, ApiP!VerdictOn,
       Api!Resolution, ApiP!Resolution, Api!NotFound, ApiP!NotFound, Api!Unauthorized,
       ApiP!Unauthorized, Api!Conflict, ApiP!Conflict, Api!Validation, ApiP!Validation,
       Api!ExternalService, ApiP!ExternalService, Api!Disallowed, ApiP!Disallowed

\* Likewise the dispatcher's.
LEMMA SameDispatcher ==
  (Disp!Init <=> DispP!Init) /\ ([Disp!Next]_(Disp!vars) <=> [DispP!Next]_(DispP!vars))
  BY DEF Disp!Init, DispP!Init, Disp!Next, DispP!Next, Disp!vars, DispP!vars,
       Disp!NoBatch, DispP!NoBatch, Disp!Enqueue, DispP!Enqueue, Disp!Loop, DispP!Loop,
       Disp!Failure, DispP!Failure, Disp!Tick, DispP!Tick, Disp!Fetch, DispP!Fetch,
       Disp!Commit, DispP!Commit, Disp!Wake, DispP!Wake, Disp!Publish, DispP!Publish,
       Disp!Mark, DispP!Mark, Disp!Bump, DispP!Bump, Disp!BumpOverflows,
       DispP!BumpOverflows, Disp!CommitUnknown, DispP!CommitUnknown, Disp!DbError,
       DispP!DbError, Disp!Crash, DispP!Crash, Disp!PublishFails, DispP!PublishFails,
       Disp!PublishUnconfirmed, DispP!PublishUnconfirmed, Disp!row, DispP!row, Disp!Due,
       DispP!Due, Disp!Locked, DispP!Locked, Disp!Smaller, DispP!Smaller,
       Disp!BatchDone, DispP!BatchDone, Disp!Install, DispP!Install, Disp!Leave,
       DispP!Leave, Disp!Batch, DispP!Batch, Disp!AtRow, DispP!AtRow, Disp!SetWork,
       DispP!SetWork, Disp!Backoff, DispP!Backoff, Disp!Fault, DispP!Fault, Disp!Todo,
       DispP!Todo, Disp!Cardinality, DispP!Cardinality

\* Likewise the consumer's.
LEMMA SameConsumer ==
  /\ (Cons!Init <=> ConsP!Init) /\ ([Cons!Next]_(Cons!vars) <=> [ConsP!Next]_(ConsP!vars))
  /\ Cons!Consumer <=> ConsP!Consumer
  /\ Cons!Message = ConsP!Message
  BY DEF Cons!Init, ConsP!Init, Cons!Next, ConsP!Next, Cons!vars, ConsP!vars,
       Cons!Message, ConsP!Message, Cons!Create, ConsP!Create, Cons!Arrive,
       ConsP!Arrive, Cons!Expire, ConsP!Expire, Cons!Consumer, ConsP!Consumer,
       Cons!queues, ConsP!queues, Cons!handlers, ConsP!handlers, Cons!merchant,
       ConsP!merchant, Cons!counts, ConsP!counts, Cons!Step, ConsP!Step, Cons!Failure,
       ConsP!Failure, Cons!Crash, ConsP!Crash, Cons!Detach, ConsP!Detach, Cons!Deliver,
       ConsP!Deliver, Cons!Load, ConsP!Load, Cons!Final, ConsP!Final, Cons!Process,
       ConsP!Process, Cons!SendOk, ConsP!SendOk, Cons!SendFails, ConsP!SendFails,
       Cons!SendRaises, ConsP!SendRaises, Cons!RetryOrDlq,
       ConsP!RetryOrDlq, Cons!Ack, ConsP!Ack, Cons!DeadLetter, ConsP!DeadLetter,
       Cons!DbError, ConsP!DbError, Cons!RetryRaises, ConsP!RetryRaises,
       Cons!ProcessUnknown, ConsP!ProcessUnknown, Cons!PutBack, ConsP!PutBack,
       Cons!Free, ConsP!Free, Cons!Goto, ConsP!Goto, Cons!Overwrite, ConsP!Overwrite,
       Cons!Post, ConsP!Post, Cons!Verdicts, ConsP!Verdicts, Cons!Republish,
       ConsP!Republish, Cons!Unsettled, ConsP!Unsettled, Cons!Fault, ConsP!Fault,
       Cons!InFlight, ConsP!InFlight, Cons!Kind, ConsP!Kind, Cons!VerdictOn,
       ConsP!VerdictOn, Cons!Resolution, ConsP!Resolution, Cons!ToRetryQueue,
       ConsP!ToRetryQueue, Cons!ToDlx, ConsP!ToDlx, Cons!Disallowed, ConsP!Disallowed,
       Cons!Cardinality, ConsP!Cardinality

\* The assumptions on the constants, as the services make them.
LEMMA Constants ==
  /\ ApiP!GuardAssumption /\ ApiP!ApiAssumption
  /\ DispP!DispatcherAssumption
  /\ ConsP!GuardAssumption /\ ConsP!ConsumerAssumption
<1>1. Api!Kind = ApiP!Kind
  BY DEF Api!Kind, ApiP!Kind
<1>2. ApiP!GuardAssumption /\ ApiP!ApiAssumption /\ ConsP!GuardAssumption
  BY SystemAssumption, <1>1
  DEF SystemAssumption, Api!GuardAssumption, Api!ApiAssumption, ApiP!GuardAssumption,
      ApiP!ApiAssumption, ConsP!GuardAssumption
<1>3. DispP!DispatcherAssumption
  BY SystemAssumption
  DEF SystemAssumption, Disp!DispatcherAssumption, DispP!DispatcherAssumption
<1>4. Cons!IsFiniteSet(Handler) <=> ConsP!IsFiniteSet(Handler)
  BY DEF Cons!IsFiniteSet, ConsP!IsFiniteSet
<1>5. ConsP!ConsumerAssumption
  BY SystemAssumption, SameConsumer, <1>4
  DEF SystemAssumption, Cons!ConsumerAssumption, ConsP!ConsumerAssumption
<1> QED BY <1>2, <1>3, <1>5

-----------------------------------------------------------------------------

\* A step of the system is a step of each service, or none.
LEMMA StepOfParts ==
  [Next]_vars => [Api!Next]_(Api!vars) /\ [Disp!Next]_(Disp!vars) /\ [Cons!Next]_(Cons!vars)
<1> SUFFICES ASSUME [Next]_vars
             PROVE  [Api!Next]_(Api!vars) /\ [Disp!Next]_(Disp!vars) /\ [Cons!Next]_(Cons!vars)
  OBVIOUS
<1>1. /\ UNCHANGED api => UNCHANGED Api!vars
      /\ UNCHANGED dispatcher => UNCHANGED Disp!vars
      /\ UNCHANGED consumer => UNCHANGED Cons!vars
  BY DEF api, dispatcher, consumer, Api!vars, Disp!vars, Cons!vars, Disp!row, Cons!queues,
         Cons!handlers, Cons!merchant, Cons!counts
<1>2. ASSUME NEW r \in Request, CommitPayment(r)
      PROVE  Api!Next /\ Disp!Next /\ Cons!Next
  BY <1>2 DEF CommitPayment, Api!Next, Api!Step, Disp!Next, Cons!Next
<1>3. ASSUME NEW r \in Request, ApiStep(r)
      PROVE  Api!Next /\ UNCHANGED <<dispatcher, consumer>>
  BY <1>3 DEF ApiStep, Api!Next, Api!Step
<1>4. ASSUME NEW d \in Dispatcher, DispatcherStep(d)
      PROVE  Disp!Next /\ UNCHANGED <<api, consumer>>
  BY <1>4 DEF DispatcherStep, Disp!Next, Disp!Loop, Disp!Failure
<1>5. ASSUME NEW d \in Dispatcher, NEW p \in Request, PublishEvent(d, p)
      PROVE  Disp!Next /\ Cons!Next /\ UNCHANGED api
  BY <1>5 DEF PublishEvent, Disp!Next, Disp!Loop, Disp!Failure, Cons!Next
<1>6. ASSUME NEW m \in Cons!Message, RetryExpires(m)
      PROVE  Cons!Next /\ UNCHANGED <<api, dispatcher>>
  BY <1>6 DEF RetryExpires, Cons!Next
<1>7. ASSUME ClockTick PROVE Disp!Next /\ UNCHANGED <<api, consumer>>
  BY <1>7 DEF ClockTick, Disp!Next
<1>8. ASSUME ConsumerStep PROVE Cons!Next /\ UNCHANGED <<api, dispatcher>>
  BY <1>8 DEF ConsumerStep, Cons!Next
<1>9. ASSUME UNCHANGED vars PROVE UNCHANGED <<api, dispatcher, consumer>>
  BY <1>9 DEF vars
<1> QED BY <1>1, <1>2, <1>3, <1>4, <1>5, <1>6, <1>7, <1>8, <1>9 DEF Next

\* Put together, the services behave as each of them does alone: a service
\* sees of the others only what its own module leaves open.
THEOREM ServicesKeepTheirSpecifications == Spec => Api!Spec /\ Disp!Spec /\ Cons!Spec
<1>1. Init => Api!Init /\ Disp!Init /\ Cons!Init
  BY DEF Init
<1> QED BY <1>1, StepOfParts, PTL DEF Spec, Api!Spec, Disp!Spec, Cons!Spec

-----------------------------------------------------------------------------

\* A step of the system, for the instances with the proofs.
LEMMA StepOfProvedParts ==
  [Next]_vars =>
    [ApiP!Next]_(ApiP!vars) /\ [DispP!Next]_(DispP!vars) /\ [ConsP!Next]_(ConsP!vars)
BY StepOfParts, SameApi, SameDispatcher, SameConsumer

\* What is proved of a service alone holds in the system.
LEMMA PartsHold == Spec => []Parts
<1>1. Init => ApiP!Init /\ DispP!Init /\ ConsP!Init
  BY SameApi, SameDispatcher, SameConsumer DEF Init
<1>2. [Next]_vars =>
        [ApiP!Next]_(ApiP!vars) /\ [DispP!Next]_(DispP!vars) /\ [ConsP!Next]_(ConsP!vars)
  BY StepOfProvedParts
<1> USE Constants
    DEF ApiP!GuardAssumption, ApiP!ApiAssumption, DispP!DispatcherAssumption,
        ConsP!GuardAssumption, ConsP!ConsumerAssumption
<1>3. ApiP!Init => ApiP!Inv
  BY ApiP!InitInv
<1>4. ApiP!Inv /\ [ApiP!Next]_(ApiP!vars) => ApiP!Inv'
  BY ApiP!InvStep
<1>5. DispP!Init => DispP!Inv
  BY DispP!InitInv
<1>6. DispP!Inv /\ [DispP!Next]_(DispP!vars) => DispP!Inv'
  BY DispP!InvStep
<1>7. ConsP!Init => ConsP!Inv /\ ConsP!NothingYet
  BY ConsP!InitInv, ConsP!InitSingle DEF ConsP!SingleInv
<1>8. ConsP!Inv /\ [ConsP!Next]_(ConsP!vars) => ConsP!Inv'
  BY ConsP!TypeStep, ConsP!KnowsStep, ConsP!ToldStep DEF ConsP!Inv
<1>9. ConsP!Inv /\ ConsP!NothingYet /\ [ConsP!Next]_(ConsP!vars) => ConsP!NothingYet'
  BY ConsP!NothingStep
<1>10. Init => Parts
  BY <1>1, <1>3, <1>5, <1>7 DEF Parts
<1>11. Parts /\ [Next]_vars => Parts'
  BY <1>2, <1>4, <1>6, <1>8, <1>9 DEF Parts
<1> QED BY <1>10, <1>11, PTL DEF Spec

-----------------------------------------------------------------------------

\* Who has a message of a payment knows that the payment was created.
LEMMA MessagesOfPayments ==
  ASSUME Parts, Links
  PROVE  /\ \A m \in ConsP!Message :
              ready[m] + delayed[m] > 0 => m.payment \in outbox /\ m.payment \in Request
         /\ \A h \in Handler :
              hpc[h] # "idle" => msg[h].payment \in outbox /\ msg[h].payment \in Request
<1>1. \A p \in Request : sent[p] \in Nat /\ events[p] \in Nat
  BY DEF Parts, DispP!Inv, DispP!TypeOK, ConsP!Inv, ConsP!TypeOK
<1>2. \A p \in Request : events[p] # 0 => p \in outbox
  BY <1>1 DEF Links, TakenIsQueued, TakenWasCreated
<1>3. /\ ready \in [ConsP!Message -> Nat] /\ delayed \in [ConsP!Message -> Nat]
      /\ \A m \in ConsP!Message : m.payment \in Request
  BY DEF Parts, ConsP!Inv, ConsP!TypeOK, ConsP!Message
<1>4. \A h \in Handler : hpc[h] # "idle" => msg[h].payment \in Request
  BY <1>3 DEF Parts, ConsP!Inv, ConsP!HandlerKnows
<1> QED BY <1>2, <1>3, <1>4 DEF Parts, ConsP!NothingYet, ConsP!Handles

\* A commit of the API registers the event of its payment.
LEMMA CommitRegisters ==
  ASSUME Parts, NEW r \in Request, CommitPayment(r)
  PROVE  outbox' = outbox \cup {r}
<1>1. rpc[r] = "commit" /\ Api!Install(r)
  BY DEF CommitPayment, Api!Commit, Api!CommitUnknown
<1>2. "outbox" \in tx[r]
  BY <1>1 DEF Parts, ApiP!Inv, ApiP!TxFollowsPlace
<1> QED BY <1>1, <1>2 DEF Api!Install

\* A dispatcher that settles a batch leaves every row in the table.
LEMMA RowsStay ==
  ASSUME Parts, NEW d \in Dispatcher, DispatcherStep(d)
  PROVE  /\ sent' = sent
         /\ \A p \in Request : ostatus'[p] = "absent" <=> ostatus[p] = "absent"
<1>1. ASSUME Disp!Install(d)
      PROVE  \A p \in Request : ostatus'[p] = "absent" <=> ostatus[p] = "absent"
  BY <1>1 DEF Disp!Install, Parts, DispP!Inv, DispP!BatchIsDue
<1>2. CASE Disp!Commit(d) \/ Disp!CommitUnknown(d)
  BY <1>1, <1>2 DEF Disp!Commit, Disp!CommitUnknown
<1>3. CASE Disp!Fetch(d) \/ Disp!Wake(d) \/ Disp!DbError(d) \/ Disp!Crash(d)
  BY <1>3 DEF Disp!Fetch, Disp!Wake, Disp!DbError, Disp!Crash, Disp!row
<1>4. ASSUME NEW p \in Request, \/ Disp!Mark(d, p) \/ Disp!PublishFails(d, p)
                                \/ Disp!Bump(d, p) \/ Disp!BumpOverflows(d, p)
      PROVE  sent' = sent /\ ostatus' = ostatus
  BY <1>4 DEF Disp!Mark, Disp!PublishFails, Disp!Bump, Disp!BumpOverflows, Disp!row
<1> QED BY <1>2, <1>3, <1>4 DEF DispatcherStep

\* What the broker takes from a dispatcher is the event of a created payment.
LEMMA PublishedIsCreated ==
  ASSUME Parts, Links, NEW d \in Dispatcher, NEW p \in Request, PublishEvent(d, p)
  PROVE  /\ p \in outbox
         /\ sent' = [sent EXCEPT ![p] = @ + 1] /\ events' = [events EXCEPT ![p] = @ + 1]
         /\ UNCHANGED <<outbox, payments, ostatus, pstatus, hpc, msg>>
<1>1. /\ work[d][p] = "todo" /\ sent' = [sent EXCEPT ![p] = @ + 1] /\ ostatus' = ostatus
      /\ Cons!Arrive(p) /\ UNCHANGED api
  BY DEF PublishEvent, Disp!Publish, Disp!PublishUnconfirmed, Disp!AtRow, Disp!Todo, Disp!row
<1>2. ostatus[p] = "PENDING"
  BY <1>1 DEF Parts, DispP!Inv, DispP!BatchIsDue
<1>3. p \in outbox
  BY <1>2 DEF Links, CreatedTogether
<1> QED BY <1>1, <1>3 DEF Cons!Arrive, Cons!handlers, api

\* The consumer changes payments that exist, and finds none missing.
LEMMA ConsumerFindsPayments ==
  ASSUME Parts, Links, ConsP!Consumer
  PROVE  /\ events' = events
         /\ \A p \in Request : pstatus'[p] = "absent" <=> pstatus[p] = "absent"
         /\ NoneMissing'
<1>1. /\ pstatus \in [Request -> ConsP!Status] /\ hpc \in [Handler -> ConsP!Place]
      /\ seen \in [Handler -> ConsP!Status] /\ ConsP!TypeOK
  BY DEF Parts, ConsP!Inv, ConsP!TypeOK
<1>2. \A h \in Handler : hpc[h] # "idle" =>
        msg[h].payment \in Request /\ pstatus[msg[h].payment] # "absent"
  BY MessagesOfPayments DEF Links, CreatedTogether
<1>3. \A h \in Handler : hpc[h] # "missing"
  BY DEF Links, NoneMissing
<1> DEFINE SameRows == \A p \in Request : pstatus'[p] = "absent" <=> pstatus[p] = "absent"
<1>4. ASSUME NEW h \in Handler, NEW place, place # "missing", ConsP!Goto(h, place)
      PROVE  NoneMissing'
  BY <1>1, <1>3, <1>4 DEF ConsP!Goto, NoneMissing
<1>5. ASSUME NEW H \in SUBSET Handler, ConsP!Free(H) PROVE NoneMissing'
  BY <1>3, <1>5 DEF ConsP!Free, NoneMissing
<1>6. ASSUME NEW h \in Handler, NEW s \in ConsP!Final, hpc[h] = "process",
             ConsP!Overwrite(msg[h].payment, s)
      PROVE  SameRows
  BY <1>1, <1>2, <1>6 DEF ConsP!Overwrite, ConsP!Final
<1>7. ASSUME NEW h \in Handler, ConsP!Load(h) PROVE NoneMissing'
  <2>1. pstatus[msg[h].payment] # "absent"
    BY <1>2, <1>7 DEF ConsP!Load
  <2>2. ConsP!Goto(h, "process") \/ ConsP!Goto(h, "send")
    BY <1>7, <2>1, Constants, ConsP!LoadCases
    DEF Parts, ConsP!GuardAssumption, ConsP!ConsumerAssumption
  <2> QED BY <1>4, <2>2
<1>8. ASSUME NEW h \in Handler, NEW m \in ConsP!Message, ConsP!Deliver(h, m)
      PROVE  NoneMissing'
  BY <1>1, <1>3, <1>8 DEF ConsP!Deliver, NoneMissing
<1> HIDE DEF SameRows
<1>9. ASSUME UNCHANGED pstatus PROVE SameRows
  BY <1>9 DEF SameRows
<1>10. ASSUME NEW h \in Handler, ConsP!Step(h) \/ ConsP!Failure(h)
       PROVE  events' = events
  BY <1>10
  DEF ConsP!Step, ConsP!Failure, ConsP!Deliver, ConsP!Load, ConsP!Process, ConsP!ProcessUnknown,
      ConsP!DbError, ConsP!SendOk, ConsP!SendFails, ConsP!SendRaises, ConsP!RetryOrDlq,
      ConsP!RetryRaises, ConsP!Ack, ConsP!DeadLetter, ConsP!counts
<1>11. ASSUME NEW h \in Handler, ConsP!Step(h) \/ ConsP!Failure(h) PROVE SameRows
  BY <1>6, <1>9, <1>11
  DEF ConsP!Step, ConsP!Failure, ConsP!Deliver, ConsP!Load, ConsP!Process, ConsP!ProcessUnknown,
      ConsP!DbError, ConsP!SendOk, ConsP!SendFails, ConsP!SendRaises, ConsP!RetryOrDlq,
      ConsP!RetryRaises, ConsP!Ack, ConsP!DeadLetter
<1>12. ASSUME NEW h \in Handler, ConsP!Step(h) \/ ConsP!Failure(h) PROVE NoneMissing'
  BY <1>4, <1>5, <1>7, <1>8, <1>12
  DEF ConsP!Step, ConsP!Failure, ConsP!Process, ConsP!ProcessUnknown,
      ConsP!DbError, ConsP!SendOk, ConsP!SendFails, ConsP!SendRaises, ConsP!RetryOrDlq,
      ConsP!RetryRaises, ConsP!Ack, ConsP!DeadLetter
<1>13. CASE ConsP!Crash
  BY <1>5, <1>9, <1>13 DEF ConsP!Crash, SameRows
<1>14. CASE ConsP!Detach
  BY <1>3, <1>9, <1>14 DEF ConsP!Detach, NoneMissing, SameRows
<1> QED BY <1>10, <1>11, <1>12, <1>13, <1>14 DEF ConsP!Consumer, SameRows

\* Every step of the system keeps the services linked.
LEMMA LinksStep == Parts /\ Links /\ [Next]_vars => Links'
<1> SUFFICES ASSUME Parts, Links, [Next]_vars PROVE Links'
  OBVIOUS
<1>0. CreatedTogether /\ TakenIsQueued /\ TakenWasCreated /\ NoneMissing
  BY DEF Links
<1>1. /\ events \in [Request -> Nat] /\ sent \in [Request -> Nat]
      /\ ostatus \in [Request -> DispP!Status] /\ pstatus \in [Request -> ConsP!Status]
  BY DEF Parts, DispP!Inv, DispP!TypeOK, ConsP!Inv, ConsP!TypeOK
<1> USE DEF CreatedTogether, TakenIsQueued, TakenWasCreated
<1>2. ASSUME NEW r \in Request, CommitPayment(r) PROVE Links'
  <2>1. outbox' = outbox \cup {r}
    BY <1>2, CommitRegisters
  <2>2. /\ ostatus' = [ostatus EXCEPT ![r] = "PENDING"] /\ sent' = sent
        /\ pstatus' = [pstatus EXCEPT ![r] = "PENDING"] /\ events' = events
        /\ hpc' = hpc
    BY <1>2 DEF CommitPayment, Disp!Enqueue, Cons!Create, Cons!handlers, Cons!counts
  <2>3. CreatedTogether'
    BY <1>0, <1>1, <2>1, <2>2
  <2>4. TakenIsQueued' /\ TakenWasCreated' /\ NoneMissing'
    BY <1>0, <2>1, <2>2 DEF NoneMissing
  <2> QED BY <2>3, <2>4 DEF Links
<1>3. ASSUME UNCHANGED <<outbox, ostatus, pstatus, sent, events, hpc>> PROVE Links'
  BY <1>0, <1>3 DEF Links, NoneMissing
<1>4. ASSUME NEW r \in Request, ApiStep(r) PROVE Links'
  <2>1. UNCHANGED <<outbox, dispatcher, consumer>>
    BY <1>4
    DEF ApiStep, Api!Receive, Api!Reject, Api!ValidateUrl, Api!Lookup, Api!Insert,
        Api!InsertConflict, Api!Enqueue, Api!Answer, Api!DbError, Api!Crash
  <2> QED BY <1>3, <2>1 DEF dispatcher, consumer
<1>5. ASSUME NEW d \in Dispatcher, DispatcherStep(d) PROVE Links'
  <2>1. UNCHANGED <<outbox, pstatus, sent, events, hpc>>
    BY <1>5, RowsStay DEF DispatcherStep, api, consumer
  <2>2. \A p \in Request : ostatus'[p] = "absent" <=> ostatus[p] = "absent"
    BY <1>5, RowsStay
  <2> QED BY <1>0, <2>1, <2>2 DEF Links, NoneMissing
<1>6. ASSUME NEW d \in Dispatcher, NEW p \in Request, PublishEvent(d, p) PROVE Links'
  <2>1. /\ p \in outbox
        /\ sent' = [sent EXCEPT ![p] = @ + 1] /\ events' = [events EXCEPT ![p] = @ + 1]
        /\ UNCHANGED <<outbox, ostatus, pstatus, hpc>>
    BY <1>6, PublishedIsCreated
  <2>2. TakenIsQueued'
    BY <1>0, <1>1, <2>1
  <2>3. TakenWasCreated'
    BY <1>0, <1>1, <2>1
  <2>4. CreatedTogether' /\ NoneMissing'
    BY <1>0, <2>1 DEF NoneMissing
  <2> QED BY <2>2, <2>3, <2>4 DEF Links
<1>7. ASSUME NEW m \in Cons!Message, RetryExpires(m) PROVE Links'
  BY <1>3, <1>7
  DEF RetryExpires, Cons!Expire, Cons!handlers, Cons!counts, api, dispatcher
<1>8. CASE ClockTick
  BY <1>3, <1>8 DEF ClockTick, Disp!Tick, Disp!row, api, consumer
<1>9. CASE ConsumerStep
  <2>1. ConsP!Consumer /\ UNCHANGED <<outbox, ostatus, sent>>
    BY <1>9, SameConsumer DEF ConsumerStep, api, dispatcher
  <2>2. /\ events' = events /\ NoneMissing'
        /\ \A p \in Request : pstatus'[p] = "absent" <=> pstatus[p] = "absent"
    BY <2>1, ConsumerFindsPayments
  <2> QED BY <1>0, <2>1, <2>2 DEF Links
<1>10. CASE UNCHANGED vars
  BY <1>3, <1>10 DEF vars, api, dispatcher, consumer
<1> QED BY <1>2, <1>4, <1>5, <1>6, <1>7, <1>8, <1>9, <1>10 DEF Next

\* The links and the invariants of the services hold in every reachable state.
LEMMA Invariance == Spec => [](Parts /\ Links)
<1>1. Init => Links
  <2> SUFFICES ASSUME Init PROVE Links
    OBVIOUS
  <2>1. outbox = {} /\ ostatus = [p \in Request |-> "absent"] /\ sent = [p \in Request |-> 0]
    BY DEF Init, Api!Init, Disp!Init
  <2>2. /\ pstatus = [p \in Request |-> "absent"] /\ events = [p \in Request |-> 0]
        /\ hpc = [h \in Handler |-> "idle"]
    BY DEF Init, Cons!Init
  <2> QED
    BY <2>1, <2>2 DEF Links, CreatedTogether, TakenIsQueued, TakenWasCreated, NoneMissing
<1> QED BY <1>1, LinksStep, PartsHold, PTL DEF Spec

-----------------------------------------------------------------------------

\* The joint steps ask both services.  The other one is always ready: the row
\* a commit inserts is new to dispatcher and consumer, and the bound on events
\* never keeps the broker from taking a message.
OtherSideIsReady ==
  /\ \A r \in Request : rpc[r] = "commit" => ostatus[r] = "absent" /\ pstatus[r] = "absent"
  /\ \A d \in Dispatcher, p \in Request :
       work[d][p] = "todo" => events[p] < MaxDispatcherFaults + 1

\* Putting the services together withholds no step from one of them, so what
\* the system never does is not due to the way it is composed.
THEOREM JointStepsAreOpen == Spec => []OtherSideIsReady
<1>1. Parts /\ Links => OtherSideIsReady
  <2> SUFFICES ASSUME Parts, Links PROVE OtherSideIsReady
    OBVIOUS
  <2>1. ASSUME NEW r \in Request, rpc[r] = "commit"
        PROVE  ostatus[r] = "absent" /\ pstatus[r] = "absent"
    <3>1. \A row \in payments : rpc[row.id] \in {"answer", "done", "lost"}
      BY DEF Parts, ApiP!Inv, ApiP!RowsAreOwn
    <3>2. r \notin outbox
      BY <2>1, <3>1 DEF Parts, ApiP!Inv, ApiP!PaymentIffEvent
    <3> QED BY <3>2 DEF Links, CreatedTogether
  <2>2. ASSUME NEW d \in Dispatcher, NEW p \in Request, work[d][p] = "todo"
        PROVE  events[p] < MaxDispatcherFaults + 1
    <3>1. \A e \in Dispatcher : work[e][p] \notin {"sent", "marked"}
      BY <2>2 DEF Parts, DispP!Inv, DispP!Exclusive
    <3>2. ostatus[p] = "PENDING"
      BY <2>2 DEF Parts, DispP!Inv, DispP!BatchIsDue
    <3>3. sent[p] <= ofaults
      BY <3>1, <3>2 DEF Parts, DispP!Inv, DispP!OneMessageFree
    <3>4. sent[p] \in Nat /\ ofaults \in 0..MaxDispatcherFaults
      BY DEF Parts, DispP!Inv, DispP!TypeOK
    <3>5. events[p] = sent[p]
      BY DEF Links, TakenIsQueued
    <3>6. MaxDispatcherFaults \in Nat
      BY Constants DEF DispP!DispatcherAssumption
    <3> QED BY <3>3, <3>4, <3>5, <3>6
  <2> QED BY <2>1, <2>2 DEF OtherSideIsReady
<1> QED BY <1>1, Invariance, PTL

\* No event overtakes its payment: a message in payments.new is about a
\* payment in the database, and no handler finds its payment missing.
THEOREM EventsFollowPayments == Spec => []EventFollowsPayment
<1>1. ASSUME Parts, Links PROVE EventFollowsPayment
  <2>1. \A h \in Handler : hpc[h] # "missing"
    BY <1>1 DEF Links, NoneMissing
  <2>2. ASSUME NEW m \in Cons!Message, ready[m] > 0
        PROVE  \E row \in payments : row.id = m.payment
    <3>1. m \in ConsP!Message /\ ready[m] + delayed[m] > 0
      BY <1>1, <2>2, SameConsumer DEF Parts, ConsP!Inv, ConsP!TypeOK
    <3>2. m.payment \in outbox
      BY <1>1, <3>1, MessagesOfPayments
    <3> QED BY <1>1, <3>2 DEF Parts, ApiP!Inv, ApiP!PaymentIffEvent
  <2> QED BY <2>1, <2>2 DEF EventFollowsPayment
<1> QED BY <1>1, Invariance, PTL

\* A merchant hears only of payments that the API has created; a request
\* answered with 400, 401, 409 or 422 makes no webhook.
THEOREM WebhooksAreForCreated == Spec => []WebhookOnlyForCreated
<1>1. ASSUME Parts, Links PROVE WebhookOnlyForCreated
  <2> SUFFICES ASSUME NEW r \in Request, heard[r] # {}
               PROVE  \E row \in payments : row.id = r /\ code[r] \notin {400, 401, 409, 422}
    BY DEF WebhookOnlyForCreated
  <2>1. pstatus[r] # "absent"
    BY <1>1 DEF Parts, ConsP!Inv, ConsP!WebhookAfterCommit, ConsP!Final
  <2>2. r \in outbox
    BY <1>1, <2>1 DEF Links, CreatedTogether
  <2>3. PICK row \in payments : row.id = r
    BY <1>1, <2>2 DEF Parts, ApiP!Inv, ApiP!PaymentIffEvent
  <2>4. code[r] \in {202, 500}
    BY <1>1, <2>3 DEF Parts, ApiP!Inv, ApiP!RowsAreOwn
  <2> QED BY <2>3, <2>4
<1> QED BY <1>1, Invariance, PTL

\* From the commit of the API to the merchant or the DLQ, whatever crashes in
\* between: no payment is left without its event, if every retry has a queue.
THEOREM PaymentsAreNotForgotten ==
  ASSUME MaxRetries <= RetryQueues
  PROVE  Spec => []PaymentNeverForgotten
<1> USE Constants
    DEF ApiP!GuardAssumption, ApiP!ApiAssumption, DispP!DispatcherAssumption,
        ConsP!GuardAssumption, ConsP!ConsumerAssumption
<1>1. Init => ConsP!EventHeld
  BY DEF Init, Cons!Init, ConsP!EventHeld
<1>2. Parts /\ ConsP!EventHeld /\ [Next]_vars => ConsP!EventHeld'
  BY ConsP!HeldStep, StepOfProvedParts DEF Parts
<1>3. ASSUME Parts, Links, ConsP!EventHeld PROVE PaymentNeverForgotten
  <2> SUFFICES ASSUME NEW p \in outbox, ostatus[p] # "PENDING"
               PROVE  Cons!Carried(p) \/ p \in accepted \/ Cons!InDlq(p)
    BY DEF PaymentNeverForgotten, Underway
  <2>1. p \in Request /\ ostatus[p] \in {"absent", "PENDING", "PUBLISHED"}
    BY <1>3 DEF Parts, ApiP!Inv, ApiP!TypeOK, DispP!Inv, DispP!TypeOK, DispP!Status
  <2>2. ostatus[p] = "PUBLISHED"
    BY <1>3, <2>1 DEF Links, CreatedTogether
  <2>3. events[p] > 0
    BY <1>3, <2>1, <2>2 DEF Parts, DispP!Inv, DispP!PublishedWasSent, Links, TakenIsQueued
  <2>4. ConsP!Held(p) \/ p \in accepted \/ ConsP!InDlq(p)
    BY <1>3, <2>1, <2>3 DEF ConsP!EventHeld
  <2>5. ConsP!Held(p) => Cons!Carried(p)
    BY SameConsumer DEF ConsP!Held, Cons!Carried, ConsP!InFlight, Cons!InFlight
  <2>6. ConsP!InDlq(p) <=> Cons!InDlq(p)
    BY DEF ConsP!InDlq, Cons!InDlq
  <2> QED BY <2>4, <2>5, <2>6
<1> QED BY <1>1, <1>2, <1>3, Invariance, PTL DEF Spec

\* A deployment whose dispatchers do not fail and whose consumer keeps its
\* connection tells the merchant one outcome, which stays; the API and the
\* consumer's process may fail at any point.
THEOREM OneOutcomeOfPayment ==
  ASSUME MaxDispatcherFaults = 0, MaxDetaches = 0
  PROVE  Spec => []Cons!OneOutcomeTold /\ Cons!OutcomeIsFinal
<1> USE Constants
    DEF ApiP!GuardAssumption, ApiP!ApiAssumption, DispP!DispatcherAssumption,
        ConsP!GuardAssumption, ConsP!ConsumerAssumption
<1>1. MaxDispatcherFaults + 1 <= 1
  OBVIOUS
<1>2. Init => ConsP!SingleInv
  BY ConsP!InitSingle, SameConsumer DEF Init
<1>3. Parts /\ ConsP!SingleInv /\ [Next]_vars => ConsP!SingleInv'
  BY <1>1, StepOfProvedParts, ConsP!NothingStep, ConsP!CopyStep, ConsP!WaitStep, ConsP!FreshStep,
     ConsP!TrueStep DEF ConsP!SingleInv, Parts
<1>4. ASSUME ConsP!SingleInv PROVE Cons!OneOutcomeTold
  <2> SUFFICES ASSUME NEW p \in Request PROVE Cons!Cardinality(heard[p]) <= 1
    BY DEF Cons!OneOutcomeTold
  <2>1. ConsP!IsFiniteSet({pstatus[p]}) /\ ConsP!Cardinality({pstatus[p]}) = 1
    BY ConsP!FS_Singleton
  <2>2. heard[p] \subseteq {pstatus[p]}
    BY <1>4 DEF ConsP!SingleInv, ConsP!ToldIsTrue
  <2>3. ConsP!Cardinality(heard[p]) <= 1
    BY <2>1, <2>2, ConsP!FS_Subset
  <2>4. Cons!Cardinality(heard[p]) = ConsP!Cardinality(heard[p])
    BY DEF Cons!Cardinality, ConsP!Cardinality
  <2> QED BY <2>3, <2>4
<1>5. Parts /\ ConsP!SingleInv /\ [Next]_vars
        => [\A p \in Request : pstatus[p] \in Cons!Final => pstatus'[p] = pstatus[p]]_(Cons!vars)
  <2> SUFFICES ASSUME Parts, ConsP!SingleInv, [Next]_vars, NEW p \in Request,
                      pstatus[p] \in Cons!Final
               PROVE  pstatus'[p] = pstatus[p]
    OBVIOUS
  <2>1. pstatus[p] \in ConsP!Final
    BY DEF Cons!Final, ConsP!Final
  <2> QED BY <2>1, StepOfProvedParts, ConsP!OutcomeStays DEF Parts
<1> QED
  BY <1>2, <1>3, <1>4, <1>5, Invariance, PTL DEF Spec, Cons!OutcomeIsFinal

\* Nothing but a counted failure makes a merchant get more requests for a
\* payment than the retries of one event.
THEOREM RequestsOfPayment == Spec => []RequestsArePaid
<1> USE Constants
    DEF ApiP!GuardAssumption, ApiP!ApiAssumption, DispP!DispatcherAssumption,
        ConsP!GuardAssumption, ConsP!ConsumerAssumption
<1>1. Init => ConsP!WithinBudget
  BY ConsP!InitBudget, SameConsumer DEF Init
<1>2. Parts /\ Parts' /\ ConsP!WithinBudget /\ [Next]_vars => ConsP!WithinBudget'
  BY StepOfProvedParts, ConsP!BudgetStep DEF Parts
<1>3. Parts /\ Links /\ ConsP!WithinBudget => RequestsArePaid
  <2> SUFFICES ASSUME Parts, Links, ConsP!WithinBudget, NEW r \in Request
               PROVE  posts[r] <= (MaxRetries + 1) * (1 + ofaults + again[r])
    BY DEF RequestsArePaid
  <2> DEFINE few == events[r] + again[r]
             many == 1 + ofaults + again[r]
  <2>1. posts[r] <= (MaxRetries + 1) * few
    BY ConsP!BudgetBounds DEF Parts, ConsP!PostsBounded
  <2>2. events[r] <= 1 + ofaults
    BY DEF Parts, DispP!Inv, DispP!DuplicatesNeedFaults, Links, TakenIsQueued
  <2>3. events[r] \in Nat /\ again[r] \in Nat /\ posts[r] \in Nat
    BY DEF Parts, ConsP!Inv, ConsP!TypeOK
  <2>4. ofaults \in Nat
    BY DEF Parts, DispP!Inv, DispP!TypeOK
  <2>5. few \in Nat /\ many \in Nat /\ few <= many
    BY <2>2, <2>3, <2>4
  <2> HIDE DEF few, many
  <2>6. (MaxRetries + 1) * few <= (MaxRetries + 1) * many
    <3>1. (MaxRetries + 1) * (many - few) >= 0 /\ many - few \in Nat
      BY <2>5
    <3>2. (MaxRetries + 1) * many = (MaxRetries + 1) * few + (MaxRetries + 1) * (many - few)
      BY <2>5
    <3> QED BY <2>5, <3>1, <3>2
  <2>7. posts[r] <= (MaxRetries + 1) * many
    BY <2>1, <2>3, <2>5, <2>6
  <2> QED BY <2>7 DEF many
<1> QED BY <1>1, <1>2, <1>3, Invariance, PTL DEF Spec
=============================================================================
