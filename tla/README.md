# Payments processor: TLA+ specifications and proofs

The repository is an asynchronous payment service made of three processes. The
**API** accepts `POST /api/v1/payments` under an `Idempotency-Key` and stores the
payment together with an outbox row. The **outbox dispatcher** publishes outbox
rows to RabbitMQ. The **consumer** takes the events, emulates the processing,
commits an outcome and posts a webhook to the merchant, with retries through
delay queues and a dead-letter queue. They share PostgreSQL and RabbitMQ and
nothing else. Paths below are relative to the repository root.

## 1. Inventory

| component | state it keeps | operations | hard behaviour | what makes it correct |
|---|---|---|---|---|
| create_payment (`routers/payment_router.py`, `actions/payment_action.py`, `services/payment_service.py`, `repositories/`) | `payment` and `outbox` tables, one transaction per request | validate URL, look up key, insert payment, insert outbox row, commit; replay; conflict | concurrent requests with one key; lookup and insert are separate statements; a commit whose answer is lost; crash between statements | one payment per key; payment and event exist together; 202 tells the truth; a refusal leaves nothing; every request ends |
| outbox dispatcher (`outbox_dispatcher/main.py`, `services/outbox_service.py`, `repositories/outbox_repository.py`) | status, attempts and next_attempt_at of each row; the open batch of each dispatcher | fetch with `FOR UPDATE SKIP LOCKED`, publish, mark, bump with backoff, commit, sleep | several dispatchers; publish is outside the transaction; failure after a part of the batch; backoff arithmetic | PUBLISHED means sent; every row is published; duplicates only from failures; the backoff is kept |
| consumer (`consumer/main.py`, `services/processing_service.py`, `services/webhook_service.py`, `messaging/retry_headers.py`) | payment status; up to `CONSUMER_PREFETCH_COUNT` running handlers, each with a message and a snapshot of the payment | load, process and commit, send webhook, republish or dead-letter, ack / nack / reject | duplicate deliveries handled at once; connection lost while handlers run; failures between commit, webhook, republish and ack | no event lost; no webhook ahead of its commit; an outcome is final; retries are bounded and end |
| RabbitMQ topology (`messaging/topology.py`, `messaging/main.py`, `docker-compose.yml`) | two exchanges, `payments.new`, `payments.retry.{n}`, `payments.dlq`, their bindings | a one-shot job declares them, the consumer declares its queue again; route, expire, dead-letter | a job that dies half way or is run again; a broker that restarts; publishing before the queue is bound | every message has a queue, and ends |
| SSRF guard (`utils/ssrf_guard.py`) | none (DNS answers change) | validate a URL | the answer at creation differs from the one at delivery; errors it does not catch | a refusal at creation leaves nothing, one at delivery loses nothing |
| worker health (`utils/health_state.py`, `routers/worker_health_router.py`, `outbox_dispatcher/main.py`) | started, last heartbeat, liveness check | mark_started, heartbeat, is_healthy | a heartbeat after failed iterations; none during a long batch; an await that never returns | a stuck loop is reported, a working one is not |
| authentication and error mapping (`middlewares/`, `error_handlers/`, `errors/`) | none | check `X-API-Key`, map exceptions to statuses | which base class an error has decides its status | documented statuses |
| schemas, configuration, dependency injection, signature, migrations | none at run time | | | |

Interactions: the API's commit makes two rows visible, the payment (read by the
consumer) and the outbox row (read by the dispatcher); the dispatcher's publish
puts a message into `payments.new`; the consumer puts messages into the retry
queues and the DLQ, and the broker brings expired ones back.
`PROJECT.json` lists the components with what is modelled of each, and the
hazards with the properties that would catch them.

## 2. Modules

| module | models | abstract counterpart |
|---|---|---|
| `ApiErrors` | the exceptions and the status of each (used by `PaymentApi`) | |
| `SsrfGuard` | the verdict on a webhook URL (used by `PaymentApi` and `PaymentConsumer`) | |
| `PaymentApi` | create_payment, one action per statement | `IdempotentCreate` |
| `OutboxDispatcher` | the outbox table and the dispatchers' loops | `AtLeastOnce` |
| `PaymentConsumer` | the handlers and the queues around them | |
| `PaymentsSystem` | the three together (instances, two joint actions) | |
| `BrokerTopology` | the declaring job, the broker's objects and what they do to messages | `EventPath` |
| `WorkerHealth` | the dispatcher's heartbeat and probe, in seconds | |
| `PaymentApiProofs` | theorems about `PaymentApi` | |
| `OutboxDispatcherProofs` | theorems about `OutboxDispatcher` | |
| `BrokerTopologyProofs` | theorems about `BrokerTopology` | |
| `PaymentConsumerProofs` | theorems about `PaymentConsumer` | |
| `SingleEventProofs`, `WebhookBudgetProofs` | two more about it, each with an invariant of its own | |
| `WorkerHealthProofs` | theorems about `WorkerHealth` | |
| `PaymentsSystemProofs` | theorems about `PaymentsSystem`, from those about its parts (`PaymentConsumerTheorems` gathers the consumer's) | |
| `MC*` | values and symmetry for TLC | |

An operator whose comment begins "Mutant of X" is a faulty variant of the
definition X below it. No specification uses it; substituted for X it makes a
named property fail, which shows that the property depends on that code.

### PaymentApi

A payment is named by the request that inserts it. `pc[r]` is the place of
request r in the chain router -> action -> service; each `await` on PostgreSQL or
on the resolver is one action, so requests interleave where the event loop
can switch. `tx[r]` is what its open transaction has inserted, and `Install` is
what its commit makes durable. `payments` and `outbox` hold committed rows: what
READ COMMITTED shows to others.

- `Reject` is a request that the API key middleware or the schema turns away;
  `Receive` one that reaches the handler.
- `ValidateUrl` takes one of the `Verdicts` of `SsrfGuard` on the kind of the URL. For
  one https URL several are possible, since the guard resolves the name anew each
  time. A label that IDNA cannot encode raises UnicodeError, which nothing catches:
  the answer is 500.
- `Fail` ends the handler with an exception; `ApiErrors!StatusOf` gives its status.
- `Lookup` is `get_by_idempotency_key` with `_ensure_idempotent_match`.
- `Insert` waits while another open transaction holds the key (the unique index);
  `InsertConflict` is the violation of `uq_payment_idempotency_key` that
  `handle_payment_integrity` turns into 409.
- `Commit`, `CommitUnknown` (durable, but the handler sees an error), `DbError`
  (any statement), `Crash` (process or client connection gone).

### OutboxDispatcher

`status`, `attempts`, `nextAt` are the committed columns. `work[d][p]` says what
d's open transaction has done with row p: fetched (`todo`), published (`sent`),
publish raised (`failed`), outcome written (`marked`, `bumped`). All that is not
`none` is locked. `draft` is the next_attempt_at an uncommitted bump has written.
`Publish`, `PublishFails` and `PublishUnconfirmed` are the three outcomes of
`publisher.publish`. `Commit` installs the whole batch, `DbError` undoes it.
`Backoff(a)` is `min(cap, initial * 2**a)`; the float product raises from
`FloatLimit` attempts on (`BumpOverflows`).

### PaymentConsumer

Queues are bags of messages (payment, x-retry-count); the delays are abstracted to
"expires eventually". A handler is idle, loading, processing, sending, retrying,
about to ack, or on one of two ways to the DLQ by dead-lettering. `seen` is the
`Payment` object it holds, so a status read before the processing and used
after it is stale in the model as in the code. `attached` says whether the
broker still counts the message as delivered to this handler: after `Detach` the
message is in `payments.new` again while the handler goes on, and its ack or nack
has no effect. `posts`, `heard` and `accepted` are what the merchant observed.
`SendFails` is a `WebhookSendError`; `SendRaises` is any other exception of `send`, which the
handler nacks: a refusal by the guard, or a host that the HTTP client cannot encode where
`WEBHOOK_ALLOW_PRIVATE_HOSTS` keeps the guard from resolving it.

### BrokerTopology

The exchanges, the arguments of every queue and the bindings are state, `job` is the
declaration of `declare_topology` that comes next. `Declare` makes it, `JobDies` stops
the job anywhere, `RunJob` starts it again, also while the services are running.
`ServicesMayRun` is docker compose's `service_completed_successfully`.
`StartConsumer` declares `payments.new` once more, from the consumer's own literal;
the broker takes a declaration only with equal arguments. `place[m]` is
where an event is. `Into` puts it into the queue that exchange and key lead to, and
into `Lost` when they lead nowhere: the broker returns a mandatory message and
aio-pika drops it, a dead letter without a route just disappears. `Expire` and
`Reject` follow the dead-letter arguments the queue has in that state.
`BrokerRestarts` keeps durable objects and persistent messages and puts back what was
not acknowledged. Publishing and marking, and republishing and acknowledging, are
one step each; the steps between them are the subject of the modules above.

### WorkerHealth

`age` is the time since the last heartbeat, `timer` the time since the loop began to
wait for what it is waiting for: the SELECT, one row after the other, the COMMIT, the
poll interval. A wait that is not stuck takes at most `QueryTime` or `RowTime`;
`Hang` makes one stuck, `Resume` lets it return late, `Fail` ends the iteration with an
exception. `EndIteration` beats the heart in every case but the last one: a stuck
wait. Both ages stop at `StaleAfter`, beyond which the probe's answer is the same.

### PaymentsSystem

`Api`, `Disp` and `Cons` are instances over disjoint variables, each step of the
system is a step of one of them, or one of the two joint steps: `CommitPayment`
(API commit = row for the dispatcher = payment for the consumer) and
`PublishEvent` (publish = message in `payments.new`).

## 3. Runs

| run | question | bounds |
|---|---|---|
| `api` | types, one payment per key, payment iff event, truthful 202, clean refusals, a retry that looks its key up finds what was booked, refinement of `IdempotentCreate`, every request answered | 3 requests, 2 keys, 4 bodies (two https URLs, an http one, one with a host that cannot be encoded) |
| `api_replay` | is a replay of an accepted request ever refused? **Yes** (finding 4) | 2 requests, 1 key, 1 body |
| `api_conflict` | is a 409 always about a different body? **No** (finding 1) | 2 requests, 1 key |
| `disp` | PUBLISHED was sent, is final, duplicates cost failures, backoff kept; refinement of `AtLeastOnce`; every row is published | 3 rows, 2 dispatchers, batch of 2 (full and partial batches), 2 failures, overflow from the first retry on |
| `disp_overflow` | is a failed publish always recorded? **No** (finding 2) | 1 row, overflow scaled from 1024 to 2 attempts |
| `cons_safety` | no event lost, webhook after commit, retries belong to processed payments, bounded requests | 2 copies of an event, 2 handlers, 1 lost connection, 1 failing call, 1 retry |
| `cons_live` | no event lost, one outcome committed and told, the event settles, queues drain | 1 copy, 2 handlers, 2 retries, 1 crash, 1 failing call |
| `cons_duplicates` | does re-reading the status make duplicates harmless? **No** (finding 3) | 2 copies, 2 handlers |
| `cons_undeclared` | is no event lost when retries outnumber the declared queues? **No** (finding 5) | 2 retries, 1 queue |
| `sys` | a durable payment is never forgotten, an event follows its payment, webhooks only for created payments, requests beyond the retries of one event have cost failures, 202 leads to acceptance or the DLQ | 1 request, 1 failure of the dispatcher, 1 crash of the consumer, 1 retry |
| `health` | does a stuck loop fail its probe, a working one never, and does the probe recover? | interval of 1 s, batch of 3, rows of up to 2 s: the longest cycle is 1 s below the window |
| `topo` | is the topology whole whenever a service runs, is nothing dropped, does every message end; refinement of `EventPath` | 2 events, the default 3 retry queues and 3 retries, 3 deaths or reruns |

Why these bounds are enough. Three requests on one key give a winner, one that loses
at the lookup and one that loses at the unique index; two keys give a request
that must not wait. `MCSpec` starts with three requests on one key or two on one key
and one on another: what begins with other keys is one of these with requests or
keys renamed, and neither the specification nor a property names a request or a key.
Bodies differ in one compared field, since the comparison treats the three fields
alike. Two dispatchers and three rows with batches of two
leave one row to the other dispatcher, and two failures cover a lost confirm
followed by a failed commit or a crash. The probe's run has the default interval and a
window that the longest cycle all but fills; `BatchSize` and the times only enter the
sum that `Tuned` compares with it. The topology's run has the program's own numbers of
queues and retries, and three deaths let a job die, be run again and the broker
restart on one path. Two copies of an event are the least
that can be handled at once; a third adds no new pair. `MaxFaults`, `MaxCrashes`,
`MaxDetaches` bound the failures; `MaxEvents` bounds what is published per payment,
and in `PaymentsSystem` equals the failures of the dispatcher plus one, which
never is the limiting guard (`JointStepsAreOpen`). `Tick` stops when no
row waits. `FloatLimit` is 1024 in the code (the largest power of two a float
holds); the runs that need the overflow scale it down.

`CHECK_DEADLOCK FALSE` stands where the system rests when all requests are
answered or all messages settled. The dispatchers poll for ever, so their runs
check deadlock.

### Fairness

- API: weak fairness of each request's own steps; the event loop resumes a
  coroutine whose await has completed. Arrivals, failures and crashes are not fair.
- Dispatcher: weak fairness of each loop (`_run_loop` catches every exception but
  cancellation and goes on) and of the clock. Failures are bounded and not fair:
  what is shown is that rows are published once failures stop.
- Consumer: weak fairness of each handler and of each TTL. A database call that
  never returns is not modelled. Nothing is assumed of the merchant: it
  may refuse every delivery, and then the DLQ is the end.
- Topology: weak fairness of the consumer's start (`restart: unless-stopped`), and for
  each event of its delivery, its handler and its TTL. Not of the declaring job, which
  docker compose does not restart, nor of the dispatcher: `EveryMessageEnds` is about
  what has been published.
- Health: weak fairness of the loop, whose awaits return unless stuck, and of time.
  That a stuck await returns is not assumed; `RecoversByItself` says what follows if it
  does.

## 4. Findings

1. `services/payment_service.py:38`: of two concurrent requests with the same key
   and the same body, the one that loses the race on the unique index is answered
   409. `README.md:119` reserves 409 for different fields, `README.md:121` promises
   202 with the original id. (A later retry of that client does get the 202.)
2. `services/outbox_service.py:50`: `initial * 2**attempts` is evaluated before
   `min`, and raises OverflowError from attempts = 1024 on. The error leaves the
   `except` block of `_process_batch`, so the batch is rolled back: the failure is
   not recorded, the outcomes of the other rows are lost and they are sent again.
   `README.md:178` says a failure is recorded and pushes the row forward.
3. `repositories/payment_repository.py:53`: the UPDATE of the outcome has no
   condition on the status, which was read before the seconds of processing. Two
   deliveries of one event at once both process the payment, and SUCCEEDED may
   become FAILED after the merchant was told otherwise. `README.md:178` claims the
   re-fetch dedups.
4. `services/payment_service.py:71`: the webhook URL is validated, and its host resolved
   anew, before the key is looked up. A replay of an accepted payment is answered 400
   while the name does not resolve or resolves to a private address, although nothing
   has to be created. `README.md:42` and `README.md:121` promise the original payment,
   and the error codes at `README.md:117-121` list no 400.
5. `consumer/main.py:53`: with `CONSUMER_MAX_RETRIES` above the three declared retry
   queues the event is published to a queue that does not exist, dropped, and
   acknowledged. `README.md:43` says exhausted retries land in the DLQ.

Three further disagreements are recorded here without a run. The first can be read off
`SendRaises`; the code the other two are about keeps no state that a model could
contradict:

- `README.md:183` counts an SSRF reject among the failures of a delivery that are
  retried up to three times. `WebhookUrlNotAllowedError` is not a `WebhookSendError`
  (`services/webhook_service.py:27`, `consumer/main.py:97`): the message is nacked and
  reaches `payments.dlq` at once, without `x-dlq-reason`.
- `README.md:45` says that all services expose `/ready` and that workers track a
  heartbeat, `README.md:165` that workers check broker connectivity and a heartbeat
  window. The dispatcher has a heartbeat and does not look at the broker; the consumer
  looks at its connection and has no heartbeat (`consumer/main.py:162` gives no window);
  neither has `/ready`.
- `OUTBOX_POLL_INTERVAL_SECONDS = 0` makes the window 0 seconds (`outbox_dispatcher/main.py:82`),
  so the probe fails for ever; and with the defaults a full batch of 100 rows that take
  90 ms each outlasts the window, while the dispatcher works. `NoFalseAlarm` is
  therefore stated under `Tuned`.

## 5. Proofs

`PaymentApiProofs` proves, for any sets of requests, keys and bodies, type
correctness (`TypeCorrect`), `OnePaymentPerKey` (`UniquePayment`),
`PaymentIffEvent` (`TransactionalOutbox`), `AcceptedIsBooked` (`TruthfulAccept`),
`RefusedLeavesNothing` (`CleanRefusal`), the safety part of
`RetryFindsPayment` (`ReplayIsSafe`: no second insert and no 409 from the lookup on) and that `Spec` implements
`IdempotentCreate` (`Refinement`). No assumption on the constants is needed.

None of the safety properties is inductive: that a commit cannot book a key
twice rests on what open transactions hold between insert and commit. The
inductive invariant `Inv` adds that a transaction has inserted exactly what its
handler's place says (`TxFollowsPlace`), that one transaction at most holds a key
(`OneHolderPerKey`: the wait on the unique index) and no row has a held key
(`HeldKeyIsFree`: the check at insert), that a row is its request's own and that
request was not refused (`RowsAreOwn`), and that a 202 is booked
as soon as it is decided (`AcceptedWillBeBooked`). `InitInv` and `InvStep` show that
it is inductive; the theorems follow. The refinement maps the committed rows to
the book, and the 202 answers that have reached a client to what was told; every
action but `Commit`, `CommitUnknown` and `Answer` is a stutter.

`OutboxDispatcherProofs` proves, for any rows, dispatchers, batch size, backoff and
number of failures (`DispatcherAssumption`), `TypeCorrect`, `NoPrematurePublished`
(`PublishedWasSent`), `DuplicatesArePaid` (`DuplicatesNeedFaults`), `PublishedStays`
(`PublishedIsFinal`), `BackoffIsKept` (`NeverBeforeDue`) and `Refinement`
(`AtLeastOnce`). Its invariant adds the row locks (`Exclusive`: two batches share no
row), what they protect (`BatchIsDue`: a row in a batch is still PENDING and due),
and an account of the messages: one message of a row is free as long as the row
is marked or PUBLISHED (`OneMessageFree`), every other one has cost a failure, and
a failed publish has paid for its whole batch (`FailedBatchIsPaid`). The last
part is needed because of the overflow: it rolls back a batch, with rows that are
sent and marked, without a failure of its own. `RowFrame` says which
steps change a row and its message count; both action properties rest on it. The
refinement maps a commit to one `Settle` of the rows that the batch has marked.

`BrokerTopologyProofs` proves, for any events, number of retry queues, retries and
failures (`TopologyAssumption`: no more retries than retry queues), `TypeCorrect`,
`TopologyStands` (`TopologyWhole`), `NothingDropped` (`NothingIsDropped`) and
`KeepsPath` (`Refinement`). That the topology is whole is not inductive, since a job
builds it one declaration after another and may be run again. The invariant says
what exists when declaration `j` is the next (`Made(j)`), and that this is the case
for the job's place and, once a job has completed, for the end (`JobProgress`); that
no object exists which the code does not declare (`OnlyOurs`, so a redeclaration is
never refused); and that no message is under way before the job has completed
(`ServicesWait`, from `depends_on`). From `Whole` and `Routes` every publish and every
dead letter has exactly one route; `EventMoves` then lists the six moves an event can
make, from which both `NothingDropped` and the refinement follow. A restart of the
broker or of the consumer maps to `TakeBack`.

`PaymentConsumerProofs` proves, for any payments, handlers (`CONSUMER_PREFETCH_COUNT`,
finite), retries, crashes, lost connections and failing calls (`ConsumerAssumption`),
`TypeOK` (`TypeCorrect`), `WebhookAfterCommit` (`WebhooksFollowCommits`),
`RetriedIsProcessed` (`RetriesDoNotProcess`) and, if `MaxRetries <= RetryQueues`,
`NoEventLost` (`NoEventIsLost`); finding 5 is what happens without that condition.
`Inv` adds what a handler may rely on at its place (`HandlerKnows`: one that sends or
retries has a final snapshot of a payment that is final) and what a retry count means
while a handler holds the message (`RetryIsProcessed`). `NoEventLost` is not inductive,
since a handler that is about to acknowledge still carries its event:
`EventHeld` counts only those that are not yet done with it, and for those the
acknowledgement is preceded by an accepted webhook, a republish or a dead letter.

`WebhookBudgetProofs` proves `PostsBounded` (`RequestsAreBounded`) without a condition.
The invariant is an account: a message is worth the requests that may still come of it,
`MaxRetries + 1` less its retry count, a handler what its message is worth until it has
posted, and what has been posted, waits in queues and is in handlers is together at most
`MaxRetries + 1` for each message published or put back (`Budget`). A handler that
outlives its connection keeps its worth while its message is put back, which is why
`again` is on the right side. A sum over queues and over handlers is the cardinality of a `Chart`,
for which `ChangeColumn` and `GrowColumns` say how it changes: in one place, or, when
the broker puts messages back, in many at once.

`SingleEventProofs` proves `OutcomeIsFinal` (`OutcomesStay`) and `OneOutcomeTold`
(`MerchantHearsOneOutcome`) if each event is published once and the connection to the
broker is kept (`MaxEvents <= 1`, `MaxDetaches = 0`), for any number of crashes and
failing calls. These are the conditions under which the code keeps what `README.md:191`
tells merchants; finding 3 shows it break for a second copy, and a connection that is lost while a
handler runs makes such a copy too. `SingleInv` says that a payment without an
outcome has one message in one place (`OneCopy`), so what a handler has read is still
true when it writes (`SnapshotIsFresh`).

`WorkerHealthProofs` proves, for any interval, batch size and durations
(`HealthAssumption`), `TypeCorrect`, `StuckLoopFailsProbe` (`StuckLoopIsReported`) and
`NoFalseAlarm` (`WorkingLoopIsHealthy`). Its invariant bounds the age of the last beat by the
way from there to the loop's place (`OnTime`), row by row.

`PaymentsSystemProofs` takes the modules above as instances. Every step of the system is a
step of each service or leaves it alone (`ServicesKeepTheirSpecifications`: `Spec` implies
`Api!Spec`, `Disp!Spec` and `Cons!Spec`), so each invariant above holds in the system.
The converse matters as well, since a composition that withholds steps would prove too
much: in every reachable state the other side of a joint step is ready for it, and the bound on
events never stops a publish (`JointStepsAreOpen`).
What they do not say is how the services agree, and `Links` does: a payment, its outbox
row and what the consumer can read of it appear in one commit (`CreatedTogether`), the
queue got what the broker took (`TakenIsQueued`), and that was of a durable payment
(`TakenWasCreated`). From both follow `EventFollowsPayment` (`EventsFollowPayments`),
`WebhookOnlyForCreated` (`WebhooksAreForCreated`), `PaymentNeverForgotten`
(`PaymentsAreNotForgotten`, if every retry has a queue), `RequestsArePaid`
(`RequestsOfPayment`, from `PostsBounded` and `DuplicatesNeedFaults`), and `OneOutcomeOfPayment`: where
dispatchers do not fail and the consumer keeps its connection, a payment gets one outcome and the
merchant is told no other. A dispatcher's failure is what it takes to publish an event
twice (`DuplicatesNeedFaults`), so here the condition on `MaxEvents` is one on failures. `SystemAssumption`
repeats the assumptions of the parts for the values they are instantiated with.

## 6. Only model-checked

Liveness (`EveryRequestAnswered`, `RetryFindsPayment`, `EveryEventPublished`, `EveryEventSettles`,
`QueuesDrain`, `AcceptedIsSettled`, `EveryMessageEnds`, `RecoversByItself`) is outside
the prover's reach. Every invariant and every action property that a passing run checks is
also proved, those named above under their conditions. `FailureIsRecorded`,
`ConflictMeansDifferentBody` and `ReplayIsNotRefused` are refuted by runs and not proved under
a condition.

A lost broker connection is in the safety run of the
consumer only, a crash in the liveness run; the theorems are about both at once.
`OutcomeIsFinal` and `OneOutcomeTold` are checked for one copy of an event; finding 3
shows them fail for two.

## 7. Not modelled

- GET endpoints and `/ready` (they change nothing), the webhook signature (an HMAC),
  configuration and dependency injection: no state of their own. What the
  configuration sets is a CONSTANT.
- `alembic` itself; the constraints its migration creates are in `PaymentApi`.
- The lengths of retry TTLs and of the HTTP timeout. Clocks are in `OutboxDispatcher`
  (backoff) and `WorkerHealth` (probe), in whole seconds.
- The consumer's liveness check: it asks the broker client for its connection.
- `DEBUG=1`, with which Starlette answers 500 to every exception that only the handler
  of `Exception` catches (`main.py:43`); the model has the default, `DEBUG=0`.
- Queue limits, loss of the broker's disk, the limit of the database pool.
- Two versions of the code side by side: a release that changes a TTL or another queue
  argument is refused by the broker until the queue is deleted.

## 8. Plan

A specification of a payment's life as the API's client and the merchant see it
(accepted, outcome, told or dead-lettered), and a proof that `PaymentsSystem` implements it.
