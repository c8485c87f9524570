----------------------------- MODULE PaymentApi -----------------------------
(***************************************************************************)
(* POST /api/v1/payments: concurrent API requests, each in its own         *)
(* PostgreSQL transaction (READ COMMITTED), create a payment and its       *)
(* outbox row or replay the payment an Idempotency-Key already created.    *)
(*                                                                         *)
(* A payment is named by the request that inserted it; the outbox row that *)
(* create_payment enqueues carries the same name in its aggregate_id.      *)
(* Bodies are those the schema accepts (a request with another one is      *)
(* answered at once), so amount > 0 and ck_payment_amount_positive holds.  *)
(***************************************************************************)
EXTENDS ApiErrors, SsrfGuard

CONSTANTS Request,   \* requests received by the API
          Key,       \* values of the Idempotency-Key header
          Amount, Currency, Url,  \* the payment's fields a replay is compared on
          UrlKind    \* UrlKind[u]: what the SSRF guard's verdict on u depends on

ASSUME ApiAssumption == UrlKind \in [Url -> Kind]

\* What a replay has to repeat: the body without description and meta.
Body == [amount: Amount, currency: Currency, webhook_url: Url]

Row == [id: Request, key: Key, body: Body]

Code == {202, 400, 401, 409, 422, 500}

VARIABLES payments,  \* committed rows of the payment table
          outbox,    \* aggregate_id of the committed rows of the outbox table
          pc,        \* where each request is
          key,       \* its Idempotency-Key (Key once received)
          body,      \* its body
          tx,        \* the rows its open transaction has inserted
          code,      \* the HTTP status it will answer, or has answered
          ref        \* the payment_id of its 202

vars == <<payments, outbox, pc, key, body, tx, code, ref>>

\* "lost" is a request whose process or connection died before the answer.
Place == {"new", "validate", "lookup", "insert", "enqueue", "commit",
          "answer", "done", "lost"}

Working == {"validate", "lookup", "insert", "enqueue", "commit"}

Init ==
  /\ payments = {}
  /\ outbox = {}
  /\ pc = [r \in Request |-> "new"]
  /\ key \in [Request -> Key]
  /\ body \in [Request -> Body]
  /\ tx = [r \in Request |-> {}]
  /\ code = [r \in Request |-> 500]
  /\ ref = [r \in Request |-> r]

-----------------------------------------------------------------------------

\* Mutant of Finish: the session goes back to its pool without a rollback.
FinishWithoutRollback(r, c, id) ==
  /\ pc' = [pc EXCEPT ![r] = "answer"]
  /\ code' = [code EXCEPT ![r] = c]
  /\ ref' = [ref EXCEPT ![r] = id]
  /\ UNCHANGED tx

\* The request leaves its handler with status c; closing the session rolls
\* back what its transaction has not committed.
Finish(r, c, id) ==
  /\ pc' = [pc EXCEPT ![r] = "answer"]
  /\ code' = [code EXCEPT ![r] = c]
  /\ ref' = [ref EXCEPT ![r] = id]
  /\ tx' = [tx EXCEPT ![r] = {}]

\* An exception ends the handler; register_error_handler picks the status.
Fail(r, e) == Finish(r, StatusOf(e), r)

Goto(r, place) ==
  /\ pc' = [pc EXCEPT ![r] = place]
  /\ UNCHANGED <<code, ref>>

\* The row that request r inserts.
NewRow(r) == [id |-> r, key |-> key[r], body |-> body[r]]

RowsOf(k) == {p \in payments : p.key = k}

\* Mutant of Matches: webhook_url is not compared.
MatchesWithoutUrl(row, b) ==
  row.body.amount = b.amount /\ row.body.currency = b.currency

\* _ensure_idempotent_match: the fields whose difference is a conflict.
Matches(row, b) ==
  /\ row.body.amount = b.amount
  /\ row.body.currency = b.currency
  /\ row.body.webhook_url = b.webhook_url

\* uq_payment_idempotency_key: an insert waits for a transaction that has
\* inserted the same key and has neither committed nor rolled back.
HeldByOther(r) ==
  \E q \in Request \ {r} : "payment" \in tx[q] /\ key[q] = key[r]

\* The middleware and the schema let the request through to create_payment.
Receive(r) ==
  /\ pc[r] = "new"
  /\ Goto(r, "validate")
  /\ UNCHANGED <<payments, outbox, key, body, tx>>

\* The middleware or the schema turn the request away.
Reject(r) ==
  /\ pc[r] = "new"
  /\ \E e \in {"MissingAPIKeyError", "InvalidAPIKeyError", "RequestValidationError"} : Fail(r, e)
  /\ UNCHANGED <<payments, outbox, key, body>>

\* ssrf_guard.validate_url resolves the host name at this moment: the same
\* URL may pass now and be refused (or fail to resolve) another time.
ValidateUrl(r) ==
  /\ pc[r] = "validate"
  /\ \E v \in Verdicts[UrlKind[body[r].webhook_url]] :
       \/ v = "allowed" /\ Goto(r, "lookup") /\ UNCHANGED tx
       \/ v = "UnicodeError" /\ Fail(r, v)
       \/ v \in Refusal /\ Fail(r, "WebhookUrlNotAllowedError")
  /\ UNCHANGED <<payments, outbox, key, body>>

\* Mutant of Lookup: a replay is answered with an id of its own.
LookupWithNewId(r) ==
  /\ pc[r] = "lookup"
  /\ \/ RowsOf(key[r]) = {} /\ Goto(r, "insert") /\ UNCHANGED tx
     \/ \E row \in RowsOf(key[r]) :
          Finish(r, IF Matches(row, body[r]) THEN 202 ELSE 409, r)
  /\ UNCHANGED <<payments, outbox, key, body>>

\* Mutant of Lookup: it asks a replica, which may not have the row yet.
LookupOnReplica(r) ==
  /\ pc[r] = "lookup"
  /\ \/ Goto(r, "insert") /\ UNCHANGED tx
     \/ \E row \in RowsOf(key[r]) :
          Finish(r, IF Matches(row, body[r]) THEN 202 ELSE 409, row.id)
  /\ UNCHANGED <<payments, outbox, key, body>>

\* get_by_idempotency_key sees committed rows only.
Lookup(r) ==
  /\ pc[r] = "lookup"
  /\ \/ /\ RowsOf(key[r]) = {}
        /\ Goto(r, "insert")
        /\ UNCHANGED tx
     \/ \E row \in RowsOf(key[r]) :
          IF Matches(row, body[r]) THEN Finish(r, 202, row.id)
                                   ELSE Fail(r, "IdempotencyKeyConflictError")
  /\ UNCHANGED <<payments, outbox, key, body>>

\* Mutant of Insert: the table has no unique constraint.
InsertUnchecked(r) ==
  /\ pc[r] = "insert"
  /\ tx' = [tx EXCEPT ![r] = @ \cup {"payment"}]
  /\ Goto(r, "enqueue")
  /\ UNCHANGED <<payments, outbox, key, body>>

\* INSERT INTO payment, within the request's transaction.
Insert(r) ==
  /\ pc[r] = "insert"
  /\ ~HeldByOther(r)
  /\ RowsOf(key[r]) = {}
  /\ tx' = [tx EXCEPT ![r] = @ \cup {"payment"}]
  /\ Goto(r, "enqueue")
  /\ UNCHANGED <<payments, outbox, key, body>>

\* The INSERT violates uq_payment_idempotency_key, since another request has
\* committed the key after this one's lookup.  handle_payment_integrity
\* answers with IdempotencyKeyConflictError, whatever that row's fields.
InsertConflict(r) ==
  /\ pc[r] = "insert"
  /\ ~HeldByOther(r)
  /\ RowsOf(key[r]) # {}
  /\ Fail(r, "IdempotencyKeyConflictError")
  /\ UNCHANGED <<payments, outbox, key, body>>

\* Mutant of Enqueue: the outbox row is committed by a session of its own.
EnqueueAutocommit(r) ==
  /\ pc[r] = "enqueue"
  /\ outbox' = outbox \cup {r}
  /\ Goto(r, "commit")
  /\ UNCHANGED <<payments, key, body, tx>>

\* INSERT INTO outbox in the same transaction, then flush.
Enqueue(r) ==
  /\ pc[r] = "enqueue"
  /\ tx' = [tx EXCEPT ![r] = @ \cup {"outbox"}]
  /\ Goto(r, "commit")
  /\ UNCHANGED <<payments, outbox, key, body>>

\* What COMMIT makes durable is what the transaction has inserted.
Install(r) ==
  /\ payments' = payments \cup {p \in {NewRow(r)} : "payment" \in tx[r]}
  /\ outbox' = outbox \cup {i \in {r} : "outbox" \in tx[r]}

\* Mutant of Commit: the URL is checked once more after the commit.
CommitThenValidate(r) ==
  /\ pc[r] = "commit"
  /\ Install(r)
  /\ \E c \in {202, 400} : Finish(r, c, r)
  /\ UNCHANGED <<key, body>>

Commit(r) ==
  /\ pc[r] = "commit"
  /\ Install(r)
  /\ Finish(r, 202, r)
  /\ UNCHANGED <<key, body>>

\* COMMIT took effect but its answer did not come back: the handler sees an
\* error and the client a 500, for a payment that exists.
CommitUnknown(r) ==
  /\ pc[r] = "commit"
  /\ Install(r)
  /\ Finish(r, 500, r)
  /\ UNCHANGED <<key, body>>

\* A statement fails (connection, timeout, another integrity error): 500,
\* rolled back.
DbError(r) ==
  /\ pc[r] \in {"lookup", "insert", "enqueue", "commit"}
  /\ Fail(r, "UnhandledIntegrityError")
  /\ UNCHANGED <<payments, outbox, key, body>>

\* The response reaches the client.
Answer(r) ==
  /\ pc[r] = "answer"
  /\ Goto(r, "done")
  /\ UNCHANGED <<payments, outbox, key, body, tx>>

\* The process or the client's connection dies: PostgreSQL rolls the open
\* transaction back, and the client never learns the outcome.
Crash(r) ==
  /\ pc[r] \in Working \cup {"answer"}
  /\ pc' = [pc EXCEPT ![r] = "lost"]
  /\ code' = [code EXCEPT ![r] = 500]
  /\ ref' = [ref EXCEPT ![r] = r]
  /\ tx' = [tx EXCEPT ![r] = {}]
  /\ UNCHANGED <<payments, outbox, key, body>>

Step(r) ==
  \/ Receive(r) \/ Reject(r) \/ ValidateUrl(r) \/ Lookup(r) \/ Insert(r) \/ InsertConflict(r)
  \/ Enqueue(r) \/ Commit(r) \/ Answer(r)

Next ==
  \E r \in Request : Step(r) \/ CommitUnknown(r) \/ DbError(r) \/ Crash(r)

Spec == Init /\ [][Next]_vars

\* The event loop resumes every request whose await has completed; a request
\* that waits for the unique index resumes when the other transaction ends.
Fairness ==
  \A r \in Request :
    WF_vars(ValidateUrl(r) \/ Lookup(r) \/ Insert(r) \/ InsertConflict(r)
            \/ Enqueue(r) \/ Commit(r) \/ Answer(r))

FairSpec == Spec /\ Fairness

-----------------------------------------------------------------------------

TypeOK ==
  /\ payments \subseteq Row
  /\ outbox \subseteq Request
  /\ pc \in [Request -> Place]
  /\ key \in [Request -> Key]
  /\ body \in [Request -> Body]
  /\ tx \in [Request -> SUBSET {"payment", "outbox"}]
  /\ code \in [Request -> Code]
  /\ ref \in [Request -> Request]

\* Of any number of concurrent requests with one Idempotency-Key at most one
\* creates a payment (lookup and insert are separate statements; only the
\* wait on the unique index and the check at insert close the gap).
OnePaymentPerKey ==
  \A p, q \in payments : p.key = q.key => p = q

\* The transactional outbox: a payment exists exactly when its event is
\* registered for publication, also after crashes and failed commits.
PaymentIffEvent ==
  outbox = {p.id : p \in payments}

\* Whatever 202 tells the client is durable and is what the client asked
\* for: the payment exists, under the request's key, with the request's
\* fields.  In particular every 202 for a key names the same payment.
AcceptedIsBooked ==
  \A r \in Request :
    pc[r] = "done" /\ code[r] = 202 =>
      [id |-> ref[r], key |-> key[r], body |-> body[r]] \in payments

\* A request that is refused with a 4xx has left nothing behind: neither its
\* own payment nor an event (the failed insert is rolled back).
RefusedLeavesNothing ==
  \A r \in Request :
    pc[r] \in {"answer", "done"} /\ code[r] \in {400, 401, 409, 422} =>
      r \notin outbox /\ \A p \in payments : p.id # r

\* A retry finds what an earlier request has booked, also when that one was
\* told 500 or nothing (an unknown commit, a crash after it): from the lookup
\* on it is answered with that payment's id, unless a statement fails or its
\* process dies.  Before the lookup it may be refused (ReplayIsNotRefused).
RetryFindsPayment ==
  \A r \in Request :
    (pc[r] = "lookup" /\ \E p \in RowsOf(key[r]) : Matches(p, body[r])) ~>
      \/ pc[r] = "done" /\ code[r] = 202 /\ ref[r] \in {p.id : p \in RowsOf(key[r])}
      \/ pc[r] = "done" /\ code[r] = 500
      \/ pc[r] = "lost"

\* Every request that is received is answered, unless its process dies: the
\* wait on the unique index cannot turn into a wait for ever.
EveryRequestAnswered ==
  \A r \in Request : pc[r] = "validate" ~> pc[r] \in {"done", "lost"}

\* The API implements the abstract service: its statements, locks, failures
\* and crashes add up to atomic creations and truthful answers.
ToldTo(r) == IF pc[r] = "done" /\ code[r] = 202 THEN {ref[r]} ELSE {}

Told == [r \in Request |-> ToldTo(r)]

Promise == INSTANCE IdempotentCreate WITH
  book <- payments, events <- outbox, told <- Told

KeepsPromise == Promise!ASpec

\* README.md:119 and the error's own message: 409 means that the key was used
\* with a different amount, currency or webhook_url.
ConflictMeansDifferentBody ==
  \A r \in Request :
    pc[r] = "done" /\ code[r] = 409 =>
      \A p \in RowsOf(key[r]) : p.body # body[r]

\* README.md:121: a request that repeats the key, amount, currency and
\* webhook_url of one that was answered 202 gets the original payment_id; it
\* is not refused (README.md:117-121 lists no 400 at all).
ReplayIsNotRefused ==
  [][\A q, r \in Request :
       /\ pc[q] = "done" /\ code[q] = 202
       /\ pc[r] \in {"validate", "lookup"} /\ key[r] = key[q] /\ body[r] = body[q]
       /\ pc'[r] = "answer"
       => code'[r] \notin {400, 401, 409, 422}]_vars
=============================================================================
