-------------------------- MODULE OutboxDispatcher --------------------------
(***************************************************************************)
(* The outbox table and the dispatcher processes that poll it.  A batch is *)
(* one database transaction: it locks due rows (FOR UPDATE SKIP LOCKED),   *)
(* publishes them one after the other, writes each row's outcome, and      *)
(* commits all outcomes together.  A row is named by its payment: there is *)
(* one outbox row per payment.                                             *)
(***************************************************************************)
EXTENDS Integers, FiniteSets

CONSTANTS Payment,     \* payments, each with one outbox row
          Dispatcher,  \* dispatcher processes
          BatchSize,   \* OUTBOX_BATCH_SIZE
          Initial,     \* OUTBOX_BACKOFF_INITIAL_SECONDS
          Cap,         \* OUTBOX_BACKOFF_MAX_SECONDS
          FloatLimit,  \* least n for which the float product with 2**n overflows (1024)
          MaxFaults    \* bound: failures of broker, database and processes

ASSUME DispatcherAssumption ==
  /\ BatchSize \in Nat \ {0}
  /\ Initial \in Nat \ {0}
  /\ Cap \in Nat \ {0}
  /\ FloatLimit \in Nat
  /\ MaxFaults \in Nat

VARIABLES status,    \* status of the committed row, "absent" before it exists
          attempts,  \* its attempts column
          nextAt,    \* its next_attempt_at column
          draft,     \* next_attempt_at written by an uncommitted bump
          now,       \* the clock, in seconds
          disp,      \* where each dispatcher's loop is
          work,      \* work[d][p]: what d's open batch has done with row p
          sent,      \* how often the broker has accepted p's message
          faults     \* failures so far

vars == <<status, attempts, nextAt, draft, now, disp, work, sent, faults>>
row == <<status, attempts, nextAt>>

Status == {"absent", "PENDING", "PUBLISHED"}

\* "none": not in the batch, hence not locked by it.  "sent": publish has
\* returned; "failed": publish has raised; then the outcome is written.
Stage == {"none", "todo", "sent", "failed", "marked", "bumped"}

NoBatch == [p \in Payment |-> "none"]

Init ==
  /\ status = [p \in Payment |-> "absent"]
  /\ attempts = [p \in Payment |-> 0]
  /\ nextAt = [p \in Payment |-> 0]
  /\ draft = [p \in Payment |-> 0]
  /\ now = 0
  /\ disp = [d \in Dispatcher |-> "idle"]
  /\ work = [d \in Dispatcher |-> NoBatch]
  /\ sent = [p \in Payment |-> 0]
  /\ faults = 0

-----------------------------------------------------------------------------

Batch(d) == {p \in Payment : work[d][p] # "none"}

Todo(d) == {p \in Payment : work[d][p] = "todo"}

\* Mutant of Locked: the SELECT takes no row locks.
LockedNever == {}

Locked == UNION {Batch(d) : d \in Dispatcher}

\* Mutants of Due: the query forgets the status, or next_attempt_at.
DueWhateverStatus == {p \in Payment : status[p] # "absent" /\ nextAt[p] <= now}

DueAtOnce == {p \in Payment : status[p] = "PENDING"}

Due == {p \in Payment : status[p] = "PENDING" /\ nextAt[p] <= now}

Smaller(a, b) == IF a < b THEN a ELSE b

\* _compute_backoff_seconds: min(cap, initial * 2**attempts).
Backoff(a) == Smaller(Cap, Initial * 2^a)

Fault ==
  /\ faults < MaxFaults
  /\ faults' = faults + 1

SetWork(d, p, stage) == work' = [work EXCEPT ![d][p] = stage]

\* The transaction of d ends and its loop continues at place.
Leave(d, place) ==
  /\ work' = [work EXCEPT ![d] = NoBatch]
  /\ disp' = [disp EXCEPT ![d] = place]

\* The API commits a payment and, with it, its outbox row.
Enqueue(p) ==
  /\ status[p] = "absent"
  /\ status' = [status EXCEPT ![p] = "PENDING"]
  /\ nextAt' = [nextAt EXCEPT ![p] = now]
  /\ UNCHANGED <<attempts, draft, now, disp, work, sent, faults>>

\* fetch_pending: the due rows no other transaction has locked, in the order
\* of next_attempt_at, at most BatchSize of them.  (created_at, which orders
\* rows of one next_attempt_at, is left open.)
Fetch(d) ==
  /\ disp[d] = "idle"
  /\ \E B \in SUBSET (Due \ Locked) :
       /\ Cardinality(B) = Smaller(BatchSize, Cardinality(Due \ Locked))
       /\ \A p \in B, q \in (Due \ Locked) \ B : nextAt[p] <= nextAt[q]
       /\ work' = [work EXCEPT ![d] =
                     [p \in Payment |-> IF p \in B THEN "todo" ELSE "none"]]
  /\ disp' = [disp EXCEPT ![d] = "batch"]
  /\ UNCHANGED <<row, draft, now, sent, faults>>

\* Row p is the one the loop over the fetched rows has reached.
AtRow(d, p) ==
  /\ p \in Todo(d)
  /\ \A q \in Todo(d) : nextAt[p] <= nextAt[q]
  /\ \A q \in Payment : work[d][q] \notin {"sent", "failed"}

\* publisher.publish returns: the broker has confirmed the message.
Publish(d, p) ==
  /\ AtRow(d, p)
  /\ SetWork(d, p, "sent")
  /\ sent' = [sent EXCEPT ![p] = @ + 1]
  /\ UNCHANGED <<row, draft, now, disp, faults>>

\* publish raises, and the message is lost.
PublishFails(d, p) ==
  /\ AtRow(d, p)
  /\ Fault
  /\ SetWork(d, p, "failed")
  /\ UNCHANGED <<row, draft, now, disp, sent>>

\* publish raises although the broker has accepted the message: the
\* connection broke before the confirm arrived.
PublishUnconfirmed(d, p) ==
  /\ AtRow(d, p)
  /\ Fault
  /\ SetWork(d, p, "failed")
  /\ sent' = [sent EXCEPT ![p] = @ + 1]
  /\ UNCHANGED <<row, draft, now, disp>>

\* Mutant of Mark: the row is marked before the message is published.
MarkFirst(d, p) ==
  /\ work[d][p] \in {"todo", "sent"}
  /\ SetWork(d, p, "marked")
  /\ UNCHANGED <<row, draft, now, disp, sent, faults>>

\* mark_published, inside the transaction.
Mark(d, p) ==
  /\ work[d][p] = "sent"
  /\ SetWork(d, p, "marked")
  /\ UNCHANGED <<row, draft, now, disp, sent, faults>>

\* bump_attempt, inside the transaction.
Bump(d, p) ==
  /\ work[d][p] = "failed"
  /\ attempts[p] < FloatLimit
  /\ draft' = [draft EXCEPT ![p] = now + Backoff(attempts[p])]
  /\ SetWork(d, p, "bumped")
  /\ UNCHANGED <<row, now, disp, sent, faults>>

\* initial * 2**attempts raises OverflowError before min() is taken.  The
\* error leaves the except block, so the whole batch is rolled back.
BumpOverflows(d, p) ==
  /\ work[d][p] = "failed"
  /\ attempts[p] >= FloatLimit
  /\ Leave(d, "sleep")
  /\ UNCHANGED <<row, draft, now, sent, faults>>

\* Every fetched row has its outcome.
BatchDone(d) ==
  disp[d] = "batch" /\ \A p \in Batch(d) : work[d][p] \in {"marked", "bumped"}

\* Mutant of Install: the whole batch is set to PUBLISHED.
InstallWholeBatch(d) ==
  /\ status' = [p \in Payment |-> IF p \in Batch(d) THEN "PUBLISHED" ELSE status[p]]
  /\ UNCHANGED <<attempts, nextAt>>

\* The rows as the commit of d's transaction leaves them.
Install(d) ==
  /\ status' = [p \in Payment |->
       IF work[d][p] = "marked" THEN "PUBLISHED" ELSE status[p]]
  /\ attempts' = [p \in Payment |->
       IF work[d][p] = "bumped" THEN attempts[p] + 1 ELSE attempts[p]]
  /\ nextAt' = [p \in Payment |->
       IF work[d][p] = "bumped" THEN draft[p] ELSE nextAt[p]]

\* session.commit(); the loop sleeps unless the batch was full.
Commit(d) ==
  /\ BatchDone(d)
  /\ Install(d)
  /\ Leave(d, IF Cardinality(Batch(d)) < BatchSize THEN "sleep" ELSE "idle")
  /\ UNCHANGED <<draft, now, sent, faults>>

\* The commit took effect, but the loop sees an error.
CommitUnknown(d) ==
  /\ BatchDone(d)
  /\ Fault
  /\ Install(d)
  /\ Leave(d, "sleep")
  /\ UNCHANGED <<draft, now, sent>>

\* Mutant of DbError: _run_loop does not catch, and its task ends.
DbErrorEndsLoop(d) ==
  /\ disp[d] = "batch"
  /\ Fault
  /\ Leave(d, "ended")
  /\ UNCHANGED <<row, draft, now, sent>>

\* A statement or the commit fails.  An error of mark_published is caught and
\* answered with bump_attempt, which fails too in the aborted transaction:
\* either way the iteration ends in _run_loop's except, and all is undone.
DbError(d) ==
  /\ disp[d] = "batch"
  /\ Fault
  /\ Leave(d, "sleep")
  /\ UNCHANGED <<row, draft, now, sent>>

\* The process dies or is shut down (CancelledError) and a new one starts.
Crash(d) ==
  /\ disp[d] # "idle"
  /\ Fault
  /\ Leave(d, "idle")
  /\ UNCHANGED <<row, draft, now, sent>>

\* The poll interval is over.
Wake(d) ==
  /\ disp[d] = "sleep"
  /\ disp' = [disp EXCEPT ![d] = "idle"]
  /\ UNCHANGED <<row, draft, now, work, sent, faults>>

\* Time passes while some row waits for its next attempt (bound: the clock
\* stands still otherwise, when nothing depends on it).
Tick ==
  /\ \E p \in Payment : status[p] = "PENDING" /\ nextAt[p] > now
  /\ now' = now + 1
  /\ UNCHANGED <<row, draft, disp, work, sent, faults>>

Loop(d) ==
  \/ Fetch(d) \/ Commit(d) \/ Wake(d)
  \/ \E p \in Payment : Publish(d, p) \/ Mark(d, p) \/ Bump(d, p) \/ BumpOverflows(d, p)

Failure(d) ==
  \/ CommitUnknown(d) \/ DbError(d) \/ Crash(d)
  \/ \E p \in Payment : PublishFails(d, p) \/ PublishUnconfirmed(d, p)

Next ==
  \/ \E p \in Payment : Enqueue(p)
  \/ \E d \in Dispatcher : Loop(d) \/ Failure(d)
  \/ Tick

Spec == Init /\ [][Next]_vars

\* Each dispatcher's loop keeps running and the clock keeps going; failures
\* are not fair, and MaxFaults of them is all there are.
Fairness ==
  /\ \A d \in Dispatcher : WF_vars(Loop(d))
  /\ WF_vars(Tick)

FairSpec == Spec /\ Fairness

-----------------------------------------------------------------------------

TypeOK ==
  /\ status \in [Payment -> Status]
  /\ attempts \in [Payment -> Nat]
  /\ nextAt \in [Payment -> Int]
  /\ draft \in [Payment -> Int]
  /\ now \in Nat
  /\ disp \in [Dispatcher -> {"idle", "batch", "sleep"}]
  /\ work \in [Dispatcher -> [Payment -> Stage]]
  /\ sent \in [Payment -> Nat]
  /\ faults \in 0..MaxFaults

\* Outbox rows are never lost to a premature PUBLISHED: the status says that
\* the broker has accepted the message, whatever failed in between.
PublishedWasSent ==
  \A p \in Payment : status[p] = "PUBLISHED" => sent[p] > 0

\* Several dispatchers on one table do not multiply messages: each message
\* beyond the first is paid for by a failure.
DuplicatesNeedFaults ==
  \A p \in Payment : sent[p] <= 1 + faults

\* No row is sent before its next_attempt_at.  The batch reads that column
\* when it fetches; that it still holds when the row's turn comes is owed to
\* the row lock, since another dispatcher's failure would move it.
NeverBeforeDue ==
  [][\A p \in Payment : sent'[p] > sent[p] => nextAt[p] <= now]_vars

\* A row that the database says is PUBLISHED is never sent again, although
\* the dispatcher works on rows it has read earlier.
PublishedIsFinal ==
  [][\A p \in Payment : status[p] = "PUBLISHED" =>
       status'[p] = "PUBLISHED" /\ sent'[p] = sent[p]]_vars

\* README.md:178: a failed publish bumps attempts and pushes the row's next
\* attempt forward; only a database or process failure may lose the record.
FailureIsRecorded ==
  [][\A d \in Dispatcher, p \in Payment :
       work[d][p] = "failed" /\ work'[d][p] # "failed" =>
         work'[d][p] = "bumped" \/ faults' > faults]_vars

\* Every registered event reaches the broker and is settled.
EveryEventPublished ==
  \A p \in Payment : status[p] = "PENDING" ~> status[p] = "PUBLISHED"

Promise == INSTANCE AtLeastOnce

\* Batches, locks, retries and crashes implement at-least-once hand-over.
KeepsPromise == Promise!ASpec
=============================================================================
