----------------------- MODULE OutboxDispatcherProofs -----------------------
(***************************************************************************)
(* Proofs about OutboxDispatcher, for any rows, dispatchers, batch size,   *)
(* backoff and number of failures.                                         *)
(*                                                                         *)
(* Inv adds to the properties what the row locks and the batch guarantee:  *)
(* a row is in one batch at most, a row in a batch is due and PENDING, and *)
(* each message a row has cost beyond the first is paid for by a failure,  *)
(* also while the outcome is in an open transaction.                       *)
(***************************************************************************)
EXTENDS OutboxDispatcher, TLAPS

\* FOR UPDATE SKIP LOCKED: two batches share no row.
Exclusive ==
  \A d, e \in Dispatcher, p \in Payment :
    work[d][p] # "none" /\ work[e][p] # "none" => d = e

\* A locked row is as its batch has read it: PENDING and due.
BatchIsDue ==
  \A d \in Dispatcher, p \in Payment :
    work[d][p] # "none" => status[p] = "PENDING" /\ nextAt[p] <= now /\ disp[d] = "batch"

\* A row is marked only after its message was accepted.
MarkedWasSent ==
  \A d \in Dispatcher, p \in Payment :
    work[d][p] \in {"sent", "marked"} => sent[p] > 0

\* The one message that no failure has paid for belongs to a row that is
\* PUBLISHED, or will be if its batch commits.
OneMessageFree ==
  \A p \in Payment :
    status[p] # "PUBLISHED" /\ (\A d \in Dispatcher : work[d][p] \notin {"sent", "marked"})
      => sent[p] <= faults

\* A failed publish pays for all of its batch, which a backoff that overflows
\* will undo without another failure.
FailedBatchIsPaid ==
  \A d \in Dispatcher, p, q \in Payment :
    work[d][p] = "failed" /\ work[d][q] # "none" => sent[q] <= faults

Inv ==
  /\ TypeOK
  /\ Exclusive
  /\ BatchIsDue
  /\ MarkedWasSent
  /\ PublishedWasSent
  /\ DuplicatesNeedFaults
  /\ OneMessageFree
  /\ FailedBatchIsPaid

-----------------------------------------------------------------------------

\* An outbox without rows satisfies the invariant.
LEMMA InitInv == Init => Inv
  BY DispatcherAssumption
  DEF Init, Inv, TypeOK, Exclusive, BatchIsDue, MarkedWasSent, PublishedWasSent,
      DuplicatesNeedFaults, OneMessageFree, FailedBatchIsPaid, NoBatch, Status, Stage

\* The backoff is an integer, also where it reaches the cap.
LEMMA BackoffType == ASSUME NEW a \in Nat PROVE Backoff(a) \in Int
  <1>1. 2^a \in Int
    BY Z3
  <1>2. Initial * 2^a \in Int
    BY <1>1, DispatcherAssumption
  <1> QED
    BY <1>2, DispatcherAssumption DEF Backoff, Smaller

\* Every step of a dispatcher, the clock or the API preserves the invariant.
LEMMA InvStep == Inv /\ [Next]_vars => Inv'
  <1> SUFFICES ASSUME Inv, [Next]_vars PROVE Inv'
    OBVIOUS
  <1> USE DispatcherAssumption
  <1> USE DEF Inv, TypeOK, Exclusive, BatchIsDue, MarkedWasSent, PublishedWasSent,
              DuplicatesNeedFaults, OneMessageFree, FailedBatchIsPaid, Status, Stage, row
  <1>1. ASSUME NEW p \in Payment, Enqueue(p) PROVE Inv'
    BY <1>1 DEF Enqueue
  <1>2. ASSUME NEW d \in Dispatcher, Fetch(d) PROVE Inv'
    <2>1. PICK B \in SUBSET (Due \ Locked) :
            work' = [work EXCEPT ![d] = [p \in Payment |-> IF p \in B THEN "todo" ELSE "none"]]
      BY ONLY <1>2, Zenon DEF Fetch
    <2>2. \A p \in B : status[p] = "PENDING" /\ nextAt[p] <= now /\ p \in Payment
      BY <2>1 DEF Due
    <2>3. \A e \in Dispatcher, p \in B : work[e][p] = "none"
      BY <2>1, <2>2 DEF Locked, Batch
    <2>4. \A p \in Payment : work'[d][p] = IF p \in B THEN "todo" ELSE "none"
      BY <2>1
    <2>5. \A e \in Dispatcher \ {d} : work'[e] = work[e]
      BY <2>1
    <2>6. work' \in [Dispatcher -> [Payment -> Stage]]
      BY <2>1
    <2>7. /\ disp' = [disp EXCEPT ![d] = "batch"]
          /\ UNCHANGED <<row, draft, now, sent, faults>>
      BY <1>2 DEF Fetch
    <2>8. TypeOK'
      BY <2>6, <2>7
    <2>9. \A e \in Dispatcher, p \in Payment :
            /\ work'[e][p] # "none" => work[e][p] # "none" \/ (e = d /\ p \in B)
            /\ work'[e][p] \in {"sent", "failed", "marked"} =>
                 e # d /\ work'[e][p] = work[e][p]
      BY <2>4, <2>5
    <2>10. Exclusive'
      BY <2>3, <2>9
    <2>11. BatchIsDue'
      BY <2>2, <2>7, <2>9
    <2>12. MarkedWasSent'
      BY <2>7, <2>9
    <2>13. PublishedWasSent' /\ DuplicatesNeedFaults'
      BY <2>7
    <2>14. OneMessageFree'
      BY <1>2, <2>7, <2>4, <2>5 DEF Fetch
    <2>15. FailedBatchIsPaid'
      BY <2>7, <2>9, <2>5
    <2> QED
      BY <2>8, <2>10, <2>11, <2>12, <2>13, <2>14, <2>15
  <1>3. ASSUME NEW d \in Dispatcher, NEW p \in Payment, Publish(d, p) PROVE Inv'
    <2>1. /\ work[d][p] = "todo"
          /\ \A q \in Payment : work[d][q] # "failed"
      BY <1>3 DEF Publish, AtRow, Todo
    <2>2. /\ work' = [work EXCEPT ![d][p] = "sent"]
          /\ sent' = [sent EXCEPT ![p] = @ + 1]
          /\ UNCHANGED <<row, draft, now, disp, faults>>
      BY <1>3 DEF Publish, SetWork
    <2>3. \A e \in Dispatcher, q \in Payment :
            work'[e][q] = IF e = d /\ q = p THEN "sent" ELSE work[e][q]
      BY <2>2
    <2>4. sent[p] <= faults
      BY <2>1
    <2>5. TypeOK' /\ Exclusive' /\ BatchIsDue'
      BY <2>1, <2>2, <2>3
    <2>6. MarkedWasSent' /\ PublishedWasSent' /\ DuplicatesNeedFaults'
      BY <2>2, <2>3, <2>4
    <2>7. OneMessageFree'
      BY <2>2, <2>3
    <2>8. FailedBatchIsPaid'
      BY <2>1, <2>2, <2>3
    <2> QED
      BY <2>5, <2>6, <2>7, <2>8
  <1>4. ASSUME NEW d \in Dispatcher, NEW p \in Payment, PublishFails(d, p) PROVE Inv'
    BY <1>4 DEF PublishFails, AtRow, Todo, SetWork, Fault
  <1>5. ASSUME NEW d \in Dispatcher, NEW p \in Payment, PublishUnconfirmed(d, p) PROVE Inv'
    BY <1>5 DEF PublishUnconfirmed, AtRow, Todo, SetWork, Fault
  <1>6. ASSUME NEW d \in Dispatcher, NEW p \in Payment, Mark(d, p) PROVE Inv'
    BY <1>6 DEF Mark, SetWork
  <1>7. ASSUME NEW d \in Dispatcher, NEW p \in Payment, Bump(d, p) PROVE Inv'
    BY <1>7, BackoffType DEF Bump, SetWork
  <1>8. ASSUME NEW d \in Dispatcher, NEW p \in Payment, BumpOverflows(d, p) PROVE Inv'
    BY <1>8 DEF BumpOverflows, Leave, NoBatch
  <1>9. ASSUME NEW d \in Dispatcher, Commit(d) PROVE Inv'
    BY <1>9 DEF Commit, BatchDone, Batch, Install, Leave, NoBatch
  <1>10. ASSUME NEW d \in Dispatcher, CommitUnknown(d) PROVE Inv'
    BY <1>10 DEF CommitUnknown, BatchDone, Batch, Install, Leave, NoBatch, Fault
  <1>11. ASSUME NEW d \in Dispatcher, DbError(d) PROVE Inv'
    BY <1>11 DEF DbError, Leave, NoBatch, Fault
  <1>12. ASSUME NEW d \in Dispatcher, Crash(d) PROVE Inv'
    BY <1>12 DEF Crash, Leave, NoBatch, Fault
  <1>13. ASSUME NEW d \in Dispatcher, Wake(d) PROVE Inv'
    BY <1>13 DEF Wake
  <1>14. CASE Tick
    BY <1>14 DEF Tick
  <1>15. CASE UNCHANGED vars
    BY <1>15 DEF vars
  <1> HIDE DEF Inv
  <1> QED
    BY <1>1, <1>2, <1>3, <1>4, <1>5, <1>6, <1>7, <1>8, <1>9, <1>10, <1>11, <1>12,
       <1>13, <1>14, <1>15
    DEF Next, Loop, Failure

\* The invariant holds in every reachable state.
THEOREM Invariance == Spec => []Inv
  BY InitInv, InvStep, PTL DEF Spec

-----------------------------------------------------------------------------

\* Every variable keeps its type, for every number of rows and dispatchers.
THEOREM TypeCorrect == Spec => []TypeOK
  BY Invariance, PTL DEF Inv

\* A row is PUBLISHED only if the broker has accepted its message.
THEOREM NoPrematurePublished == Spec => []PublishedWasSent
  BY Invariance, PTL DEF Inv

\* However many dispatchers poll the table, each message of a row beyond its
\* first follows a failure.
THEOREM DuplicatesArePaid == Spec => []DuplicatesNeedFaults
  BY Invariance, PTL DEF Inv

\* The columns of a row and its message count change only in the steps that
\* are named here.
LEMMA RowFrame ==
  ASSUME Inv, [Next]_vars, NEW p \in Payment
  PROVE  /\ sent'[p] # sent[p] =>
              \E d \in Dispatcher :
                AtRow(d, p) /\ (Publish(d, p) \/ PublishUnconfirmed(d, p))
         /\ status'[p] # status[p] =>
              \/ Enqueue(p)
              \/ \E d \in Dispatcher :
                   work[d][p] = "marked" /\ (Commit(d) \/ CommitUnknown(d))
  <1> USE DEF Inv, TypeOK
  <1>1. ASSUME NEW q \in Payment, Enqueue(q) PROVE sent' = sent /\ (status'[p] # status[p] => p = q)
    BY <1>1 DEF Enqueue
  <1>2. ASSUME NEW d \in Dispatcher, NEW q \in Payment, Publish(d, q) \/ PublishUnconfirmed(d, q)
        PROVE  status' = status /\ AtRow(d, q) /\ (sent'[p] # sent[p] => p = q)
    BY <1>2 DEF Publish, PublishUnconfirmed, row
  <1>3. ASSUME NEW d \in Dispatcher, NEW q \in Payment,
               PublishFails(d, q) \/ Mark(d, q) \/ Bump(d, q) \/ BumpOverflows(d, q)
        PROVE  status' = status /\ sent' = sent
    BY <1>3 DEF PublishFails, Mark, Bump, BumpOverflows, row
  <1>4. ASSUME NEW d \in Dispatcher, Fetch(d) \/ DbError(d) \/ Crash(d) \/ Wake(d)
        PROVE  status' = status /\ sent' = sent
    BY <1>4 DEF Fetch, DbError, Crash, Wake, row
  <1>5. ASSUME NEW d \in Dispatcher, Commit(d) \/ CommitUnknown(d)
        PROVE  sent' = sent /\ (status'[p] # status[p] => work[d][p] = "marked")
    BY <1>5 DEF Commit, CommitUnknown, Install
  <1>6. CASE Tick \/ UNCHANGED vars
    BY <1>6 DEF Tick, vars, row
  <1> HIDE DEF Inv, TypeOK
  <1> QED
    BY <1>1, <1>2, <1>3, <1>4, <1>5, <1>6 DEF Next, Loop, Failure

\* A PUBLISHED row is never sent again, though dispatchers work on rows they
\* have read earlier.
THEOREM PublishedStays == Spec => PublishedIsFinal
  <1>1. ASSUME Inv, [Next]_vars, NEW p \in Payment, status[p] = "PUBLISHED"
        PROVE  status'[p] = "PUBLISHED" /\ sent'[p] = sent[p]
    <2>1. \A d \in Dispatcher : work[d][p] = "none"
      BY <1>1 DEF Inv, BatchIsDue
    <2>2. \A d \in Dispatcher : ~AtRow(d, p)
      BY <2>1 DEF AtRow, Todo
    <2>3. ~Enqueue(p)
      BY <1>1 DEF Enqueue
    <2> QED
      BY <1>1, <2>1, <2>2, <2>3, RowFrame
  <1>2. Inv /\ [Next]_vars =>
          [\A p \in Payment : status[p] = "PUBLISHED" =>
             status'[p] = "PUBLISHED" /\ sent'[p] = sent[p]]_vars
    BY <1>1
  <1> QED
    BY <1>2, Invariance, PTL DEF Spec, PublishedIsFinal

\* A message is sent only when next_attempt_at of its row has come, as that
\* column is when the message is sent.
THEOREM BackoffIsKept == Spec => NeverBeforeDue
  <1>1. ASSUME Inv, [Next]_vars, NEW p \in Payment, sent'[p] > sent[p]
        PROVE  nextAt[p] <= now
    <2>1. sent[p] \in Nat
      BY <1>1 DEF Inv, TypeOK
    <2>2. PICK d \in Dispatcher : AtRow(d, p)
      BY <1>1, <2>1, RowFrame
    <2> QED
      BY <1>1, <2>2 DEF Inv, BatchIsDue, AtRow, Todo
  <1>2. Inv /\ [Next]_vars =>
          [\A p \in Payment : sent'[p] > sent[p] => nextAt[p] <= now]_vars
    BY <1>1
  <1> QED
    BY <1>2, Invariance, PTL DEF Spec, NeverBeforeDue

\* The dispatchers implement AtLeastOnce: Enqueue is its Register, a message
\* that the broker accepts its HandOver, a commit the Settle of the rows that
\* the batch has marked, and every other step a stutter.
THEOREM Refinement == Spec => KeepsPromise
  <1>1. Init => Promise!AInit
    BY DEF Init, Promise!AInit
  <1>2. ASSUME Inv, [Next]_vars
        PROVE  [Promise!ANext]_(Promise!avars)
    <2> USE <1>2 DEF Inv
    <2>1. ASSUME NEW p \in Payment, Enqueue(p) PROVE Promise!ANext
      BY <2>1 DEF Enqueue, Promise!ANext, Promise!Register
    <2>2. ASSUME NEW d \in Dispatcher, NEW p \in Payment,
                 Publish(d, p) \/ PublishUnconfirmed(d, p)
          PROVE  Promise!ANext
      <3>1. work[d][p] # "none"
        BY <2>2 DEF Publish, PublishUnconfirmed, AtRow, Todo
      <3> QED
        BY <2>2, <3>1 DEF Publish, PublishUnconfirmed, row, BatchIsDue,
                          Promise!ANext, Promise!HandOver
    <2>3. ASSUME NEW d \in Dispatcher, Commit(d) \/ CommitUnknown(d) PROVE Promise!ANext
      <3> DEFINE S == {p \in Payment : work[d][p] = "marked"}
      <3>1. /\ status' = [p \in Payment |-> IF p \in S THEN "PUBLISHED" ELSE status[p]]
            /\ sent' = sent
        BY <2>3 DEF Commit, CommitUnknown, Install
      <3>2. \A p \in S : status[p] = "PENDING" /\ sent[p] > 0
        BY DEF BatchIsDue, MarkedWasSent
      <3>3. Promise!Settle(S)
        BY <3>1, <3>2 DEF Promise!Settle
      <3> QED
        BY <3>3 DEF Promise!ANext
    <2>4. ASSUME NEW d \in Dispatcher, NEW p \in Payment,
                 PublishFails(d, p) \/ Mark(d, p) \/ Bump(d, p) \/ BumpOverflows(d, p)
          PROVE  UNCHANGED Promise!avars
      BY <2>4 DEF PublishFails, Mark, Bump, BumpOverflows, row, Promise!avars
    <2>5. ASSUME NEW d \in Dispatcher, Fetch(d) \/ DbError(d) \/ Crash(d) \/ Wake(d)
          PROVE  UNCHANGED Promise!avars
      BY <2>5 DEF Fetch, DbError, Crash, Wake, row, Promise!avars
    <2>6. CASE Tick \/ UNCHANGED vars
      BY <2>6 DEF Tick, vars, row, Promise!avars
    <2> QED
      BY <2>1, <2>2, <2>3, <2>4, <2>5, <2>6 DEF Next, Loop, Failure
  <1> QED
    BY <1>1, <1>2, Invariance, PTL DEF Spec, KeepsPromise, Promise!ASpec
=============================================================================
