-------------------------- MODULE PaymentApiProofs --------------------------
(***************************************************************************)
(* Proofs about PaymentApi, for any sets of requests, keys and bodies.     *)
(*                                                                         *)
(* The safety properties are not inductive: that a commit cannot book a    *)
(* key twice rests on what transactions hold between the insert and the    *)
(* commit.  Inv adds that: a transaction holds exactly what its place in   *)
(* create_payment says, at most one transaction holds a key, and a held    *)
(* key has no committed row.                                               *)
(***************************************************************************)
EXTENDS PaymentApi, TLAPS

\* A transaction has inserted what its handler's place says.
TxFollowsPlace ==
  \A r \in Request :
    /\ "payment" \in tx[r] <=> pc[r] \in {"enqueue", "commit"}
    /\ "outbox" \in tx[r] <=> pc[r] = "commit"

\* The unique index: one uncommitted insert per key, and none beside a row.
OneHolderPerKey ==
  \A q, r \in Request :
    "payment" \in tx[q] /\ "payment" \in tx[r] /\ key[q] = key[r] => q = r

HeldKeyIsFree ==
  \A r \in Request : "payment" \in tx[r] => \A p \in payments : p.key # key[r]

\* A row is the one its request inserted, and that request has finished with
\* neither 400 nor 409.
RowsAreOwn ==
  \A p \in payments :
    /\ pc[p.id] \in {"answer", "done", "lost"}
    /\ code[p.id] \in {202, 500}
    /\ p.key = key[p.id]
    /\ p.body = body[p.id]

\* AcceptedIsBooked from the moment the status is decided.
AcceptedWillBeBooked ==
  \A r \in Request :
    pc[r] \in {"answer", "done"} /\ code[r] = 202 =>
      [id |-> ref[r], key |-> key[r], body |-> body[r]] \in payments

Inv ==
  /\ TypeOK
  /\ TxFollowsPlace
  /\ OneHolderPerKey
  /\ HeldKeyIsFree
  /\ RowsAreOwn
  /\ OnePaymentPerKey
  /\ PaymentIffEvent
  /\ AcceptedWillBeBooked

-----------------------------------------------------------------------------

\* The empty database with no request received satisfies the invariant.
LEMMA InitInv == Init => Inv
  BY DEF Init, Inv, TypeOK, TxFollowsPlace, OneHolderPerKey, HeldKeyIsFree,
         RowsAreOwn, OnePaymentPerKey, PaymentIffEvent, AcceptedWillBeBooked,
         Row, Body, Place, Code

\* A committed payment and a body that agree on the three compared fields
\* are a row with that very body.
LEMMA MatchIsEquality ==
  ASSUME NEW p \in Row, NEW b \in Body, Matches(p, b)
  PROVE  p.body = b
  BY DEF Row, Body, Matches

\* The statuses of the errors that create_payment may end in.
LEMMA StatusFacts ==
  /\ StatusOf("RequestValidationError") = 422
  /\ StatusOf("MissingAPIKeyError") = 401
  /\ StatusOf("InvalidAPIKeyError") = 401
  /\ StatusOf("IdempotencyKeyConflictError") = 409
  /\ StatusOf("WebhookUrlNotAllowedError") = 400
  /\ StatusOf("UnicodeError") = 500
  /\ StatusOf("UnhandledIntegrityError") = 500
  BY DEF StatusOf, Unauthorized, NotFound, Conflict, Validation, ExternalService

\* A handler that ends in an error before its commit preserves the invariant:
\* its transaction is rolled back.
LEMMA FailStep ==
  ASSUME Inv, NEW r \in Request, NEW c \in Code \ {202},
         pc[r] \in Working \cup {"new"}, Finish(r, c, r),
         UNCHANGED <<payments, outbox, key, body>>
  PROVE  Inv'
  BY DEF Inv, TypeOK, TxFollowsPlace, OneHolderPerKey, HeldKeyIsFree, RowsAreOwn,
         OnePaymentPerKey, PaymentIffEvent, AcceptedWillBeBooked, Place, Row, Code,
         Working, Finish

\* Every step of every request preserves the invariant.
LEMMA InvStep == Inv /\ [Next]_vars => Inv'
  <1> SUFFICES ASSUME Inv, [Next]_vars PROVE Inv'
    OBVIOUS
  <1> USE DEF Inv, TypeOK, TxFollowsPlace, OneHolderPerKey, HeldKeyIsFree, RowsAreOwn,
              OnePaymentPerKey, PaymentIffEvent, AcceptedWillBeBooked, Place, Row, Code
  <1>1. ASSUME NEW r \in Request, Receive(r) PROVE Inv'
    BY <1>1 DEF Receive, Goto
  <1>2. ASSUME NEW r \in Request, ValidateUrl(r) PROVE Inv'
    <2>1. CASE Goto(r, "lookup") /\ UNCHANGED tx
      BY <1>2, <2>1 DEF ValidateUrl, Goto
    <2>2. ASSUME NEW e \in {"UnicodeError", "WebhookUrlNotAllowedError"}, Fail(r, e)
          PROVE  Inv'
      BY <1>2, <2>2, StatusFacts, FailStep DEF ValidateUrl, Fail, Working
    <2> QED
      BY <1>2, <2>1, <2>2 DEF ValidateUrl
  <1>3. ASSUME NEW r \in Request, Lookup(r) PROVE Inv'
    <2>1. CASE Goto(r, "insert") /\ UNCHANGED tx
      BY <1>3, <2>1 DEF Lookup, Goto
    <2>2. ASSUME NEW row \in RowsOf(key[r]), Matches(row, body[r]), Finish(r, 202, row.id)
          PROVE  Inv'
      <3>1. row \in payments /\ row.key = key[r] /\ row.body = body[r]
        BY <2>2, MatchIsEquality DEF RowsOf
      <3>2. row = [id |-> row.id, key |-> key[r], body |-> body[r]]
        BY <3>1
      <3>3. row.id \in Request
        BY <3>1
      <3>4. UNCHANGED <<payments, outbox, key, body>>
        BY <1>3 DEF Lookup
      <3>5. pc[r] = "lookup"
        BY <1>3 DEF Lookup
      <3>6. AcceptedWillBeBooked'
        BY <2>2, <3>1, <3>2, <3>4 DEF Finish
      <3> QED
        BY <2>2, <3>3, <3>4, <3>5, <3>6 DEF Finish
    <2>3. CASE Fail(r, "IdempotencyKeyConflictError")
      BY <1>3, <2>3, StatusFacts, FailStep DEF Lookup, Fail, Working
    <2> QED
      BY <1>3, <2>1, <2>2, <2>3 DEF Lookup
  <1>4. ASSUME NEW r \in Request, Insert(r) PROVE Inv'
    <2>1. \A p \in payments : p.key # key[r]
      BY <1>4 DEF Insert, RowsOf
    <2>2. \A q \in Request \ {r} : "payment" \in tx[q] => key[q] # key[r]
      BY <1>4 DEF Insert, HeldByOther
    <2>3. OneHolderPerKey' /\ HeldKeyIsFree'
      BY <1>4, <2>1, <2>2 DEF Insert, Goto
    <2> QED
      BY <1>4, <2>3 DEF Insert, Goto
  <1>5. ASSUME NEW r \in Request, InsertConflict(r) PROVE Inv'
    BY <1>5, StatusFacts, FailStep DEF InsertConflict, Fail, Working
  <1>6. ASSUME NEW r \in Request, Enqueue(r) PROVE Inv'
    BY <1>6 DEF Enqueue, Goto
  <1>7. ASSUME NEW r \in Request, Commit(r) \/ CommitUnknown(r) PROVE Inv'
    <2>1. /\ pc[r] = "commit"
          /\ UNCHANGED <<key, body>>
          /\ Finish(r, 202, r) \/ Finish(r, 500, r)
      BY <1>7 DEF Commit, CommitUnknown
    <2>2. payments' = payments \cup {NewRow(r)} /\ outbox' = outbox \cup {r}
      BY <1>7, <2>1 DEF Commit, CommitUnknown, Install
    <2>3. /\ NewRow(r) \in Row
          /\ NewRow(r).id = r /\ NewRow(r).key = key[r] /\ NewRow(r).body = body[r]
      BY DEF NewRow
    <2>4. \A p \in payments : p.key # key[r] /\ p.id # r
      BY <2>1
    <2>5. TypeOK'
      BY <2>1, <2>2, <2>3 DEF Finish
    <2>6. TxFollowsPlace' /\ OneHolderPerKey'
      BY <2>1 DEF Finish
    <2>7. HeldKeyIsFree'
      BY <2>1, <2>2, <2>3 DEF Finish
    <2>8. RowsAreOwn'
      BY <2>1, <2>2, <2>3, <2>4 DEF Finish
    <2>9. OnePaymentPerKey'
      BY <2>2, <2>3, <2>4
    <2>10. PaymentIffEvent'
      BY <2>2, <2>3
    <2>11. AcceptedWillBeBooked'
      BY <2>1, <2>2 DEF Finish, NewRow
    <2> QED
      BY <2>5, <2>6, <2>7, <2>8, <2>9, <2>10, <2>11
  <1>8. ASSUME NEW r \in Request, DbError(r) PROVE Inv'
    BY <1>8, StatusFacts, FailStep DEF DbError, Fail, Working
  <1>9. ASSUME NEW r \in Request, Answer(r) PROVE Inv'
    BY <1>9 DEF Answer, Goto
  <1>10. ASSUME NEW r \in Request, Crash(r) PROVE Inv'
    BY <1>10 DEF Crash, Working
  <1>11. ASSUME NEW r \in Request, Reject(r) PROVE Inv'
    BY <1>11, StatusFacts, FailStep DEF Reject, Fail
  <1>12. CASE UNCHANGED vars
    BY <1>12 DEF vars
  <1> HIDE DEF Inv, TypeOK, TxFollowsPlace, OneHolderPerKey, HeldKeyIsFree, RowsAreOwn,
               OnePaymentPerKey, PaymentIffEvent, AcceptedWillBeBooked, Place, Row, Code
  <1> QED
    BY <1>1, <1>2, <1>3, <1>4, <1>5, <1>6, <1>7, <1>8, <1>9, <1>10, <1>11, <1>12
    DEF Next, Step

\* Every reachable state of the API satisfies the inductive invariant.
THEOREM Invariance == Spec => []Inv
  BY InitInv, InvStep, PTL DEF Spec

-----------------------------------------------------------------------------

\* Every variable keeps its type in every reachable state.
THEOREM TypeCorrect == Spec => []TypeOK
  BY Invariance, PTL DEF Inv

\* However many requests with one Idempotency-Key run concurrently, they
\* create at most one payment.
THEOREM UniquePayment == Spec => []OnePaymentPerKey
  BY Invariance, PTL DEF Inv

\* A payment is durable exactly when its outbox event is.
THEOREM TransactionalOutbox == Spec => []PaymentIffEvent
  BY Invariance, PTL DEF Inv

\* A 202 names a durable payment with the request's own key and fields.
THEOREM TruthfulAccept == Spec => []AcceptedIsBooked
  <1>1. Inv => AcceptedIsBooked
    BY DEF Inv, AcceptedWillBeBooked, AcceptedIsBooked
  <1> QED
    BY <1>1, Invariance, PTL

\* A request refused with a 4xx has created nothing.
THEOREM CleanRefusal == Spec => []RefusedLeavesNothing
  <1>1. Inv => RefusedLeavesNothing
    <2> SUFFICES ASSUME Inv, NEW r \in Request, pc[r] \in {"answer", "done"},
                        code[r] \in {400, 401, 409, 422}
                 PROVE  r \notin outbox /\ \A p \in payments : p.id # r
      BY DEF RefusedLeavesNothing
    <2>1. \A p \in payments : p.id # r
      BY DEF Inv, RowsAreOwn
    <2> QED
      BY <2>1 DEF Inv, PaymentIffEvent
  <1> QED
    BY <1>1, Invariance, PTL

\* The safety of a retry: a request that looks its key up when a payment with
\* the same body is booked leaves the lookup with that payment's id, a 500 or
\* no answer; it neither inserts again nor is it told 409.
LookupFindsPayment ==
  \A r \in Request : \A p \in RowsOf(key[r]) :
    pc[r] = "lookup" /\ Matches(p, body[r]) =>
      \/ pc'[r] \in {"lookup", "lost"}
      \/ pc'[r] = "answer" /\ code'[r] = 202 /\ ref'[r] = p.id
      \/ pc'[r] = "answer" /\ code'[r] = 500

THEOREM ReplayIsSafe == Spec => [][LookupFindsPayment]_vars
  <1>1. ASSUME Inv, [Next]_vars, NEW r \in Request, NEW p \in RowsOf(key[r]),
               pc[r] = "lookup", Matches(p, body[r])
        PROVE  \/ pc'[r] \in {"lookup", "lost"}
               \/ pc'[r] = "answer" /\ code'[r] = 202 /\ ref'[r] = p.id
               \/ pc'[r] = "answer" /\ code'[r] = 500
    <2>1. /\ pc \in [Request -> Place]
          /\ code \in [Request -> Code]
          /\ ref \in [Request -> Request]
      BY <1>1 DEF Inv, TypeOK
    <2>2. CASE Lookup(r)
      <3>1. \A row \in RowsOf(key[r]) : row = p
        BY <1>1 DEF Inv, OnePaymentPerKey, RowsOf
      <3>2. Finish(r, 202, p.id)
        BY <1>1, <2>2, <3>1 DEF Lookup
      <3> QED
        BY <2>1, <3>2 DEF Finish
    <2>3. CASE DbError(r)
      BY <2>1, <2>3, StatusFacts DEF DbError, Fail, Finish
    <2>4. CASE Crash(r)
      BY <2>1, <2>4 DEF Crash
    <2>5. CASE UNCHANGED pc[r]
      BY <1>1, <2>5
    <2>6. ASSUME NEW q \in Request, q # r, Step(q) \/ CommitUnknown(q) \/ DbError(q) \/ Crash(q)
          PROVE  UNCHANGED pc[r]
      BY <2>1, <2>6 DEF Step, Receive, Reject, ValidateUrl, Lookup, Insert, InsertConflict, Enqueue,
         Commit, CommitUnknown, DbError, Answer, Crash, Goto, Fail, Finish
    <2>7. ASSUME Step(r) \/ CommitUnknown(r) \/ DbError(r) \/ Crash(r)
          PROVE  Lookup(r) \/ DbError(r) \/ Crash(r)
      BY <1>1, <2>7 DEF Step, Receive, Reject, ValidateUrl, Insert, InsertConflict, Enqueue, Commit,
         CommitUnknown, Answer
    <2> QED
      BY <1>1, <2>2, <2>3, <2>4, <2>5, <2>6, <2>7 DEF Next, vars
  <1>2. ASSUME Inv, [Next]_vars PROVE [LookupFindsPayment]_vars
    BY <1>1, <1>2 DEF LookupFindsPayment
  <1> QED
    BY <1>2, Invariance, PTL DEF Spec
-----------------------------------------------------------------------------

\* A request that is not answered with 202 by the step has been told the
\* same before and after it.
LEMMA ToldFrame ==
  ASSUME TypeOK,
         \A q \in Request : \/ pc'[q] = pc[q] /\ code'[q] = code[q] /\ ref'[q] = ref[q]
                            \/ pc[q] # "done" /\ pc'[q] # "done"
                            \/ code[q] # 202 /\ code'[q] # 202
  PROVE  Told' = Told
  <1>1. ASSUME NEW q \in Request PROVE ToldTo(q)' = ToldTo(q)
    <2>1. CASE pc'[q] = pc[q] /\ code'[q] = code[q] /\ ref'[q] = ref[q]
      BY <2>1 DEF ToldTo
    <2>2. CASE \/ pc[q] # "done" /\ pc'[q] # "done"
               \/ code[q] # 202 /\ code'[q] # 202
      <3>1. ToldTo(q) = {}
        BY <2>2 DEF ToldTo
      <3>2. ToldTo(q)' = {}
        BY <2>2 DEF ToldTo
      <3> QED
        BY <3>1, <3>2
    <2> QED
      BY <2>1, <2>2
  <1> QED
    BY <1>1 DEF Told

\* The API implements the abstract service of IdempotentCreate: a commit is
\* its Create, the answer of a 202 its Tell, and every other step a stutter.
THEOREM Refinement == Spec => KeepsPromise
  <1>1. Init => Promise!AInit
    BY DEF Init, Promise!AInit, Told, ToldTo
  <1>2. ASSUME Inv, [Next]_vars
        PROVE  [Promise!ANext]_(Promise!avars)
    <2> USE <1>2 DEF Inv
    <2>1. ASSUME NEW r \in Request, Commit(r) \/ CommitUnknown(r)
          PROVE  Promise!ANext
      <3>1. /\ pc[r] = "commit" /\ "payment" \in tx[r] /\ "outbox" \in tx[r]
            /\ payments' = payments \cup {NewRow(r)}
            /\ outbox' = outbox \cup {r}
        BY <2>1 DEF Commit, CommitUnknown, Install, TxFollowsPlace
      <3>2. \A p \in payments : p.key # key[r] /\ p.id # r
        BY <3>1 DEF HeldKeyIsFree, RowsAreOwn
      <3>3. \A q \in Request : \/ pc'[q] = pc[q] /\ code'[q] = code[q] /\ ref'[q] = ref[q]
                               \/ pc[q] # "done" /\ pc'[q] # "done"
        BY <2>1, <3>1 DEF Commit, CommitUnknown, Finish, TypeOK
      <3>4. Told' = Told
        BY <3>3, ToldFrame
      <3>5. key[r] \in Key /\ body[r] \in Body
        BY DEF TypeOK
      <3>6. Promise!Create(r, key[r], body[r])
        BY <3>1, <3>2, <3>4 DEF Promise!Create, NewRow
      <3> QED
        BY <3>5, <3>6 DEF Promise!ANext
    <2>2. ASSUME NEW r \in Request, Answer(r), code[r] = 202
          PROVE  Promise!ANext
      <3>1. [id |-> ref[r], key |-> key[r], body |-> body[r]] \in payments
        BY <2>2 DEF AcceptedWillBeBooked, Answer
      <3>2. PICK p \in payments : p.id = ref[r]
        BY <3>1
      <3>3. pc[r] = "answer" /\ pc'[r] = "done" /\ code'[r] = 202 /\ ref'[r] = ref[r]
        BY <2>2 DEF Answer, Goto, TypeOK
      <3>4. ToldTo(r) = {}
        BY <3>3 DEF ToldTo
      <3>5. ToldTo(r)' = {p.id}
        BY <3>2, <3>3 DEF ToldTo
      <3>6. ASSUME NEW q \in Request, q # r PROVE ToldTo(q)' = ToldTo(q)
        <4>1. pc'[q] = pc[q] /\ code'[q] = code[q] /\ ref'[q] = ref[q]
          BY <2>2, <3>6 DEF Answer, Goto, TypeOK
        <4> QED
          BY <4>1 DEF ToldTo
      <3>7. Told[r] = {} /\ Told' = [Told EXCEPT ![r] = {p.id}]
        BY <3>4, <3>5, <3>6 DEF Told
      <3>8. UNCHANGED <<payments, outbox>>
        BY <2>2 DEF Answer
      <3>9. Promise!Tell(r, p)
        BY <3>7, <3>8 DEF Promise!Tell
      <3> QED
        BY <3>9 DEF Promise!ANext
    <2>3. ASSUME NEW r \in Request, Answer(r), code[r] # 202
          PROVE  UNCHANGED Promise!avars
      <3>1. \A q \in Request : \/ pc'[q] = pc[q] /\ code'[q] = code[q] /\ ref'[q] = ref[q]
                               \/ code[q] # 202 /\ code'[q] # 202
        BY <2>3 DEF Answer, Goto, TypeOK
      <3>2. Told' = Told
        BY <3>1, ToldFrame
      <3> QED
        BY <2>3, <3>2 DEF Answer, Promise!avars
    <2>4. ASSUME NEW r \in Request,
                 Receive(r) \/ Reject(r) \/ ValidateUrl(r) \/ Lookup(r) \/ Insert(r)
                   \/ InsertConflict(r) \/ Enqueue(r) \/ DbError(r) \/ Crash(r)
          PROVE  UNCHANGED Promise!avars
      <3>1. UNCHANGED <<payments, outbox>>
        BY <2>4 DEF Receive, Reject, ValidateUrl, Lookup, Insert, InsertConflict, Enqueue, DbError, Crash
      <3>2. /\ pc[r] # "done"
            /\ \E place \in Place \ {"done"} : pc' = [pc EXCEPT ![r] = place]
        BY <2>4 DEF Receive, Reject, ValidateUrl, Lookup, Insert, InsertConflict, Enqueue, DbError, Crash,
           Goto, Fail, Finish, Working, Place
      <3>3. \A q \in Request \ {r} : code'[q] = code[q] /\ ref'[q] = ref[q]
        BY <2>4 DEF Receive, Reject, ValidateUrl, Lookup, Insert, InsertConflict, Enqueue, DbError, Crash,
           Goto, Fail, Finish, TypeOK
      <3>4. \A q \in Request : \/ pc'[q] = pc[q] /\ code'[q] = code[q] /\ ref'[q] = ref[q]
                               \/ pc[q] # "done" /\ pc'[q] # "done"
        BY <3>2, <3>3 DEF TypeOK
      <3>5. Told' = Told
        BY <3>4, ToldFrame
      <3> QED
        BY <3>1, <3>5 DEF Promise!avars
    <2>5. CASE UNCHANGED vars
      BY <2>5 DEF vars, Promise!avars, Told, ToldTo
    <2> HIDE DEF Inv
    <2> QED
      BY <2>1, <2>2, <2>3, <2>4, <2>5 DEF Next, Step
  <1> QED
    BY <1>1, <1>2, Invariance, PTL DEF Spec, KeepsPromise, Promise!ASpec
=============================================================================
