-------------------------- MODULE IdempotentCreate --------------------------
(***************************************************************************)
(* What POST /api/v1/payments promises, without transactions, statements   *)
(* or locks: a book that binds each idempotency key to at most one payment *)
(* and registers that payment's event in the same step, and answers that   *)
(* only ever name a payment of the book with the asked-for key and body.   *)
(***************************************************************************)
CONSTANTS Request, Key, Body

VARIABLES book,    \* payments ever created: [id, key, body]
          events,  \* payments whose event is registered
          told     \* told[r]: the ids that r's client was given by a 202

avars == <<book, events, told>>

AInit ==
  /\ book = {}
  /\ events = {}
  /\ told = [r \in Request |-> {}]

\* r creates the payment of a key that has none, and registers its event.
Create(r, k, b) ==
  /\ \A p \in book : p.key # k /\ p.id # r
  /\ book' = book \cup {[id |-> r, key |-> k, body |-> b]}
  /\ events' = events \cup {r}
  /\ UNCHANGED told

\* The client of r learns the payment its key and body are bound to.
Tell(r, p) ==
  /\ p \in book
  /\ told[r] = {}
  /\ told' = [told EXCEPT ![r] = {p.id}]
  /\ UNCHANGED <<book, events>>

ANext ==
  \E r \in Request :
    \/ \E k \in Key, b \in Body : Create(r, k, b)
    \/ \E p \in book : Tell(r, p)

ASpec == AInit /\ [][ANext]_avars
=============================================================================
