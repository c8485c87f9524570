------------------------------ MODULE EventPath ------------------------------
(***************************************************************************)
(* The way of an event through the broker, as its publishers and consumers *)
(* see it: queues, exchanges, bindings and arguments are left out.  An     *)
(* event is always in exactly one place, and waits at most MaxRetries      *)
(* times.                                                                  *)
(***************************************************************************)
EXTENDS Naturals

CONSTANTS Message, MaxRetries

VARIABLES at,     \* where each event is
          tries   \* how often it has been sent to wait

avars == <<at, tries>>

AInit ==
  /\ at = [m \in Message |-> "outbox"]
  /\ tries = [m \in Message |-> 0]

Move(m, from, to) ==
  /\ at[m] = from
  /\ at' = [at EXCEPT ![m] = to]

Stay == UNCHANGED tries

\* The consumer could not deliver the webhook: the event waits for its turn.
Wait(m) ==
  /\ Move(m, "consumer", "waiting")
  /\ tries[m] < MaxRetries
  /\ tries' = [tries EXCEPT ![m] = @ + 1]

Step(m) ==
  \/ Move(m, "outbox", "new") /\ Stay
  \/ Move(m, "new", "consumer") /\ Stay
  \/ Move(m, "consumer", "done") /\ Stay
  \/ Move(m, "consumer", "dead") /\ Stay
  \/ Wait(m)
  \/ Move(m, "waiting", "new") /\ Stay

\* A broker that restarts takes back what the consumer has not settled.
TakeBack ==
  /\ at' = [m \in Message |-> IF at[m] = "consumer" THEN "new" ELSE at[m]]
  /\ Stay

ANext == (\E m \in Message : Step(m)) \/ TakeBack

ASpec == AInit /\ [][ANext]_avars
=============================================================================
