---------------------------- MODULE AtLeastOnce -----------------------------
(***************************************************************************)
(* What the outbox promises its readers: an event that was registered is   *)
(* handed to the broker any number of times while it is PENDING, becomes   *)
(* PUBLISHED only after at least one hand-over, and is then never sent     *)
(* again nor forgotten.                                                    *)
(***************************************************************************)
EXTENDS Naturals

CONSTANT Payment

VARIABLES status,  \* of the event: "absent", "PENDING" or "PUBLISHED"
          sent     \* how often the broker has accepted it

avars == <<status, sent>>

AInit ==
  /\ status = [p \in Payment |-> "absent"]
  /\ sent = [p \in Payment |-> 0]

Register(p) ==
  /\ status[p] = "absent"
  /\ status' = [status EXCEPT ![p] = "PENDING"]
  /\ UNCHANGED sent

HandOver(p) ==
  /\ status[p] = "PENDING"
  /\ sent' = [sent EXCEPT ![p] = @ + 1]
  /\ UNCHANGED status

\* A batch of events that have been handed over is settled at once.
Settle(S) ==
  /\ \A p \in S : status[p] = "PENDING" /\ sent[p] > 0
  /\ status' = [p \in Payment |-> IF p \in S THEN "PUBLISHED" ELSE status[p]]
  /\ UNCHANGED sent

ANext ==
  \/ \E p \in Payment : Register(p) \/ HandOver(p)
  \/ \E S \in SUBSET Payment : Settle(S)

ASpec == AInit /\ [][ANext]_avars
=============================================================================
