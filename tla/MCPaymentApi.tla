---------------------------- MODULE MCPaymentApi ----------------------------
(* PaymentApi for TLC.  A URL that is not named by its kind is an https    *)
(* URL.  Requests, and keys, are interchangeable in the specification and  *)
(* in every property, so it is enough to start with three requests of one  *)
(* key, or two of one key and the third of another.                        *)
EXTENDS PaymentApi

MCUrlKind == [u \in Url |-> IF u \in Kind THEN u ELSE "https"]

OneKey == [r \in Request |-> "k1"]

TwoKeys == [r \in Request |-> IF r = "r3" THEN "k2" ELSE "k1"]

MCInit == Init /\ key \in {OneKey, TwoKeys}

MCSpec == MCInit /\ [][Next]_vars /\ Fairness
=============================================================================
