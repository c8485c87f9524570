-------------------------- MODULE MCPaymentConsumer -------------------------
(* PaymentConsumer for TLC.  Handlers are interchangeable.                 *)
EXTENDS PaymentConsumer, TLC

HandlerSymmetry == Permutations(Handler)
=============================================================================
