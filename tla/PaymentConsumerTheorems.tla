----------------------- MODULE PaymentConsumerTheorems ----------------------
(***************************************************************************)
(* All that is proved about PaymentConsumer, for PaymentsSystemProofs.     *)
(***************************************************************************)
EXTENDS SingleEventProofs, WebhookBudgetProofs
=============================================================================
