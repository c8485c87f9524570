-------------------------- MODULE MCPaymentsSystem --------------------------
(* PaymentsSystem for TLC: every URL is an https URL.                      *)
EXTENDS PaymentsSystem

MCUrlKind == [u \in Url |-> "https"]
=============================================================================
