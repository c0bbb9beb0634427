-------------------------- MODULE MCSpendingGateway --------------------------
(* Instances of SpendingGateway. *)
EXTENDS SpendingGateway
=============================================================================
