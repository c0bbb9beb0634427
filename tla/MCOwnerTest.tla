----------------------------- MODULE MCOwnerTest -----------------------------
(* Instances of OwnerTest. *)
EXTENDS OwnerTest
=============================================================================
