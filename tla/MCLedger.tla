------------------------------ MODULE MCLedger ------------------------------
(* Two processes sharing one ledger directory. *)
EXTENDS Ledger, TLC

Symmetry == Permutations(Procs)
=============================================================================
