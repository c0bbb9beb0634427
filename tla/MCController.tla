----------------------------- MODULE MCController -----------------------------
(* Instances of Controller: hosts are interchangeable where no liveness is *)
(* checked.                                                                 *)
EXTENDS Controller, TLC

Symmetry == Permutations(Hosts)
=============================================================================
