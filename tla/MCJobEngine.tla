---------------------------- MODULE MCJobEngine ----------------------------
(* A few clients and jobs share one workspace; clients are interchangeable, *)
(* and so are job ids.                                                      *)
EXTENDS JobEngine, TLC

Symmetry == Permutations(Clients) \cup Permutations(Jobs)
=============================================================================
