------------------------------ MODULE MCResearch ------------------------------
(* Two candidates measured twice in one context and once in another, a     *)
(* repeat that contradicts, and a few proposals about them.                *)
EXTENDS Research, TLC

CONSTANTS p1, p2, l1, l2, a1, a2, a3, c1, c2, c3, here, there, A, B

MCMeasured ==
  LET R(ctx, c, v) == [scope |-> ctx, candidate |-> c, quality |-> TRUE, value |-> v]
  IN (a1 :> R(here, A, 3)) @@ (a2 :> R(here, A, 2)) @@ (a3 :> R(there, A, 3)) @@
     (c1 :> R(here, B, 2)) @@ (c2 :> R(here, B, 1)) @@ (c3 :> R(there, B, 2))

Propose1(l, ref, cand, relation, proc, text) ==
  [id |-> l, evidence |-> {ref, cand}, procedure |-> proc, text |-> text,
   claim |-> [reference |-> ref, candidate |-> cand, relation |-> relation]]

MCProposals ==
  {Propose1(l1, a1, c1, "lower", FALSE, 1), Propose1(l1, a1, c1, "lower", TRUE, 2),
   Propose1(l1, a2, c1, "higher", FALSE, 1),
   Propose1(l1, a3, c3, "lower", FALSE, 1), Propose1(l2, a1, c2, "lower", FALSE, 1)}
Symmetry == Permutations(Readers) \cup Permutations(Builds)
=============================================================================
