--------------------------- MODULE MCReferenceStore ---------------------------
(* A title, an episode that refers to it and an unrelated entity.          *)
EXTENDS ReferenceStore, TLC

CONSTANTS title, episode, entity

MCRows == {title, episode, entity}
MCParents == (title :> {}) @@ (episode :> {title}) @@ (entity :> {})
Symmetry == Permutations(Procs)
=============================================================================
