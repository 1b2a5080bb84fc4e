--------------------------- MODULE MCIdentityFile ---------------------------
(* Interchangeable creators. *)
EXTENDS IdentityFile, TLC

Symmetry == Permutations(Creators)
=============================================================================
