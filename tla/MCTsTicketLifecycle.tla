------------------------ MODULE MCTsTicketLifecycle ------------------------
(* Interchangeable concurrent calls of one TypeScript client. *)
EXTENDS TsTicketLifecycle, TLC

Symmetry == Permutations(Procs)
=============================================================================
