------------------------- MODULE MCTicketLifecycle -------------------------
(* Interchangeable threads that share one synchronous client. *)
EXTENDS TicketLifecycle, TLC

Symmetry == Permutations(Procs)
=============================================================================
