------------------------ MODULE MCAioTicketLifecycle ------------------------
(* Two or three interchangeable tasks of one aio client. *)
EXTENDS AioTicketLifecycle, TLC

Symmetry == Permutations(Procs)
=============================================================================
