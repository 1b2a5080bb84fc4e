--------------------------- MODULE MCTicketCache ---------------------------
(* Lifetimes down to zero, and clocks that lag or lead by more than a lifetime. *)
EXTENDS TicketCache

MCTtls == {0, 1, 2, 5, 9, 10}
MCLags == {-3, 0, 1, 2, 3}
=============================================================================
