--------------------------- MODULE MCSessionRetry ---------------------------
(* RetryInfo in seconds: none, the store's 1s, a move's 5s, and two that no
   budget was made for. *)
EXTENDS SessionRetry

MCOutageHints == {0, 1, 5, 45, -30}
NoOutages == {}
=============================================================================
