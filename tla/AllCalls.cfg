SPECIFICATION AioSpec
CONSTANTS
  Procs = {p1, p2}
  Aids = {a1, a2}
  None = None
  Kinds = {"admit", "authorize", "run", "read", "submit", "open", "close"}
  Bound = FALSE
  SubmitRetry = TRUE
  MaxTickets = 2
  MaxTries = 1
SYMMETRY Symmetry
INVARIANTS NoGoodTicketDiscarded TicketBelongsToSigner WireBound
PROPERTIES CancelLeavesCacheEmpty
