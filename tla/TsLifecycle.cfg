SPECIFICATION TsFairSpec
CONSTANTS
  Procs = {p1, p2}
  Aids = {a1}
  None = None
  Kinds = {"submit", "open"}
  Bound = TRUE
  SubmitRetry = TRUE
  MaxTickets = 2
  MaxTries = 2
INVARIANTS NoGoodTicketDiscarded NoReplayedBytes
PROPERTIES CallContractHolds EveryPromiseSettles
