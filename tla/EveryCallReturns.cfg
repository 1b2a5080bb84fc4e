SPECIFICATION AioFairSpec
CONSTANTS
  Procs = {p1, p2}
  Aids = {a1}
  None = None
  Kinds = {"admit", "submit"}
  Bound = TRUE
  SubmitRetry = TRUE
  MaxTickets = 2
  MaxTries = 2
INVARIANTS NoReplayedBytes
PROPERTIES CallContractHolds EveryCallReturns EveryTaskReturns
