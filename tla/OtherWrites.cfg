SPECIFICATION Spec
CONSTANTS
  Procs = {p1, p2}
  Aids = {a1}
  None = None
  Kinds = {"submit"}
  Bound = TRUE
  SubmitRetry = TRUE
  MaxTickets = 2
  MaxTries = 1
INVARIANTS OtherWritesRaiseOnFirst
