SPECIFICATION Spec
CONSTANTS
  Jobs = {j1, j2}
  NoJob = NoJob
  Kinds = {"shares"}
  NParts = 2
  Values = {a, b}
  Limit = 2
  MaxPending = 2
  MaxCrashes = 0
  MaxFaults = 0
  MaxEdits = 0
INVARIANT CancelBeforeCommit
CHECK_DEADLOCK FALSE
