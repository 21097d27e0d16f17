SPECIFICATION Spec
CONSTANTS
  Jobs = {j1, j2}
  NoJob = NoJob
  Kinds = {"shares", "volume"}
  NParts = 2
  Values = {a, b}
  Limit = 2
  MaxPending = 2
  MaxCrashes = 1
  MaxFaults = 0
  MaxEdits = 1
SYMMETRY Symmetry
INVARIANT CommitsFromPreviewed
PROPERTY ImplementsLedger
CHECK_DEADLOCK FALSE
