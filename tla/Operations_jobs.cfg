SPECIFICATION Spec
CONSTANTS
  Jobs = {j1, j2}
  NoJob = NoJob
  Kinds = {"shares", "resource", "feature", "protection"}
  NParts = 2
  Values = {a, b}
  Limit = 2
  MaxPending = 2
  MaxCrashes = 1
  MaxFaults = 1
  MaxEdits = 0
SYMMETRY Symmetry
INVARIANTS TypeOK OneMutation NeverReplayed RollbackJournaled
INVARIANTS DirectoriesJournaled OutcomeIsReal CancelPreventsChange
CHECK_DEADLOCK FALSE
