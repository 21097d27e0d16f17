SPECIFICATION FairSpec
CONSTANTS
  Jobs = {j1, j2}
  NoJob = NoJob
  Kinds = {"shares"}
  NParts = 1
  Values = {a, b}
  Limit = 2
  MaxPending = 1
  MaxCrashes = 0
  MaxFaults = 1
  MaxEdits = 0
PROPERTIES SlotFreed ApprovedJobEnds
CHECK_DEADLOCK FALSE
