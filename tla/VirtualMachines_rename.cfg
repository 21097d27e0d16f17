SPECIFICATION Spec
CONSTANTS
  Requests = {r1}
  Names = {a, b}
  Devices = {}
  None = None
  Renames = TRUE
  Overlap = FALSE
  MaxCreated = 3
  MaxFailures = 0
  MaxChanges = 0
INVARIANT MachinesKeepDisks
CHECK_DEADLOCK FALSE
