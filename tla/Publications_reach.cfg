SPECIFICATION FairSpec
CONSTANTS
  Containers = {c1, c2}
  Requests = {r1}
  Loop = Loop
  Ops = {}
  Private = {n1, n2}
  Lan = {}
  None = None
  LastPort = 3
  Candidates = 3
  Faults = {}
  MaxFailures = 0
  MaxChanges = 1
  MaxRestarts = 0
PROPERTY Reachable
CHECK_DEADLOCK FALSE
