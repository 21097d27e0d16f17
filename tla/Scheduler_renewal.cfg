SPECIFICATION Spec
CONSTANTS
  Tasks = {t1}
  Jobs = {j1, j2}
  None = None
  Clients = {"run"}
  Acme = TRUE
  MaxClock = 1
  MaxCrashes = 0
INVARIANTS Serialized
