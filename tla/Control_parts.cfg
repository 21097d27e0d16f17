SPECIFICATION Spec
CONSTANTS
  Handlers = {h1, h2}
  LoginNames = {a}
  Groups = {g1}
  Updates <- EachUpdate
  Owner = owner
  MaxAccounts = 2
  MaxPasswords = 2
  Phones = {phone1, phone2}
  MaxAttempts = 2
  MaxIssued = 3
  Savers = {h1, h2, h3}
  Limit = 3
  MaxEvents = 6
  LostWrites = 1
  Reboots = 2
  Containers = {c1, c2}
  Publishers = {p1}
  Loop = loop
  Ops = {"publish", "unpublish", "delete"}
  Private = {n1}
  Lan = {l1}
  LastPort = 2
  Candidates = 2
  Faults = {"firewall", "write"}
  MaxFailures = 1
  MaxChanges = 1
  MaxRestarts = 1
  Requests = {r1, r2}
  Machines = {a, b}
  Devices = {d1}
  MaxCreated = 3
  MaxFailed = 2
  MaxUpdates = 2
  Instances = {a, b}
  Default = a
  Automatic = {2}
  Chosen = {2}
  MaxRefused = 1
  None = None
  Off = Off
SYMMETRY Symmetry
INVARIANTS OldSessionsEnd DirectoryIsSound FactorsWork LogIsKept
INVARIANTS ProxiesAreRecords RemovesItsOwn
INVARIANTS MachinesKeepDisks FailedLeavesNothing InstalledStaysOpen
PROPERTY FileMovesOn
CHECK_DEADLOCK FALSE
