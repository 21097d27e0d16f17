SPECIFICATION Spec
CONSTANTS
  Uploads = {u1, u2}
  Puts = {p1}
  Paths = {f1}
  NChunks = 3
  Quota = 7
  MaxTries = 3
  MaxRestarts = 1
  NFiles = 2
  Workers = {w1, w2}
  Photos = {h1}
  Clips = {v1}
  Raw = {h1}
  Viewers = {c1}
  Warmers = {t1}
  Transcoders = {t2}
  MaxVersions = 2
  MaxActs = 2
  MaxSize = 3
  Converters = {q1, q2}
  Outputs = {n2}
  MaxAsks = 4
  Images = {u1}
  Streams = {s1, s2}
  Drivers = {s1}
  Checked = {s2}
  Names = {n1}
  Capacity = 6
  Reserve = 1
  PageReads = 2
  MaxChanges = 1
  MaxClicks = 2
  MaxFailures = 1
  Kinds = {"container", "vm", "app"}
  MaxDeeds = 2
  MaxReads = 1
  MaxDocked = 1
  None = None
  Others = Others
  Reading = Reading
  Gone = Gone
  NoForm = NoForm
  Off = Off
INVARIANTS UploadsArrive ReportIsTrue ContentArrives
PROPERTIES DeedsAreShown BatchEnds DisksDetected
CHECK_DEADLOCK FALSE
