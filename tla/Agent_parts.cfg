SPECIFICATION Spec
CONSTANTS
  t1 = t1
  t2 = t2
  j1 = j1
  j2 = j2
  j3 = j3
  f = f
  g = g
  None = None
  Off = Off
INVARIANTS OncePerDue ShownIsFinal Serialized RecordIsActive FilesAreWhole
PROPERTIES RunsSavedTask DueIsClaimed
