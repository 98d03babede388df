SPECIFICATION Spec
CONSTANTS
  Sessions = {s1, s2}
  Connections = {c1, c2}
  Rows = {"own", "named"}
  Processes = {p1, p2}
  Timeout = 1
  Deadline = 1
  Budget = 1
  Stalls = 2
  Threshold = 1
  MaxSyncs = 2
SYMMETRY Symmetry
INVARIANTS OneWriter LockIsHeldBriefly
PROPERTY UsageSurvivesSync TimestampsSurvive
