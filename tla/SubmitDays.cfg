SPECIFICATION Spec
CONSTANTS
  Machines = {m1, m2}
  Clouds = {k1}
  Legacy = legacy
  Days = {1, 2}
  Clients = {claude}
  CloudClient = claude
  Tokens = {2, 3}
  Revisions = {1, 2}
  ReclaimMin = 2
  Metrics = {}
  Requests = {p1}
  None = None
SYMMETRY Symmetry
PROPERTIES
  FloorNeverFalls
  PeakIsKept
