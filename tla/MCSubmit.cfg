SPECIFICATION Spec
CONSTANTS
  Machines = {m1, m2}
  Clouds = {k1}
  Legacy = legacy
  Days = {1}
  Clients = {claude}
  CloudClient = claude
  Tokens = {1, 2, 3}
  Revisions = {1}
  ReclaimMin = 2
  Metrics = {1, 2}
  Requests = {p1, p2}
  None = None
SYMMETRY Symmetry
INVARIANTS
  TypeOK
  NoUsageTwice
PROPERTIES
  CloudKeepsToItself
  MetricsOnlyGrow
