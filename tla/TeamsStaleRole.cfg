SPECIFICATION Spec
CONSTANTS
  Users = {u1, u2}
  TeamIds = {t1}
  GroupIds = {g1}
  Requests = {p1, p2}
  SubadminCap = 1
  None = None
SYMMETRY Symmetry
INVARIANT ActiveTeamHasOneAdmin
