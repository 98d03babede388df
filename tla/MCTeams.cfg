SPECIFICATION Spec
CONSTANTS
  Users = {u1, u2, u3}
  TeamIds = {t1}
  GroupIds = {g1}
  Requests = {p1, p2}
  SubadminCap = 1
  None = None
SYMMETRY Symmetry
INVARIANTS
  GroupMemberOnTeam
  AtMostOneAdmin
  SubadminCapRespected
  MembersOnlyInActiveTeams
  RequestsStayValid
PROPERTIES
  TeamLifecycle
  AdminLeavesOnlyByDisband
  RemovalIsAuthorised
  ImplementsMembership
