SPECIFICATION Spec
CONSTANTS
  People = {u1, u2}
  Teams = {t1}
  MaxRows = 2
  Requests = {p1, p2}
  None = None
SYMMETRY Symmetry
INVARIANTS
  TypeOK
  SupersededHasSurvivor
  LockedRowsStayPending
PROPERTIES
  SettledIsFinal
  SeatsComeFromInvitations
