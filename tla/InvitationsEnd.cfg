SPECIFICATION Spec
CONSTANTS
  People = {u1}
  Teams = {t1}
  MaxRows = 2
  Requests = {p1, p2}
  None = None
PROPERTY PendingEndsSometime
