SPECIFICATION Spec
CONSTANTS
  t1 = t1
  t2 = t2
  d1 = d1
  d2 = d2
  Tasks = {t1, t2}
  Demands = {d1, d2}
  Parent <- Tree
  Attempts = {a1}
  Troubles = {"error"}
  MaxCalls = 2
  None = None
INVARIANT DemandsKeepTheirStatus
CHECK_DEADLOCK FALSE
