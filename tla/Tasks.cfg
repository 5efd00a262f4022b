SPECIFICATION Spec
CONSTANTS
  Tasks = {t1, t2}
  Threads = {a1, a2}
  Configured = TRUE
  EnvToken = TRUE
  MaxRequests = 3
  MaxRestarts = 1
  Limit = 2
  None = None
SYMMETRY Symmetry
INVARIANTS
  TypeOK
  StatusIsNewest
  TrailEndsInStatus
  AuditHidesOnlyLost
CHECK_DEADLOCK FALSE
