SPECIFICATION Spec
CONSTANTS
  Requests = {r1}
  Builds = {b1}
  Items = {i1}
  Limit = 1
  MaxFaults = 1
  Kinds <- AllKinds
  Faulty = FALSE
  None = None
INVARIANT RunningIsWritable
CHECK_DEADLOCK FALSE
