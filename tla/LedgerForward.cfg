SPECIFICATION FairSpec
CONSTANTS
  Requests = {r1, r2}
  Builds = {b1, b2}
  Items = {i1, i2}
  Limit = 1
  MaxFaults = 1
  Kinds <- ForwardKinds
  Faulty = FALSE
  None = None
INVARIANT ContextMatchesColumns
PROPERTY TaskCreatedLeadsOn
CHECK_DEADLOCK FALSE
