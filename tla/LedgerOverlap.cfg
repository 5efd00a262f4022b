SPECIFICATION Spec
CONSTANTS
  Requests = {r1, r2}
  Builds = {b1, b2}
  Items = {i1}
  Limit = 1
  MaxFaults = 1
  Kinds <- AllKinds
  Faulty = TRUE
  None = None
SYMMETRY Symmetry
INVARIANTS
  LogAccountsForStatus
  FailureIsAttributed
  RetryOvershootBounded
  EarnedInv
  CloseIsEarned
PROPERTY LifecycleSpec
CHECK_DEADLOCK FALSE
