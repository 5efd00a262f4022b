SPECIFICATION Spec
CONSTANTS
  Queries = {q1, q2}
  Builds = 2
  Members = 2
  Torn = Torn
  Mixed = Mixed
SYMMETRY Symmetry
INVARIANT MarkedIsPrepared
CHECK_DEADLOCK FALSE
