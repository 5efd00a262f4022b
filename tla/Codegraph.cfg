SPECIFICATION Spec
CONSTANTS
  Queries = {q1, q2}
  Builds = 2
  Members = 2
  Torn = Torn
  Mixed = Mixed
SYMMETRY Symmetry
INVARIANTS
  TypeOK
  ReadyIsVerified
  AnswerIsOfOneBuild
  NeverOlder
CHECK_DEADLOCK FALSE
