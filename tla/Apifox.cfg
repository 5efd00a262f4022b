SPECIFICATION Spec
CONSTANTS
  Callbacks = {c1, c2}
  Projects = {s, t}
  Service = s
  InEnvironment = TRUE
  MaxVersion = 2
  Payload = Payload
  None = None
SYMMETRY Symmetry
INVARIANTS
  TypeOK
  StraysAreMentioned
  OnlyBlindOverrule
  CheckedIsImported
CHECK_DEADLOCK FALSE
