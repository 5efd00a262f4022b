SPECIFICATION Spec
CONSTANTS
  w1 = w1
  w2 = w2
  w3 = w3
  gone = gone
  i1 = i1
  i2 = i2
  i3 = i3
  parent = parent
  other = other
  b1 = b1
  b2 = b2
  both = both
  c1 = c1
  c2 = c2
  Workflows = {w1, w2, w3}
  WorkflowIds = {w1, w2, w3, gone}
  Refs = {i1, i2, i3, parent, other}
  Builds = {b1, b2, both}
  Commits = {c1, c2}
  Unknown = Unknown
  Threads = {a1, a2}
  TaskOf <- Task
  TreeOf <- Tree
  About <- Code
  Payloads <- Sample
  Window = 2
  MaxCalls = 3
  None = None
SYMMETRY Symmetry
INVARIANTS
  BindingInv
  NamedIsFound
  NoGuessBetweenTwo
CHECK_DEADLOCK FALSE
