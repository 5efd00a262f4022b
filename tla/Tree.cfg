SPECIFICATION Spec
CONSTANTS
  w1 = w1
  w2 = w2
  w3 = w3
  Workflows = {w1, w2, w3}
  Plan <- Plans
  Blank <- Blanks
  Miscategorized = {w3}
  Sprints = {s1, s2}
  Threads = {a1, a2}
  MaxAttempts = 3
  MaxByHand = 1
  None = None
SYMMETRY Symmetry
INVARIANTS
  TypeOK
  BoundIsWhole
  NothingUnaccounted
  TreeInOneSprint
  SecondSprintNeedsRace
  DeletionIsPrefix
CHECK_DEADLOCK FALSE
