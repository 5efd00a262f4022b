SPECIFICATION Spec
CONSTANTS
  Apps = {x, y}
  DefaultApp = x
  Configs = {c1}
  Keys = {k1, k2}
  Operators = {o1}
  Threads = {a1, a2}
  Lives = {0, 1, 5}
  Default = 5
  MaxChanges = 2
  None = None
SYMMETRY Symmetry
INVARIANTS
  TypeOK
  CachedIsAlive
  CachedIsOwn
  SettingsAreLastGiven
CHECK_DEADLOCK FALSE
