SPECIFICATION Spec
CONSTANTS
  t1 = t1
  t2 = t2
  d1 = d1
  d2 = d2
  Tasks = {t1, t2}
  Demands = {d1, d2}
  Parent <- Tree
  Attempts = {a1, a2}
  Troubles = {"error", "lost", "ignored", "blank"}
  MaxCalls = 2
  None = None
SYMMETRY Symmetry
INVARIANTS
  OnlyReferencedChange
  WritebackBeforeDone
  ClosedMeansDone
  CommentsAreEarned
  OnlyFailuresLeaveDemandsClosed
PROPERTY ClosingSpec
CHECK_DEADLOCK FALSE
