SPECIFICATION Spec
CONSTANTS
  n1 = n1  n2 = n2  n3 = n3  t1 = t1  t2 = t2  c1 = c1  c2 = c2
  Entry = {n1}
  Probed = {n1}
  Trigger = {t1}
  Client = {c1, c2}
  MaxRuns = 2
  MaxTriggers = 1
CHECK_DEADLOCK FALSE
INVARIANTS OneCallback
PROPERTY HealthMovesForward
SYMMETRY ClientSymmetry
