SPECIFICATION FairSpec
CONSTANTS
  n1 = n1  n2 = n2  n3 = n3  t1 = t1  t2 = t2  c1 = c1  c2 = c2
  Entry = {n1, n2}
  Probed = {n1}
  Trigger = {t1, t2}
  Client = {}
  MaxRuns = 2
  MaxTriggers = 3
CHECK_DEADLOCK FALSE
PROPERTY SweepEnds
INVARIANTS ProgressExact TriggersCovered
