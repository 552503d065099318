SPECIFICATION FairSpec
CONSTANTS
  t1 = t1  t2 = t2  Main = Main
  Request = {t1, t2}
  Obj = {1, 2, 3, 4, 5}  NoObj = NoObj
  Sub = {0, 1, 2, 3}
  BadSubs = {1}
  ForeignSubs = {2}
  BadEdits = {2}
  RoutedEdits = {0, 2}
  Attempts = 4
  RollbackAttempts = 2
  EarlyRequests = FALSE
  MaxEdits = 2
  MaxConflicts = 1
  MaxReloads = 2
CHECK_DEADLOCK FALSE
INVARIANTS OneInstance ServiceSurvives RuntimeInStep
PROPERTY ReloadKeepsPorts
PROPERTY ShutdownCompletes
