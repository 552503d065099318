SPECIFICATION AuthSpec
CONSTANTS
  l1 = l1  l2 = l2  l3 = l3  c1 = c1  old = old  new = new
  NoPassword = NoPassword
  Password = {old, new, NoPassword}
  Login = {l1, l2, l3}
  Client = {c1}
  MaxSessions = 2
  TTL = 2
  MaxTime = 3
  MaxChanges = 2
  None = None
PROPERTIES AuthSound
SYMMETRY AuthSymmetry
CHECK_DEADLOCK FALSE
