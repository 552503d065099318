SPECIFICATION FilesSpec
CONSTANTS
  p1 = p1
  p2 = p2
  p3 = p3
  w1 = w1
  w2 = w2
  w3 = w3
  w4 = w4
  r1 = r1
  i1 = i1
  i2 = i2
  i3 = i3
  i4 = i4
  nodes = nodes
  subscriptions = subscriptions
  management = management
  Process = {p1, p2, p3}
  InPlace = {p3}
  Writer = {w1, w2, w3, w4}
  Reader = {r1}
  ProcessOf <- MCProcessOf
  GroupOf <- MCGroupOf
  MaxAttempts = 2
  Inode = {i1, i2, i3, i4}
  NoInode = NoInode
  None = None
  Torn = Torn
  Garbled = Garbled
  Lost <- MCLost
  MaxSaves = 1
  MaxCrashes = 1
INVARIANTS UpdatesKept ReadsWhole
PROPERTY SavesFinish
CHECK_DEADLOCK FALSE
