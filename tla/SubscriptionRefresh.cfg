SPECIFICATION FairSpec
CONSTANTS
  e1 = e1  e2 = e2  r1 = r1
  Editor = {e1}
  Refresher = {r1}
  Setting = {0, 1}
  Timed = {1}
  Call = {1, 2, 3, 4}  NoCall = NoCall
  MaxEdits = 1
CHECK_DEADLOCK FALSE
PROPERTIES CallsFinish
INVARIANTS SendNeverBlocks RefreshUsesCurrent TimerFollowsSettings
