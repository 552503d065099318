SPECIFICATION FairSpec
CONSTANTS
  m1 = m1  m2 = m2  n1 = n1  n2 = n2  p1 = p1  p2 = p2
  Tag = {m1, m2}  Node = {n1, n2}  Proc = {p1, p2}
  Key = {k1}  NoKey = NoKey  NoNode = NoNode  NoTag = NoTag
  Identity <- OneUpstreamEach
  Networks <- UdpOnFirstOnly
  RetryAttempts = 2
  BlacklistFailedPin = TRUE
  NetsOf <- OneOfEach
  Kinds = {"permanent"}
  Threshold = 1
  BlacklistDuration = 1
  TransientCooldown = 1
  RateLimitCooldown = 1
  DefaultCooldown = 1
  MaxTime = 2
  MaxConns = 1
INVARIANTS ActiveExact AttemptBudget
PROPERTIES SessionStays StorePromised RequestReturns
