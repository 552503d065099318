SPECIFICATION Spec
CONSTANTS
  t1 = t1  t2 = t2
  Thread = {t1, t2}
  Threshold = 2
  BlacklistDuration = 2
  TransientCooldown = 0
  RateLimitCooldown = 3
  DefaultCooldown = 1
  Kinds = {"permanent", "transient", "rateLimit"}
  PinFaults = TRUE
  BanLengths = {1, 4}
  MaxTime = 4
SYMMETRY Symmetry
INVARIANTS OperatorBanHolds CooldownSurvives MonitorInStep
PROPERTY OnlyReleasesShorten
