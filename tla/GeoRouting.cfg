SPECIFICATION Spec
CONSTANTS
  k1 = k1  k2 = k2  k3 = k3  h1 = h1  h2 = h2  loop = loop  u2 = u2  c1 = c1  c2 = c2
  q1 = q1  q2 = q2  q3 = q3  s1 = s1  s2 = s2  jp = jp  us = us
  Caller = {k1, k2, k3}
  HostOf <- MCHostOf
  Updater = {loop, u2}
  Loop = loop
  Closer = {c1}
  MaxEntries = 1
  MaxDownloads = 1
  None = None
  Unknown = Unknown
  Request = {q1, q2, q3}
  Tunnelled = {q1}
  Wants <- MCWants
  Anywhere = Anywhere
  Stopper = {s1, s2}
  RegionIn <- MCRegionIn
  Other = Other
INVARIANTS GeoSound
PROPERTIES GeoEnds
CHECK_DEADLOCK FALSE
