SPECIFICATION FairSpec
CONSTANTS
  NoKey = NoKey
  NoGate = NoGate
  NoNode = NoNode
  Key = {k1, k2}
  Proc = {p1, p2}
  Gate = {g1, g2}
  Node = {n1}
  Limits <- TwoLimits
  DefaultMax = 2
  DefaultTTL = 3
  MaxTime = 2
  MaxEpoch = 1
  MaxVersion = 1
INVARIANTS LeaseExclusive GatesCounted CacheSound
PROPERTIES BindingsAge ImplementsPromise WaiterServed
