SPECIFICATION FairSpec
CONSTANTS
  Threads = {t1, t2}
  PolicyRefs = {p1, p2}
  DefaultPolicy = p1
  NoPolicy = NoPolicy
  Overrides = {p2}
  Outputs <- LocalOutputs
  Workers = {w1}
  MaxRuns = 3
  MaxEvents = 2
  MaxConfig = 1
  MaxVersion = 1
  MaxLost = 0
  Evictions = {}
INVARIANT NoLostWakeup
INVARIANT PendingWakeHasRow
INVARIANT EventsCovered
PROPERTY PendingIsServed
PROPERTY SlotIsReleased
CHECK_DEADLOCK FALSE
