SPECIFICATION Spec
CONSTANTS
  Threads = {t1}
  PolicyRefs = {p1}
  DefaultPolicy = p1
  NoPolicy = NoPolicy
  Overrides = {}
  Outputs <- AllOutputs
  Workers = {w1, w2}
  MaxRuns = 2
  MaxEvents = 3
  MaxConfig = 2
  MaxVersion = 2
  MaxLost = 1
  Evictions = {TRUE}
INVARIANT TypeOK
INVARIANT SingleActiveRun
INVARIANT ModelCalledOnce
INVARIANT EventsAccountedFor
PROPERTY NoCommitAfterInterrupt
PROPERTY CommitsOnce
PROPERTY CommitsCurrentGeneration
PROPERTY SlotSpec
PROPERTY SnapshotIsImmutable
CHECK_DEADLOCK FALSE
