SPECIFICATION Spec
CONSTANTS
  Threads = {t1}
  PolicyRefs = {p1}
  DefaultPolicy = p1
  NoPolicy = NoPolicy
  Overrides = {}
  Outputs <- LocalOutputs
  Workers = {w1}
  MaxRuns = 2
  MaxEvents = 2
  MaxConfig = 1
  MaxVersion = 1
  MaxLost = 0
  Evictions = {}
PROPERTY TerminalIsFinal
CHECK_DEADLOCK FALSE
