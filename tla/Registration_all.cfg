SPECIFICATION Spec
CONSTANTS
  Requests = {r1, r2}
  Names = {n1}
  Origins = {o1, o2}
  NoOrigin = NoOrigin
  MaxAttempts = 2
  Faults = {"late", "write", "crash"}
INVARIANT ActiveMeansInitialized
INVARIANT RegisteredStays
INVARIANT FailedLeavesNothing
INVARIANT AgentHasRow
INVARIANT AnswerIsReconcilable
SYMMETRY Symmetry
CHECK_DEADLOCK FALSE
