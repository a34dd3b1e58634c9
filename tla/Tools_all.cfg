SPECIFICATION Spec
CONSTANTS
  Invocations = {i1}
  ApprovalRequired = {i1}
  OperationIds = {p1}
  Keys = {k1, k2}
  Handlers = {h1, h2}
  DefinitionStatuses = {"active", "available"}
  DefinitionVersion = 1
  SnapshotVersion = 1
  MaxVersion = 2
PROPERTY ResultsOnce
INVARIANT ResultMatchesStatus
INVARIANT CalledAfterApproval
INVARIANT UnknownIsReconcilable
PROPERTY FinalUnlessInvoked
SYMMETRY Symmetry
CHECK_DEADLOCK FALSE
