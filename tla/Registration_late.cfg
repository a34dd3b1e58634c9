SPECIFICATION Spec
CONSTANTS
  Requests = {r1}
  Names = {n1}
  Origins = {o1}
  NoOrigin = NoOrigin
  MaxAttempts = 2
  Faults = {"late"}
INVARIANT NoAgentAfterFailure
CHECK_DEADLOCK FALSE
