----------------------- MODULE MCAgentToolInvocations -----------------------
EXTENDS AgentToolInvocations, TLC

\* Neither the keys nor the requests in flight are told apart by the model.
Symmetry == Permutations(Keys) \cup Permutations(Handlers)
=============================================================================
