------------------------- MODULE MCAgentDeliveries -------------------------
EXTENDS AgentDeliveries, TLC

\* None of these is told apart by the model.
Symmetry ==
  UNION {Permutations(Callbacks), Permutations(Contexts), Permutations(Runs),
         Permutations(Deliveries), Permutations(Handlers)}
=============================================================================
