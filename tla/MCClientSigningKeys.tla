------------------------ MODULE MCClientSigningKeys ------------------------
EXTENDS ClientSigningKeys, TLC

\* Keys, Agent IDs and server actions are not told apart by the model.
Symmetry == Permutations(Keys) \cup Permutations(Agents) \cup Permutations(Requests)
=============================================================================
