------------------------- MODULE MCAgentRegistration -------------------------
(***************************************************************************)
(* Constants of the runs of AgentRegistration.                             *)
(***************************************************************************)
EXTENDS AgentRegistration, TLC

\* The server actions are interchangeable, and so are the Workers.  The names
\* are not (SomeName).
Symmetry == Permutations(Requests) \cup Permutations(Origins)
=============================================================================
