------------------------ MODULE MCAgentRunScheduler ------------------------
(***************************************************************************)
(* Instances of AgentRunScheduler for TLC: the outputs a model may return  *)
(* in each question a run asks.                                            *)
(***************************************************************************)
EXTENDS AgentRunScheduler

Out(does, ends) == [does |-> does, ends |-> ends]

\* Outputs that neither wait nor emit.
LocalOutputs == {Out({"local"}, "completed"), Out({"local"}, "interrupted")}

\* One output of each kind, and one that both emits and waits.
AllOutputs ==
  {Out({"local"}, "completed"), Out({"respond"}, "completed"),
   Out({"emit_event", "respond"}, "completed"),
   Out({"request_human_approval"}, "completed"), Out({"emit_event"}, "failed")}
=============================================================================
