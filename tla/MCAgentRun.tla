----------------------------- MODULE MCAgentRun -----------------------------
(* Small instances of AgentRun for TLC. *)
EXTENDS AgentRun, TLC

Symmetry == Permutations(Agent) \cup Permutations(Run) \cup Permutations(Caller)
=============================================================================
