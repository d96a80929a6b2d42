----------------------------- MODULE MCRunStore -----------------------------
(* A small instance of RunStore for TLC.                                   *)
EXTENDS RunStore, TLC

\* Agents, Tool Calls and Interactions are only ever compared for equality.
Symmetry ==
  Permutations(Agent) \cup Permutations(ToolCallId) \cup Permutations(InteractionId)
=============================================================================
