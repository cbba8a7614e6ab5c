---------------------------- MODULE MCAgentService ----------------------------
(* Instances of AgentService for TLC.                                       *)
EXTENDS AgentService, TLC

CONSTANTS run1, run2, call1, call2

\* Runs and callers are interchangeable; not used where liveness is checked.
Symmetric == Permutations(Runs) \cup Permutations(Callers)
=============================================================================
