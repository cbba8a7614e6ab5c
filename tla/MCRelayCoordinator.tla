-------------------------- MODULE MCRelayCoordinator --------------------------
(* Instances of RelayCoordinator for TLC.                                   *)
EXTENDS RelayCoordinator, TLC

CONSTANTS lead, reviewer, stop1, stop2, int1, int2

OneAgent  == <<lead>>
TwoAgents == <<lead, reviewer>>

\* Every claim that starts a run has been counted as an attempt, so run
\* identifiers cannot run out before attempts do.
ASSUME RunsSuffice == MaxRuns >= NumTurns * MaxAttempts
=============================================================================
