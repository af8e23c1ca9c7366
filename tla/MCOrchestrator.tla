--------------------------- MODULE MCOrchestrator ---------------------------
(* Instances of Orchestrator for TLC.                                      *)
EXTENDS Orchestrator, TLC

Permuted == Permutations(Workers) \cup Permutations(Fingerprints)

=============================================================================
