----------------------------- MODULE MCRunLock -----------------------------
(* Instances of RunLock for TLC.                                           *)
EXTENDS RunLock, TLC

Permuted == Permutations(Deliveries)

=============================================================================
