---------------------------- MODULE RunOutcomes ----------------------------
(***************************************************************************)
(* What one execution of the workflow can amount to: the contract between  *)
(* executeRun (module RunExecution, which meets it) and the orchestrator's *)
(* workers (module Orchestrator, which relies on it).                      *)
(***************************************************************************)
EXTENDS Naturals

CONSTANT NumPromises  \* run-scoped promises of the configuration

Statuses == {"COMPLETED", "FAILED", "INTERMITTENT", "ERRORED"}

(* What executeRun may resolve to: a promise that failed makes a completed *)
(* run FAILED; promises are evaluated for an errored run too.              *)
Outcomes ==
  [status : {"COMPLETED"}, failed : {0}]
    \cup [status : {"FAILED"}, failed : 1..NumPromises]
    \cup [status : {"ERRORED"}, failed : 0..NumPromises]

=============================================================================
