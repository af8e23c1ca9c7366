----------------------------- MODULE MCExecution -----------------------------
(* The execution of a run, and the clocks that runs of one process install *)
(* for it.  Each behaviour is one of one part: the other stays in an       *)
(* initial state.                                                          *)
EXTENDS RunExecution, VirtualClock

VARIABLE part

Execution == part = "execution" /\ RunNext /\ UNCHANGED <<part, vars>>
Clocks == part = "clocks" /\ Next /\ UNCHANGED <<part, executionVars>>

BothInit ==
  /\ part \in {"execution", "clocks"}
  /\ part = "clocks" => provider = FALSE
  /\ RunInit /\ Init

(* The fairness of the two modules, of the part that goes on.              *)
BothFairSpec ==
  /\ BothInit /\ [][Execution \/ Clocks]_<<part, executionVars, vars>>
  /\ WF_executionVars(part = "execution" /\ Main)
  /\ WF_executionVars(part = "execution" /\ TimerFires)
  /\ WF_vars(part = "clocks" /\ CallbackEnds)
  /\ \A r \in Runs : SF_vars(part = "clocks" /\ Pump(r))

(* A run settles whatever its workflow or its sandbox does                 *)
(* (orchestrator.ts:363).                                                  *)
ExecutionSettles == part = "execution" => RunSettles

=============================================================================
