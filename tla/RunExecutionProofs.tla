------------------------- MODULE RunExecutionProofs -------------------------
(***************************************************************************)
(* Theorems about RunExecution, for any number of promises and events.     *)
(***************************************************************************)
EXTENDS RunExecution, TLAPS

(* How the places of executeRun, its body and its timer go together, what  *)
(* has been judged where, and that only a body that got its sandbox has a  *)
(* container.                                                              *)
Places ==
  /\ main = "idle" => body = "none" /\ timer = "none"
  /\ main = "race" => timer = "armed"
  /\ main \notin {"idle", "race"} => timer \in {"fired", "cleared"}
  /\ main \notin {"idle", "race"} /\ timer = "cleared" => body \in {"done", "failed"}
  /\ body \in {"none", "creating"} => ~sandbox
  /\ body = "starting" => sandbox
  /\ ~sandbox => container = "absent"

Judging ==
  /\ main \notin {"judging", "settled"} => judged = 0
  /\ main \notin {"idle", "race", "settled"} => status \in {"COMPLETED", "ERRORED"}
  /\ main = "settled" => judged = NumPromises

EInv == RunTypeOK /\ Places /\ Judging /\ OutcomeExpected /\ CleanUnlessTimedOut /\ Quiet

LEMMA EInit == RunAssumption /\ RunInit => EInv
<1> SUFFICES ASSUME RunAssumption, RunInit
             PROVE  EInv
  OBVIOUS
<1>1. provider \in Providers /\ engineOn \in BOOLEAN /\ sandbox \in BOOLEAN /\ named \in BOOLEAN
  BY Zenon DEF RunInit
<1>2. RunTypeOK
  BY <1>1 DEF RunInit, RunTypeOK, Statuses, RunAssumption
<1>3. Places /\ Judging /\ OutcomeExpected /\ CleanUnlessTimedOut /\ Quiet
  BY DEF RunInit, Places, Judging, OutcomeExpected, CleanUnlessTimedOut, Quiet
<1>4. QED
  BY <1>2, <1>3 DEF EInv

(* The steps of the body, whether or not it still decides the race.        *)
LEMMA BodyInv ==
  ASSUME RunAssumption, EInv, Body
  PROVE  EInv'
<1> USE RunAssumption
    DEF RunAssumption, EInv, RunTypeOK, Places, Judging, OutcomeExpected, CleanUnlessTimedOut,
        Quiet, Statuses, bodyVars, verdict, BodyEnds, Decide
<1>1. CASE CreateSandbox
  BY <1>1 DEF CreateSandbox
<1>2. CASE ContainerUp
  BY <1>2 DEF ContainerUp
<1>3. CASE RecordEvent
  BY <1>3 DEF RecordEvent
<1>4. CASE SandboxStarted
  BY <1>4 DEF SandboxStarted
<1>5. CASE SandboxFails
  BY <1>5 DEF SandboxFails
<1>6. ASSUME Pending, body # "starting", NEW end \in {"done", "failed"}, BodyEnds(end),
             UNCHANGED <<provider, sandbox, named, container, events, verdict>>
      PROVE  EInv'
  <2>1. CASE main # "race"
    BY <1>6, <2>1 DEF Pending
  <2>2. CASE main = "race" /\ sandbox
    BY <1>6, <2>2 DEF Pending
  <2>3. CASE main = "race" /\ ~sandbox
    <3>1. /\ main' = "judging" /\ engineOn' = FALSE /\ timer' = "cleared" /\ body' = end
          /\ status' \in {"COMPLETED", "ERRORED"} /\ container' = "absent"
      BY <1>6, <2>3
    <3>2. QED
      BY <1>6, <3>1
  <2>4. QED
    BY <2>1, <2>2, <2>3
<1>7. CASE CreateFails \/ WorkflowEnds
  BY <1>6, <1>7 DEF CreateFails, WorkflowEnds, Pending
<1>8. QED
  BY <1>1, <1>2, <1>3, <1>4, <1>5, <1>7 DEF Body

(* The verdict of the judged promises is one the orchestrator expects.     *)
LEMMA SettleInv ==
  ASSUME RunAssumption, EInv, Settle
  PROVE  EInv'
<1> USE DEF Settle, EInv
<1>1. /\ status \in {"COMPLETED", "ERRORED"} /\ failed \in 0..NumPromises
      /\ failed' = failed /\ main' = "settled"
      /\ status' = IF status = "COMPLETED" /\ failed > 0 THEN "FAILED" ELSE status
  BY DEF RunTypeOK, Judging, verdict
<1>2. OutcomeExpected'
  <2>1. CASE status' = "COMPLETED"
    BY <1>1, <2>1, RunAssumption DEF OutcomeExpected, Outcomes, RunAssumption
  <2>2. CASE status' = "FAILED"
    BY <1>1, <2>2, RunAssumption DEF OutcomeExpected, Outcomes, RunAssumption
  <2>3. CASE status' = "ERRORED"
    BY <1>1, <2>3, RunAssumption DEF OutcomeExpected, Outcomes, RunAssumption
  <2>4. QED
    BY <1>1, <2>1, <2>2, <2>3
<1>3. (RunTypeOK /\ Places /\ Judging /\ CleanUnlessTimedOut /\ Quiet)'
  BY <1>1 DEF RunTypeOK, Places, Judging, CleanUnlessTimedOut, Quiet, Statuses, bodyVars, verdict
<1>4. QED
  BY <1>2, <1>3

LEMMA EInvNext ==
  ASSUME RunAssumption, EInv, [RunNext]_executionVars
  PROVE  EInv'
<1>1. CASE Body
  BY <1>1, BodyInv
<1>2. CASE Settle
  BY <1>2, SettleInv
<1> USE RunAssumption
    DEF RunAssumption, EInv, RunTypeOK, Places, Judging, OutcomeExpected, CleanUnlessTimedOut,
        Quiet, Statuses, bodyVars, verdict
<1>3. CASE Launch
  BY <1>3 DEF Launch
<1>4. CASE TimerFires
  BY <1>4 DEF TimerFires, Decide
<1>5. CASE Stop
  BY <1>5 DEF Stop
<1>6. CASE Cleanup
  BY <1>6 DEF Cleanup
<1>7. CASE Evaluate
  BY <1>7 DEF Evaluate
<1>8. CASE UNCHANGED executionVars
  BY <1>8 DEF executionVars
<1>9. QED
  BY <1>1, <1>2, <1>3, <1>4, <1>5, <1>6, <1>7, <1>8 DEF RunNext, Main

LEMMA ExecutionInvariant == RunSpec => []EInv
<1>1. RunInit => EInv
  BY RunAssumption, EInit
<1>2. EInv /\ [RunNext]_executionVars => EInv'
  BY RunAssumption, EInvNext
<1>3. QED
  BY <1>1, <1>2, PTL DEF RunSpec

(* executeRun meets the contract of RunOutcomes, on which the orchestrator *)
(* model relies.                                                           *)
THEOREM OutcomesAreExpected == RunSpec => []OutcomeExpected
<1>1. EInv => OutcomeExpected
  BY DEF EInv
<1>2. QED
  BY <1>1, ExecutionInvariant, PTL

(* Without a timeout the finally block removes the container on every path.*)
THEOREM NoLeakWithoutTimeout == RunSpec => []CleanUnlessTimedOut
<1>1. EInv => CleanUnlessTimedOut
  BY DEF EInv
<1>2. QED
  BY <1>1, ExecutionInvariant, PTL

(* Promises are judged with the run's clock and timer put away.            *)
THEOREM JudgedInQuiet == RunSpec => []Quiet
<1>1. EInv => Quiet
  BY DEF EInv
<1>2. QED
  BY <1>1, ExecutionInvariant, PTL

=============================================================================
