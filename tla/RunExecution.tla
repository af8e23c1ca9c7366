---------------------------- MODULE RunExecution ----------------------------
(***************************************************************************)
(* One call of executeRun (packages/core/src/orchestrator.ts) with the     *)
(* DockerSandbox it may use (packages/core/src/sandbox/docker.ts).  Three  *)
(* parties race: the body (the inner async function that creates and       *)
(* starts the sandbox, or runs the workflow), the native timer of          *)
(* runTimeoutMs, and the Docker daemon, which carries out a `docker run`   *)
(* after it was issued whether or not anybody still waits for it.          *)
(*                                                                         *)
(* Promise.race and the finally block up to its first await run without    *)
(* giving the thread up, so they are part of the step that decides the     *)
(* race.  Docker commands other than `run` take effect when they end.      *)
(***************************************************************************)
EXTENDS RunOutcomes

CONSTANTS
  Providers,  \* whether a sandboxProvider is configured: a subset of BOOLEAN
  MaxEvents   \* bound: events the run's engine records

ASSUME RunAssumption ==
  /\ NumPromises \in Nat
  /\ MaxEvents \in Nat
  /\ Providers \subseteq BOOLEAN

VARIABLES
  provider,   \* config.sandboxProvider is set
  main,       \* where executeRun is
  body,       \* where the inner async function is
  timer,      \* the native timer
  engineOn,   \* the engine's clock is installed
  sandbox,    \* the variable `sandbox` is assigned
  named,      \* containerId is set: `docker run` has exited with success
  container,  \* what the Docker daemon has under the sandbox's name
  status,
  events,     \* length of the engine's events
  judged,     \* promises evaluated
  failed      \* promises that did not pass

bodyVars == <<body, sandbox, named, container>>
verdict == <<judged, failed>>
executionVars == <<provider, main, bodyVars, timer, engineOn, status, events, verdict>>

Pending == body \in {"creating", "starting", "workflow"}

-----------------------------------------------------------------------------
RunInit ==
  /\ provider \in Providers
  /\ main = "idle"
  /\ body = "none"
  /\ timer = "none"
  /\ engineOn = FALSE
  /\ sandbox = FALSE
  /\ named = FALSE
  /\ container = "absent"
  /\ status = "RUNNING"
  /\ events = 0
  /\ judged = 0
  /\ failed = 0

(* Fault: only the local workflow is raced against the timer.              *)
LaunchUntimed ==
  /\ main = "idle"
  /\ main' = "race"
  /\ engineOn' = TRUE
  /\ events' \in {0, 1} \cap 0..MaxEvents
  /\ body' = IF provider THEN "creating" ELSE "workflow"
  /\ timer' = IF provider THEN "none" ELSE "armed"
  /\ UNCHANGED <<provider, sandbox, named, container, status, verdict>>

(* The engine starts (a CLOCK schedule that hits records an event), the    *)
(* body runs to its first await, the timer is armed.                       *)
Launch ==
  /\ main = "idle"
  /\ main' = "race"
  /\ engineOn' = TRUE
  /\ events' \in {0, 1} \cap 0..MaxEvents
  /\ body' = IF provider THEN "creating" ELSE "workflow"
  /\ timer' = "armed"
  /\ UNCHANGED <<provider, sandbox, named, container, status, verdict>>

(* Fault: the sandbox is stopped only after a run that completed.          *)
DecideNoFinally(outcome, cause) ==
  /\ main = "race"
  /\ status' = outcome
  /\ timer' = cause
  /\ IF sandbox /\ outcome = "COMPLETED"
     THEN main' = "stopping" /\ UNCHANGED engineOn
     ELSE main' = "judging" /\ engineOn' = FALSE

(* The race is decided and the finally block runs to its first await: with *)
(* no sandbox in the variable there is nothing to await.                   *)
Decide(outcome, cause) ==
  /\ main = "race"
  /\ status' = outcome
  /\ timer' = cause
  /\ IF sandbox
     THEN main' = "stopping" /\ UNCHANGED engineOn
     ELSE main' = "judging" /\ engineOn' = FALSE

(* The body ends; when the race is over nobody hears of it.                *)
BodyEnds(end) ==
  /\ body' = end
  /\ \/ Decide(IF end = "done" THEN "COMPLETED" ELSE "ERRORED", "cleared")
     \/ main # "race" /\ UNCHANGED <<main, status, timer, engineOn>>

TimerFires ==
  /\ timer = "armed"
  /\ Decide("ERRORED", "fired")
  /\ UNCHANGED <<provider, bodyVars, events, verdict>>

(* createSandbox resolves and `docker run` is spawned, or it rejects.      *)
CreateSandbox ==
  /\ body = "creating"
  /\ sandbox' = TRUE
  /\ body' = "starting"
  /\ UNCHANGED <<provider, main, timer, engineOn, named, container, status, events, verdict>>

CreateFails ==
  /\ body = "creating"
  /\ BodyEnds("failed")
  /\ UNCHANGED <<provider, sandbox, named, container, events, verdict>>

(* The daemon has created the container of a `docker run` under way.       *)
ContainerUp ==
  /\ body = "starting"
  /\ container = "absent"
  /\ container' = "up"
  /\ UNCHANGED <<provider, main, body, sandbox, named, timer, engineOn, status, events, verdict>>

(* `docker run` exits with success: its output is the container's id.      *)
SandboxStarted ==
  /\ body = "starting"
  /\ container # "absent"
  /\ named' = TRUE
  /\ BodyEnds("done")
  /\ UNCHANGED <<provider, sandbox, container, events, verdict>>

(* It exits with an error, before or after it created the container.       *)
SandboxFails ==
  /\ body = "starting"
  /\ BodyEnds("failed")
  /\ UNCHANGED <<provider, sandbox, named, container, events, verdict>>

(* A driver records an event of the local workflow, or of work the         *)
(* workflow has started and does not await: its engine is reached through  *)
(* the async context, whether or not the workflow or the run is over, and  *)
(* the array is the one the promises are judged on and the record keeps.   *)
RecordEvent ==
  /\ main # "idle" /\ ~provider
  /\ events < MaxEvents
  /\ events' = events + 1
  /\ UNCHANGED <<provider, main, bodyVars, timer, engineOn, status, verdict>>

(* The workflow resolves or throws.                                        *)
WorkflowEnds ==
  /\ body = "workflow"
  /\ \E end \in {"done", "failed"} : BodyEnds(end)
  /\ UNCHANGED <<provider, sandbox, named, container, events, verdict>>

-----------------------------------------------------------------------------
(* sandbox.stop(): nothing without a container id.                         *)
Stop ==
  /\ main = "stopping"
  /\ main' = "cleaning"
  /\ container' = IF named /\ container = "up" THEN "stopped" ELSE container
  /\ UNCHANGED <<provider, body, sandbox, named, timer, engineOn, status, events, verdict>>

(* sandbox.cleanup() removes the container by its id or by its name, if it *)
(* is there by now; then the engine stops.                                 *)
Cleanup ==
  /\ main = "cleaning"
  /\ main' = "judging"
  /\ container' = IF container = "absent" THEN "absent" ELSE "gone"
  /\ engineOn' = FALSE
  /\ UNCHANGED <<provider, body, sandbox, named, timer, status, events, verdict>>

(* One promise is evaluated, also for a run that errored; evaluating it    *)
(* may throw, which counts as not passing.                                 *)
Evaluate ==
  /\ main = "judging"
  /\ judged < NumPromises
  /\ judged' = judged + 1
  /\ failed' \in {failed, failed + 1}
  /\ UNCHANGED <<provider, main, bodyVars, timer, engineOn, status, events>>

Settle ==
  /\ main = "judging"
  /\ judged = NumPromises
  /\ status' = IF status = "COMPLETED" /\ failed > 0 THEN "FAILED" ELSE status
  /\ main' = "settled"
  /\ UNCHANGED <<provider, bodyVars, timer, engineOn, events, verdict>>

Body ==
  \/ CreateSandbox \/ CreateFails
  \/ ContainerUp \/ SandboxStarted \/ SandboxFails
  \/ RecordEvent \/ WorkflowEnds

Main == Launch \/ Stop \/ Cleanup \/ Evaluate \/ Settle

RunNext == Body \/ Main \/ TimerFires

RunSpec == RunInit /\ [][RunNext]_executionVars

(* executeRun goes on whenever it is not waiting for the race (`docker     *)
(* stop`, `docker rm` and the evaluation of a promise end), and a timer    *)
(* that is armed fires.  Nothing is assumed of the body: a workflow or a   *)
(* `docker run` may hang.                                                  *)
FairRunSpec == RunSpec /\ WF_executionVars(Main) /\ WF_executionVars(TimerFires)

-----------------------------------------------------------------------------
RunTypeOK ==
  /\ provider \in Providers
  /\ main \in {"idle", "race", "stopping", "cleaning", "judging", "settled"}
  /\ body \in {"none", "creating", "starting", "workflow", "done", "failed"}
  /\ timer \in {"none", "armed", "fired", "cleared"}
  /\ engineOn \in BOOLEAN
  /\ sandbox \in BOOLEAN
  /\ named \in BOOLEAN
  /\ container \in {"absent", "up", "stopped", "gone"}
  /\ status \in Statuses \cup {"RUNNING"}
  /\ events \in 0..MaxEvents
  /\ judged \in 0..NumPromises
  /\ failed \in 0..judged

(* executeRun resolves to an outcome the orchestrator's workers expect: a  *)
(* failed promise exactly for a FAILED run that was not errored, never an  *)
(* INTERMITTENT or a RUNNING one.                                          *)
OutcomeExpected ==
  main = "settled" => [status |-> status, failed |-> failed] \in Outcomes

(* Unless the timer decided the race, no container of the run is left when *)
(* its promises are judged, on the error path as well.                     *)
CleanUnlessTimedOut ==
  main \in {"judging", "settled"} /\ timer # "fired" => container \in {"absent", "gone"}

(* While the promises are judged and after, the run's clock is uninstalled *)
(* and its timer cannot fire: no late timeout, no virtual time leaking     *)
(* into the verdict.                                                       *)
Quiet ==
  main \in {"judging", "settled"} => ~engineOn /\ timer \in {"fired", "cleared"}

(* "Cleanup must happen on the error path too, or a crashed run leaks its  *)
(* container" (orchestrator.ts:374): when the run is settled and nothing   *)
(* of it is under way, its container is gone.                              *)
NoContainerLeft ==
  main = "settled" /\ ~Pending => container \in {"absent", "gone"}

(* A run settles whatever its workflow or its sandbox does: the limit of   *)
(* runTimeoutMs bounds it.                                                 *)
RunSettles == <>(main = "settled")

=============================================================================
