------------------------------ MODULE Verdicts ------------------------------
(***************************************************************************)
(* What the CLI says of one session: how its runs are judged and recorded  *)
(* (SearchOrchestrator.run), the exit code of `sibyl ci`, its JUnit report,*)
(* and what `sibyl replay` says of each run later, in another process.     *)
(*                                                                         *)
(* Abstractions.  An execution is its status and its events, which are the *)
(* fault decisions and what no seed decides: if the run's clock was skewed *)
(* by a CLOCK fault, the times at which that happened, and if a PROCESS    *)
(* fault killed a child, its pid.  The events of a run that passed are not *)
(* stored.  Runs are executed one after the other.                         *)
(***************************************************************************)
EXTENDS Naturals, FiniteSets, FiniteSetsExt

CONSTANTS
  Runs,
  FlakeRetries,
  Pids,     \* what the operating system calls a child
  None

VARIABLES
  seeded,   \* the runs whose workflow depends on nothing but seed and schedules,
            \* and what such a run comes to
  clocked,  \* those a CLOCK fault meets, under a clock that starts at the real time
  killed,   \* those a PROCESS fault meets
  records,  \* results: what is recorded of a run, None before
  verdict,  \* the session promise, None before the session is over
  replays   \* by run: what `sibyl replay` found

verdictVars == <<seeded, clocked, killed, records, verdict, replays>>

Statuses == {"COMPLETED", "FAILED", "ERRORED"}

(* Without schedules there are no decisions, but all may happen.           *)
NoFaults == [status : Statuses, events : {[decisions |-> "none", at |-> "none", pid |-> None]}]

(* The timelines there may be: the pid is in the payload of the event      *)
(* (process-wrapper.ts:29).                                                *)
Timelines(r, decisions, when) ==
  [decisions : {decisions},
   at : {IF r \in clocked THEN when ELSE "none"},
   pid : IF r \in killed THEN Pids ELSE {None}]

(* executeRun(), within the session or in a replay.                        *)
Executions(r, when) ==
  IF r \in DOMAIN seeded
    THEN [status : {seeded[r]}, events : Timelines(r, "as seeded", when)]
    ELSE [status : Statuses,
          events : Timelines(r, "as seeded", when) \cup Timelines(r, "others", when)]

(* What becomes of an outcome by the flake retries: a pass makes it        *)
(* INTERMITTENT, with its own events; an error replaces it.                *)
Confirmed(r, outcome) ==
  IF outcome.status # "FAILED" \/ FlakeRetries = 0 THEN {outcome}
  ELSE UNION {CASE retry.status = "COMPLETED" -> {[outcome EXCEPT !.status = "INTERMITTENT"]}
                [] retry.status = "ERRORED" -> {retry}
                [] retry.status = "FAILED" -> {outcome} : retry \in Executions(r, "retry")}

(* A schedule the strategy got wrong is recorded as errored, without       *)
(* schedules and events.                                                   *)
Malformed == [status |-> "ERRORED", schedules |-> FALSE, events |-> None]

Recorded(outcome) ==
  [status |-> outcome.status, schedules |-> TRUE,
   events |-> IF outcome.status = "COMPLETED" THEN None ELSE outcome.events]

-----------------------------------------------------------------------------
Init ==
  /\ \E R \in SUBSET Runs : seeded \in [R -> Statuses]
  /\ clocked \in SUBSET Runs /\ killed \in SUBSET Runs
  /\ records = [r \in Runs |-> None]
  /\ verdict = None
  /\ replays = [r \in Runs |-> None]

RecordRun(r) ==
  /\ verdict = None /\ records[r] = None
  /\ \E record \in {Malformed} \cup
          {Recorded(o) : o \in UNION {Confirmed(r, e) : e \in Executions(r, "search")}} :
       records' = [records EXCEPT ![r] = record]
  /\ UNCHANGED <<seeded, clocked, killed, verdict, replays>>

(* The search is over, perhaps early; the session promise is evaluated.    *)
EndSession ==
  /\ verdict = None
  /\ verdict' \in {"held", "broken"}
  /\ UNCHANGED <<seeded, clocked, killed, records, replays>>

Results == {r \in Runs : records[r] # None}
With(statuses) == {r \in Results : records[r].status \in statuses}

(* SearchResult: session promises count as failures.                       *)
SessionFailures == IF verdict = "broken" THEN 1 ELSE 0
Summary ==
  [totalRuns |-> Cardinality(Results),
   failures |-> Cardinality(With({"FAILED"})) + SessionFailures,
   passes |-> Cardinality(With({"COMPLETED"})),
   errored |-> Cardinality(With({"ERRORED"})),
   intermittent |-> Cardinality(With({"INTERMITTENT"}))]

(* Fault: errored runs are forgotten.                                      *)
BadUnlessErrored(allowIntermittent) ==
  Summary.failures + (IF allowIntermittent THEN 0 ELSE Summary.intermittent)

(* The exit code of `sibyl ci` is 1 if any is bad.                         *)
Bad(allowIntermittent) ==
  Summary.failures + Summary.errored
    + (IF allowIntermittent THEN 0 ELSE Summary.intermittent)

(* toJUnit(): of each testcase, <error>, <failure> or nothing.             *)
JUnit ==
  [errors |-> Cardinality(With({"ERRORED"})),
   failures |-> Cardinality({r \in Results : records[r].status \notin {"ERRORED", "COMPLETED"}})
                  + SessionFailures]

(* replayRun(): events are compared if there were any to compare with.     *)
StatusMatches(record, now) == now.status = record.status
TimelineDiffers(record, now) == record.events # None /\ record.events # now.events

(* `sibyl replay`; a run that was intermittent may go either way.          *)
Judged(record, now) ==
  IF StatusMatches(record, now) /\ ~TimelineDiffers(record, now) THEN "reproduced"
  ELSE IF record.status = "INTERMITTENT" /\ now.status # "ERRORED" THEN "intermittent"
  ELSE "not reproduced"

Replay(r) ==
  /\ verdict # None /\ records[r] # None /\ replays[r] = None
  /\ \E now \in IF records[r].schedules THEN Executions(r, "replay") ELSE NoFaults :
       replays' = [replays EXCEPT ![r] = Judged(records[r], now)]
  /\ UNCHANGED <<seeded, clocked, killed, records, verdict>>

Next == EndSession \/ \E r \in Runs : RecordRun(r) \/ Replay(r)

Spec == Init /\ [][Next]_verdictVars

-----------------------------------------------------------------------------
Events == [decisions : {"as seeded", "others", "none"},
           at : {"search", "retry", "replay", "none"}, pid : Pids \cup {None}]

TypeOK ==
  /\ DOMAIN seeded \subseteq Runs /\ \A r \in DOMAIN seeded : seeded[r] \in Statuses
  /\ clocked \subseteq Runs /\ killed \subseteq Runs
  /\ records \in [Runs -> [status : Statuses \cup {"INTERMITTENT"}, schedules : BOOLEAN,
                           events : Events \cup {None}] \cup {None}]
  /\ verdict \in {None, "held", "broken"}
  /\ replays \in [Runs -> {None, "reproduced", "intermittent", "not reproduced"}]

(* The verdicts agree: the build fails exactly if the JUnit report has     *)
(* something to show, with --allow-intermittent only if it has; the        *)
(* summary accounts for every run; retries never make a deterministic      *)
(* failure a flake; and replay blames the workflow ("depends on something  *)
(* outside the seed", cli/src/index.ts) only if it does, or for a CLOCK or *)
(* PROCESS fault or a malformed schedule (see ReplayReproduces and         *)
(* UnclockedReproduce).                                                    *)
VerdictsAgree ==
  /\ Bad(FALSE) = JUnit.failures + JUnit.errors
  /\ Bad(TRUE) > 0 => JUnit.failures + JUnit.errors > 0
  /\ Bad(FALSE) = 0 => Summary.passes = Summary.totalRuns
  /\ Summary.totalRuns + SessionFailures =
       Summary.passes + Summary.failures + Summary.errored + Summary.intermittent
  /\ \A r \in Results :
       /\ records[r].status = "INTERMITTENT" => r \notin DOMAIN seeded
       /\ replays[r] \in {"not reproduced", "intermittent"} =>
            \/ r \notin DOMAIN seeded \/ ~records[r].schedules
            \/ r \in clocked \/ r \in killed

(* "Because every fault decision comes from the seed, a deterministic      *)
(* workflow reproduces the original outcome and event timeline"            *)
(* (orchestrator.ts:283); "Timestamps are wall-clock under a real-time     *)
(* clock, so compare what was decided, not when" (session.ts:137).  Here   *)
(* of the runs no PROCESS fault met.                                       *)
Reproduces(r) ==
  records[r] # None /\ records[r].schedules => replays[r] \in {None, "reproduced"}

ReplayReproduces == \A r \in DOMAIN seeded : r \notin killed => Reproduces(r)

(* The same of the runs no CLOCK fault met: that what differs between two  *)
(* processes is left out of the comparison (session.ts:137-140).           *)
UnclockedReproduce == \A r \in DOMAIN seeded : r \notin clocked => Reproduces(r)

=============================================================================
