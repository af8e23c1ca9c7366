---------------------------- MODULE Orchestrator ----------------------------
(***************************************************************************)
(* SearchOrchestrator of packages/core/src/orchestrator.ts: `concurrency`  *)
(* async workers share one JavaScript thread.  A worker gives the thread   *)
(* up only while it awaits executeRun; between two awaits it claims a slot *)
(* of the budget, asks the strategy for schedules, skips what was tried    *)
(* before, and records what came back.  pc[w] = "loop" means that worker w *)
(* has the thread, so at most one worker is there.                         *)
(*                                                                         *)
(* Abstractions.  The schedules of an attempt appear only through their    *)
(* fingerprint, which is arbitrary.  executeRun is modelled by what it can *)
(* return (RunOutcomes; module RunExecution shows it).  A promise result   *)
(* is a verdict, so a record keeps the number of failed promises.          *)
(***************************************************************************)
EXTENDS Naturals, Sequences, FiniteSets, RunOutcomes

CONSTANTS
  Workers,        \* async workers, of which `concurrency` are started
  Budgets,        \* values config.iterations may have
  MaxDuplicates,  \* consecutive duplicates that end a worker: 50 in the code
  FlakeRetries,   \* the most config.flakeRetries may be, 2 by default
  EarlyExits,     \* values config.earlyExit may have
  Fingerprints,   \* fingerprints of the schedules the strategy can propose
  CallbackThrows, \* whether config.onRunComplete may throw
  MaxResumes,     \* bound: how often the process dies and is resumed
  NoFingerprint   \* the fingerprint of a malformed schedule: it has none

SearchConstants ==
  /\ IsFiniteSet(Workers) /\ Workers # {}
  /\ Budgets \subseteq Nat
  /\ MaxDuplicates \in Nat \ {0}
  /\ FlakeRetries \in Nat
  /\ EarlyExits \subseteq BOOLEAN /\ CallbackThrows \in BOOLEAN
  /\ NumPromises \in Nat
  /\ MaxResumes \in Nat
  /\ NoFingerprint \notin Fingerprints

ASSUME ConstantsAssumption == SearchConstants

Records == [attempt : Nat, fp : Fingerprints \cup {NoFingerprint},
            status : Statuses, failed : Nat]

Passed(r) == r.status = "COMPLETED"

VARIABLES
  iterations,   \* config.iterations of this orchestrator
  earlyExit,    \* config.earlyExit
  flakeRetries, \* config.flakeRetries
  claimed,      \* iterationsClaimed
  attempts,     \* attemptCounter
  results,      \* counted runs in completion order; iterationsDone is its length
  worst,        \* index of worstRun in results, 0 when undefined
  earlyExited,
  seen,         \* seenFingerprints: index of the cached record, 0 when absent
  pc,           \* where each worker is
  job,          \* the attempt a worker is executing
  dups,         \* consecutiveDuplicates of each worker
  phase,        \* of the promise run() returned
  snapshot,     \* the last exportState(), in a set that is empty before the first
  resumes       \* bound: resumes so far

config == <<iterations, earlyExit, flakeRetries>>
workerVars == <<pc, job, dups>>
stateVars == <<attempts, results, worst, earlyExited, seen>>
vars == <<config, claimed, stateVars, workerVars, phase, snapshot, resumes>>

iterationsDone == Len(results)

NoJob == [attempt |-> 0, fp |-> NoFingerprint, failed |-> 0, left |-> 0]

Executing == {w \in Workers : pc[w] \in {"exec", "retry"}}

ThreadFree == \A w \in Workers : pc[w] # "loop"

(* Array.from starts every worker before the first await can resume.       *)
AllStarted == \A w \in Workers : pc[w] # "start"

(* Math.max(1, config.concurrency || 1) workers are started.               *)
Starting(started) == [w \in Workers |-> IF w \in started THEN "start" ELSE "done"]

-----------------------------------------------------------------------------
Init ==
  /\ iterations \in Budgets
  /\ earlyExit \in EarlyExits
  /\ flakeRetries \in 0..FlakeRetries
  /\ claimed = 0
  /\ attempts = 0
  /\ results = <<>>
  /\ worst = 0
  /\ earlyExited = FALSE
  /\ seen = [f \in Fingerprints |-> 0]
  /\ \E started \in SUBSET Workers \ {{}} : pc = Starting(started)
  /\ job = [w \in Workers |-> NoJob]
  /\ dups = [w \in Workers |-> 0]
  /\ phase = "running"
  /\ snapshot = {}
  /\ resumes = 0

(* A worker takes the thread for the first time.                           *)
Begin(w) ==
  /\ pc[w] = "start"
  /\ ThreadFree
  /\ pc' = [pc EXCEPT ![w] = "loop"]
  /\ UNCHANGED <<config, claimed, stateVars, job, dups, phase, snapshot, resumes>>

(* Fault: the loop compares the finished runs, not the claimed slots.      *)
LoopOpenUnclaimed == iterationsDone < iterations /\ ~earlyExited

(* The condition of the worker's while loop.                               *)
LoopOpen == claimed < iterations /\ ~earlyExited

(* The loop ends, or fifty duplicates in a row say that the strategy has   *)
(* nothing new to propose.                                                 *)
Leave(w) ==
  /\ pc[w] = "loop"
  /\ LoopOpen => dups[w] >= MaxDuplicates
  /\ pc' = [pc EXCEPT ![w] = "done"]
  /\ UNCHANGED <<config, claimed, stateVars, job, dups, phase, snapshot, resumes>>

(* The strategy is asked for schedules.                                    *)
Asking(w) ==
  /\ pc[w] = "loop"
  /\ LoopOpen
  /\ dups[w] < MaxDuplicates
  /\ attempts' = attempts + 1

(* Fault: a run that failed as many promises takes the place of the first. *)
WorseOrEqual(r, i) == i = 0 \/ r.failed >= results[i].failed

WorseThan(r, i) == i = 0 \/ r.failed > results[i].failed

(* Fault: the flag follows the last run instead of staying set.            *)
ExitsOnLast(r) == ~Passed(r) /\ earlyExit

ExitsEarly(r) == earlyExited \/ (~Passed(r) /\ earlyExit)

(* recordRun, with the callback at its end: when onRunComplete throws, the *)
(* worker's promise rejects, the record stays counted.                     *)
RecordRun(w, r) ==
  /\ results' = Append(results, r)
  /\ worst' = IF ~Passed(r) /\ WorseThan(r, worst) THEN Len(results) + 1 ELSE worst
  /\ earlyExited' = ExitsEarly(r)
  /\ \E next \in {"loop"} \cup (IF CallbackThrows THEN {"threw"} ELSE {}) :
       pc' = [pc EXCEPT ![w] = next]
  /\ job' = [job EXCEPT ![w] = NoJob]

(* The schedules do not parse: an ERRORED run that is never executed.      *)
Malformed(w) ==
  /\ Asking(w)
  /\ claimed' = claimed + 1
  /\ RecordRun(w, [attempt |-> attempts, fp |-> NoFingerprint,
                   status |-> "ERRORED", failed |-> 0])
  /\ UNCHANGED <<config, seen, dups, phase, snapshot, resumes>>

Known(f) == seen[f] # 0

(* Fault: duplicates are counted modulo the limit and never reach it.      *)
DuplicateWraps(w, f) ==
  /\ pc[w] = "loop" /\ LoopOpen
  /\ Known(f)
  /\ dups' = [dups EXCEPT ![w] = (@ + 1) % MaxDuplicates]
  /\ UNCHANGED <<config, claimed, stateVars, pc, job,
                 phase, snapshot, resumes>>

(* The fingerprint has a recorded outcome: the slot is given back.         *)
Duplicate(w, f) ==
  /\ Asking(w)
  /\ Known(f)
  /\ dups' = [dups EXCEPT ![w] = @ + 1]
  /\ UNCHANGED <<config, claimed, results, worst, earlyExited, seen, pc, job,
                 phase, snapshot, resumes>>

(* The fingerprint is new: the worker claims the slot and awaits the run.  *)
Execute(w, f) ==
  /\ Asking(w)
  /\ ~Known(f)
  /\ claimed' = claimed + 1
  /\ dups' = [dups EXCEPT ![w] = 0]
  /\ pc' = [pc EXCEPT ![w] = "exec"]
  /\ job' = [job EXCEPT ![w] = [attempt |-> attempts, fp |-> f,
                                failed |-> 0, left |-> flakeRetries]]
  /\ UNCHANGED <<config, results, worst, earlyExited, seen, phase, snapshot, resumes>>

Resumable(w, at) == pc[w] = at /\ ThreadFree /\ AllStarted

(* The executed run is cached under its fingerprint and recorded.          *)
Record(w, status, failed) ==
  /\ seen' = [seen EXCEPT ![job[w].fp] = Len(results) + 1]
  /\ RecordRun(w, [attempt |-> job[w].attempt, fp |-> job[w].fp,
                   status |-> status, failed |-> failed])
  /\ UNCHANGED <<config, claimed, attempts, dups, phase, snapshot, resumes>>

Retries(o) == o.status = "FAILED" /\ flakeRetries > 0

(* The first execution of an attempt settles with an outcome that is final.*)
Settle(w, o) ==
  /\ Resumable(w, "exec")
  /\ ~Retries(o)
  /\ Record(w, o.status, o.failed)

(* It settles with a failure, which is tried again to tell it from a flake.*)
Suspect(w, o) ==
  /\ Resumable(w, "exec")
  /\ Retries(o)
  /\ pc' = [pc EXCEPT ![w] = "retry"]
  /\ job' = [job EXCEPT ![w].failed = o.failed]
  /\ UNCHANGED <<config, claimed, stateVars, dups, phase, snapshot, resumes>>

(* A retry fails too, and there are retries left.                          *)
RetryAgain(w, o) ==
  /\ Resumable(w, "retry")
  /\ o.status = "FAILED"
  /\ job[w].left > 1
  /\ job' = [job EXCEPT ![w].left = @ - 1]
  /\ UNCHANGED <<config, claimed, stateVars, pc, dups, phase, snapshot, resumes>>

(* The last retry settles the attempt: a pass makes it INTERMITTENT with   *)
(* the failures of the first execution, an error replaces the outcome, and *)
(* a failure that never went away is FAILED.                               *)
SettleRetry(w, o) ==
  /\ Resumable(w, "retry")
  /\ \/ o.status = "COMPLETED" /\ Record(w, "INTERMITTENT", job[w].failed)
     \/ o.status = "ERRORED" /\ Record(w, "ERRORED", o.failed)
     \/ o.status = "FAILED" /\ job[w].left = 1 /\ Record(w, "FAILED", job[w].failed)

-----------------------------------------------------------------------------
(* Promise.all resolves when every worker has left its loop.               *)
Return ==
  /\ phase = "running"
  /\ \A w \in Workers : pc[w] = "done"
  /\ phase' = "returned"
  /\ UNCHANGED <<config, claimed, stateVars, workerVars, snapshot, resumes>>

(* It rejects with the first worker that threw; the others go on.          *)
Reject ==
  /\ phase = "running"
  /\ AllStarted /\ ThreadFree
  /\ \E w \in Workers : pc[w] = "threw"
  /\ phase' = "rejected"
  /\ UNCHANGED <<config, claimed, stateVars, workerVars, snapshot, resumes>>

(* Fault: the fingerprints are not exported.                               *)
StateForgetsSeen == [attempts |-> attempts, results |-> results, worst |-> worst,
                     earlyExited |-> earlyExited, seen |-> [f \in Fingerprints |-> 0]]

(* exportState, serialized at once by the caller.                          *)
State == [attempts |-> attempts, results |-> results, worst |-> worst,
          earlyExited |-> earlyExited, seen |-> seen]

ExportState ==
  /\ resumes < MaxResumes
  /\ snapshot' = {State}
  /\ UNCHANGED <<config, claimed, stateVars, workerVars, phase, resumes>>

(* The process died or the session was over; SearchOrchestrator.resume     *)
(* imports the exported state under a configuration of its own, and run()  *)
(* starts as many workers as that one says.                                *)
Resume ==
  /\ resumes < MaxResumes
  /\ iterations' \in Budgets
  /\ earlyExit' \in EarlyExits
  /\ flakeRetries' \in 0..FlakeRetries
  /\ \E s \in snapshot :
       /\ claimed' = Len(s.results)
       /\ attempts' = s.attempts
       /\ results' = s.results
       /\ worst' = s.worst
       /\ earlyExited' = s.earlyExited
       /\ seen' = s.seen
  /\ \E started \in SUBSET Workers \ {{}} : pc' = Starting(started)
  /\ job' = [w \in Workers |-> NoJob]
  /\ dups' = [w \in Workers |-> 0]
  /\ phase' = "running"
  /\ resumes' = resumes + 1
  /\ UNCHANGED snapshot

WorkerStep(w) ==
  \/ Begin(w)
  \/ Leave(w)
  \/ Malformed(w)
  \/ \E f \in Fingerprints : Duplicate(w, f) \/ Execute(w, f)
  \/ \E o \in Outcomes :
       Settle(w, o) \/ Suspect(w, o) \/ RetryAgain(w, o) \/ SettleRetry(w, o)

Next ==
  \/ \E w \in Workers : WorkerStep(w)
  \/ Return
  \/ Reject
  \/ ExportState
  \/ Resume

Spec == Init /\ [][Next]_vars

(* The thread serves every worker that is not waiting, and executeRun      *)
(* settles: its native timer bounds the workflow.                          *)
Fairness == (\A w \in Workers : WF_vars(WorkerStep(w))) /\ WF_vars(Return \/ Reject)

FairSpec == Spec /\ Fairness

-----------------------------------------------------------------------------
Jobs == [attempt : Nat, fp : Fingerprints \cup {NoFingerprint},
         failed : Nat, left : Nat]

SnapshotOK(s) ==
  /\ s \in [attempts : Nat, results : Seq(Records), worst : Nat,
            earlyExited : BOOLEAN, seen : [Fingerprints -> Nat]]
  /\ s.worst \in 0..Len(s.results)
  /\ s.seen \in [Fingerprints -> 0..Len(s.results)]

TypeOK ==
  /\ iterations \in Budgets
  /\ earlyExit \in EarlyExits
  /\ flakeRetries \in 0..FlakeRetries
  /\ claimed \in Nat
  /\ attempts \in Nat
  /\ results \in Seq(Records)
  /\ worst \in 0..Len(results)
  /\ earlyExited \in BOOLEAN
  /\ seen \in [Fingerprints -> 0..Len(results)]
  /\ pc \in [Workers -> {"start", "loop", "exec", "retry", "done", "threw"}]
  /\ job \in [Workers -> Jobs]
  /\ \A w \in Executing : job[w].fp \in Fingerprints
  /\ dups \in [Workers -> 0..MaxDuplicates]
  /\ phase \in {"running", "returned", "rejected"}
  /\ \A s \in snapshot : SnapshotOK(s)
  /\ resumes \in 0..MaxResumes

(* A slot is claimed for every counted run and every run under way, and    *)
(* no run is under way beyond config.iterations, however many workers pass *)
(* the loop's condition at once: the budget cannot be overshot.            *)
BudgetAccounting ==
  /\ claimed = iterationsDone + Cardinality(Executing)
  /\ Executing # {} => claimed <= iterations

(* A run id is derived from the attempt number.  No two counted runs or    *)
(* runs under way share one, also after a resume.                          *)
DistinctIn(rs) == \A i, j \in DOMAIN rs : i # j => rs[i].attempt # rs[j].attempt

AttemptsDistinct ==
  /\ DistinctIn(results)
  /\ \A w \in Executing :
       /\ \A i \in DOMAIN results : results[i].attempt # job[w].attempt
       /\ \A v \in Executing \ {w} : job[v].attempt # job[w].attempt

(* worstRun is a run that did not pass, none failed more promises, and it  *)
(* is the first of those that failed as many; it is undefined exactly when *)
(* every counted run passed.                                               *)
IsWorst(rs, k) ==
  LET unpassed == {i \in DOMAIN rs : ~Passed(rs[i])}
  IN  /\ k = 0 <=> unpassed = {}
      /\ k # 0 => /\ k \in unpassed
                  /\ \A i \in unpassed : rs[i].failed <= rs[k].failed
                  /\ \A i \in unpassed : i < k => rs[i].failed < rs[k].failed

WorstRunIsWorst == IsWorst(results, worst)

(* What the strategy is told of a duplicate is the last counted outcome of *)
(* that fingerprint, and a fingerprint that was counted is always known,   *)
(* also after a resume and when two workers executed it at once.           *)
LatestIn(rs, cache) ==
  \A f \in Fingerprints :
    LET counted == {i \in DOMAIN rs : rs[i].fp = f}
    IN  /\ cache[f] = 0 <=> counted = {}
        /\ cache[f] # 0 => cache[f] \in counted /\ \A i \in counted : i <= cache[f]

SeenIsLatest == LatestIn(results, seen)

(* Workers that picked the same fingerprint before either was counted each *)
(* count it; nobody counts it afterwards.                                  *)
DuplicatesBounded ==
  \A f \in Fingerprints :
    Cardinality({i \in DOMAIN results : results[i].fp = f}) <= Cardinality(Workers)

(* "a schedule already tried does not consume budget" (ARCHITECTURE.md     *)
(* 169-170): a fingerprint is counted at most once.                        *)
DuplicatesNotCounted ==
  \A i, j \in DOMAIN results :
    i # j /\ results[i].fp \in Fingerprints => results[i].fp # results[j].fp

-----------------------------------------------------------------------------
(* The orchestrator implements the session its caller sees.                *)
TallyOf(rs) ==
  [s \in Statuses |-> Cardinality({i \in DOMAIN rs : rs[i].status = s})]

Session == INSTANCE SearchSession WITH
  Overrun <- Cardinality(Workers) - 1,
  budget <- iterations,
  tally <- TallyOf(results),
  exited <- earlyExited,
  late <- IF earlyExited THEN Cardinality(Executing) ELSE 0,
  saved <- {[tally |-> TallyOf(s.results), exited |-> s.earlyExited] : s \in snapshot}

(* Every step of the orchestrator is a step of the abstract session or     *)
(* leaves it unchanged.                                                    *)
ImplementsSession == Session!Spec

(* run() settles and every worker ends: the budget, the early exit or the  *)
(* limit on duplicates stops each of them, orphans of a rejected run too.  *)
EveryWorkerEnds ==
  <>[](phase # "running" /\ \A w \in Workers : pc[w] \in {"done", "threw"})

=============================================================================
