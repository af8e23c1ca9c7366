------------------------------ MODULE RunLock ------------------------------
(***************************************************************************)
(* The worker daemon (packages/worker/src/handler.ts, index.ts) and one    *)
(* run job of the BullMQ queue `simulation-run-queue`                      *)
(* (packages/core/src/queue/setup.ts).  The queue delivers the job to a    *)
(* handler; a job whose worker no longer renews it (the process died, or   *)
(* its event loop was blocked) is stalled and delivered again, while the   *)
(* first handler may still run.  What keeps two handlers from executing    *)
(* the run at once is a key in Redis that holds the token of its owner and *)
(* expires, and COMPLETED for good once the run is done.                   *)
(*                                                                         *)
(* A handler invocation is a delivery d and d is also its token.  Every    *)
(* await is a step.  The commands on the key and the queue wait for Redis  *)
(* as long as it takes (their connection has maxRetriesPerRequest: null,   *)
(* setup.ts:18) and their answers are not lost; the publication of the     *)
(* usage has a connection of its own with the default limit (index.ts:10)  *)
(* and may reject, and so may the start of a sandbox.                      *)
(***************************************************************************)
EXTENDS Naturals, FiniteSets

CONSTANTS
  Deliveries,    \* bound: the handler invocations, with their tokens
  Attempts,      \* opts.attempts of the job, 3 in dispatchSimulationRun
  CreateRejects, \* whether createSandbox may reject; DockerSandboxProvider's never does
  MaxDispatches, \* bound: how often the run is dispatched
  MaxCrashes,    \* bound: processes that die while they handle the job
  MaxStalls,     \* how often the queue redelivers a stalled job (BullMQ: once)
  MaxLapses      \* bound: locks that expire

LockConstants ==
  /\ "free" \notin Deliveries /\ "COMPLETED" \notin Deliveries /\ "none" \notin Deliveries
  /\ Attempts \in Nat \ {0}
  /\ CreateRejects \in BOOLEAN
  /\ MaxDispatches \in Nat /\ MaxCrashes \in Nat /\ MaxStalls \in Nat /\ MaxLapses \in Nat

ASSUME LockAssumption == LockConstants

VARIABLES
  key,        \* sibyl:run:<id>:status: "free", the owner's token, or "COMPLETED"
  lapsed,     \* owners whose lock expired
  pc,         \* where each handler is
  fate,       \* how each handler will settle
  container,  \* the sandbox of each handler
  metered,    \* handlers that published sibyl:usage
  job,        \* the job in the queue; absent once it completed
  holder,     \* the handler the queue waits for, "none" without one
  made,       \* job.attemptsMade
  dlq,        \* the job was added to the dead letter queue
  dispatches, crashes, stalls  \* bounds: how often so far

handlerVars == <<pc, fate, container, metered>>
queueVars == <<job, holder, made>>
counters == <<dispatches, crashes, stalls>>
vars == <<key, lapsed, handlerVars, queueVars, dlq, counters>>

(* Where a handler works on the run under the protection of the lock.      *)
Section(d) == pc[d] \in {"create", "start", "complete"}

GoTo(d, at) == pc' = [pc EXCEPT ![d] = at]

-----------------------------------------------------------------------------
Init ==
  /\ key = "free"
  /\ lapsed = {}
  /\ pc = [d \in Deliveries |-> "new"]
  /\ fate = [d \in Deliveries |-> "open"]
  /\ container = [d \in Deliveries |-> "none"]
  /\ metered = {}
  /\ job = "absent"
  /\ holder = "none"
  /\ made = 0
  /\ dlq = FALSE
  /\ dispatches = 0 /\ crashes = 0 /\ stalls = 0

(* dispatchSimulationRun: the job id is the run id, so while the job is in *)
(* the queue, also among the failed ones, adding it again changes nothing. *)
Dispatch ==
  /\ job = "absent"
  /\ dispatches < MaxDispatches
  /\ dispatches' = dispatches + 1
  /\ job' = "waiting"
  /\ made' = 0
  /\ UNCHANGED <<key, lapsed, handlerVars, holder, dlq, crashes, stalls>>

(* The queue hands the job to a worker, which calls handleRun.             *)
Deliver(d) ==
  /\ job = "waiting"
  /\ pc[d] = "new"
  /\ job' = "active"
  /\ holder' = d
  /\ GoTo(d, "acquire")
  /\ UNCHANGED <<key, lapsed, fate, container, metered, made, dlq, counters>>

(* Fault: the key is set whether or not another worker holds it.           *)
AcquireAnyway(d) ==
  /\ pc[d] = "acquire"
  /\ IF key # "COMPLETED" THEN key' = d /\ GoTo(d, "create")
                          ELSE UNCHANGED key /\ GoTo(d, "check")
  /\ UNCHANGED <<lapsed, fate, container, metered, queueVars, dlq, counters>>

(* SET key token PX ttl NX.                                                *)
Acquire(d) ==
  /\ pc[d] = "acquire"
  /\ IF key = "free" THEN key' = d /\ GoTo(d, "create")
                     ELSE UNCHANGED key /\ GoTo(d, "check")
  /\ UNCHANGED <<lapsed, fate, container, metered, queueVars, dlq, counters>>

(* job.updateProgress throws for a job the queue no longer has.            *)
Updated == IF job = "absent" THEN "error" ELSE "ok"

(* The key was taken: a completed run is skipped, any other is locked, and *)
(* so is one whose lock went away since.                                   *)
Check(d) ==
  /\ pc[d] = "check"
  /\ fate' = [fate EXCEPT ![d] = IF key = "COMPLETED" THEN Updated ELSE "locked"]
  /\ GoTo(d, "settle")
  /\ UNCHANGED <<key, lapsed, container, metered, queueVars, dlq, counters>>

(* createSandbox is awaited outside the try block: when it rejects the     *)
(* handler throws with its lock still held.                                *)
Create(d) ==
  /\ pc[d] = "create"
  /\ \/ GoTo(d, "start") /\ UNCHANGED fate
     \/ CreateRejects /\ GoTo(d, "settle") /\ fate' = [fate EXCEPT ![d] = "error"]
  /\ UNCHANGED <<key, lapsed, container, metered, queueVars, dlq, counters>>

(* sandbox.start runs the simulation, or throws into the catch block.      *)
Start(d) ==
  /\ pc[d] = "start"
  /\ \/ /\ container' = [container EXCEPT ![d] = "up"]
        /\ GoTo(d, "complete")
        /\ UNCHANGED fate
     \/ /\ fate' = [fate EXCEPT ![d] = "error"]
        /\ GoTo(d, "release")
        /\ UNCHANGED container
  /\ UNCHANGED <<key, lapsed, metered, queueVars, dlq, counters>>

(* COMPLETE_IF_OWNER, whose answer is ignored.                             *)
Complete(d) ==
  /\ pc[d] = "complete"
  /\ key' = IF key = d THEN "COMPLETED" ELSE key
  /\ GoTo(d, "progress")
  /\ UNCHANGED <<lapsed, fate, container, metered, queueVars, dlq, counters>>

Progress(d) ==
  /\ pc[d] = "progress"
  /\ fate' = [fate EXCEPT ![d] = Updated]
  /\ GoTo(d, IF job = "absent" THEN "release" ELSE "cleanup")
  /\ UNCHANGED <<key, lapsed, container, metered, queueVars, dlq, counters>>

(* Fault: the key is deleted whatever it holds.                            *)
ReleaseAnyway(d) ==
  /\ pc[d] = "release"
  /\ key' = "free"
  /\ GoTo(d, "cleanup")
  /\ UNCHANGED <<lapsed, fate, container, metered, queueVars, dlq, counters>>

(* Fault: the lock is left to expire.                                      *)
ReleaseNever(d) ==
  /\ pc[d] = "release"
  /\ GoTo(d, "cleanup")
  /\ UNCHANGED <<key, lapsed, fate, container, metered, queueVars, dlq, counters>>

(* RELEASE_IF_OWNER in the catch block.                                    *)
Release(d) ==
  /\ pc[d] = "release"
  /\ key' = IF key = d THEN "free" ELSE key
  /\ GoTo(d, "cleanup")
  /\ UNCHANGED <<lapsed, fate, container, metered, queueVars, dlq, counters>>

(* Fault: only the sandbox of a run that went well is removed.             *)
CleanupIfOk(d) ==
  /\ pc[d] = "cleanup"
  /\ container' = [container EXCEPT ![d] = IF @ = "up" /\ fate[d] = "ok" THEN "removed" ELSE @]
  /\ GoTo(d, "publish")
  /\ UNCHANGED <<key, lapsed, fate, metered, queueVars, dlq, counters>>

(* The finally block: stop and cleanup of the sandbox, then the usage.     *)
Cleanup(d) ==
  /\ pc[d] = "cleanup"
  /\ container' = [container EXCEPT ![d] = IF @ = "up" THEN "removed" ELSE @]
  /\ GoTo(d, "publish")
  /\ UNCHANGED <<key, lapsed, fate, metered, queueVars, dlq, counters>>

(* Fault: the error of the publication is swallowed.                       *)
PublishSilently(d) ==
  /\ pc[d] = "publish"
  /\ metered' \in {metered, metered \cup {d}}
  /\ GoTo(d, "settle")
  /\ UNCHANGED <<key, lapsed, fate, container, queueVars, dlq, counters>>

(* The usage goes to a connection that gives up after some retries: the    *)
(* finally block then throws, also after a run that went well.             *)
Publish(d) ==
  /\ pc[d] = "publish"
  /\ \/ metered' = metered \cup {d} /\ UNCHANGED fate
     \/ fate' = [fate EXCEPT ![d] = "error"] /\ UNCHANGED metered
  /\ GoTo(d, "settle")
  /\ UNCHANGED <<key, lapsed, container, queueVars, dlq, counters>>

-----------------------------------------------------------------------------
(* The handler's promise settles.  The queue takes the result only from    *)
(* the handler it waits for: a job that went well is removed, one that     *)
(* failed is delayed while it has attempts left.                           *)
Finish(d) ==
  /\ pc[d] = "settle"
  /\ holder = d
  /\ fate[d] = "ok"
  /\ job' = "absent"
  /\ holder' = "none"
  /\ GoTo(d, "over")
  /\ UNCHANGED <<key, lapsed, fate, container, metered, made, dlq, counters>>

Fail(d) ==
  /\ pc[d] = "settle"
  /\ holder = d
  /\ fate[d] # "ok"
  /\ made' = made + 1
  /\ job' = IF made + 1 < Attempts THEN "delayed" ELSE "failed"
  /\ holder' = "none"
  /\ GoTo(d, "failed")
  /\ UNCHANGED <<key, lapsed, fate, container, metered, dlq, counters>>

Ignored(d) ==
  /\ pc[d] = "settle"
  /\ holder # d
  /\ GoTo(d, "over")
  /\ UNCHANGED <<key, lapsed, fate, container, metered, queueVars, dlq, counters>>

(* The `failed` listener of the process that handled the job: to wait for  *)
(* another worker is not a failure of the run, and the last attempt goes   *)
(* to the dead letter queue.                                               *)
OnFailed(d) ==
  /\ pc[d] = "failed"
  /\ dlq' = (dlq \/ (fate[d] = "error" /\ made >= Attempts))
  /\ GoTo(d, "over")
  /\ UNCHANGED <<key, lapsed, fate, container, metered, queueVars, counters>>

(* The exponential backoff of a failed attempt is over.                    *)
BackoffElapses ==
  /\ job = "delayed"
  /\ job' = "waiting"
  /\ UNCHANGED <<key, lapsed, handlerVars, holder, made, dlq, counters>>

(* The handler's process dies; its container and its lock stay behind.     *)
(* Bound: the one the queue waits for dies only while the queue redelivers *)
(* stalled jobs; what BullMQ does with the job after that is left out.     *)
Crash(d) ==
  /\ pc[d] \notin {"new", "over", "dead"}
  /\ crashes < MaxCrashes
  /\ holder = d => stalls < MaxStalls
  /\ crashes' = crashes + 1
  /\ GoTo(d, "dead")
  /\ UNCHANGED <<key, lapsed, fate, container, metered, queueVars, dlq, dispatches, stalls>>

(* The queue no longer hears of the active job's handler, which is dead or *)
(* only slow, and delivers the job again without counting an attempt.      *)
Stall ==
  /\ job = "active"
  /\ stalls < MaxStalls
  /\ stalls' = stalls + 1
  /\ job' = "waiting"
  /\ holder' = "none"
  /\ UNCHANGED <<key, lapsed, handlerVars, made, dlq, dispatches, crashes>>

(* The lock's time to live is over.                                        *)
Expire(d) ==
  /\ key = d
  /\ Cardinality(lapsed) < MaxLapses
  /\ key' = "free"
  /\ lapsed' = lapsed \cup {d}
  /\ UNCHANGED <<handlerVars, queueVars, dlq, counters>>

Handler(d) ==
  \/ Acquire(d) \/ Check(d) \/ Create(d) \/ Start(d) \/ Complete(d) \/ Progress(d)
  \/ Release(d) \/ Cleanup(d) \/ Publish(d)
  \/ Finish(d) \/ Fail(d) \/ Ignored(d) \/ OnFailed(d)

Next ==
  \/ Dispatch \/ BackoffElapses \/ Stall
  \/ \E d \in Deliveries : Deliver(d) \/ Handler(d) \/ Crash(d) \/ Expire(d)

Spec == Init /\ [][Next]_vars

(* A handler that is not dead goes on, the queue delivers what waits and   *)
(* redelivers what a dead handler left, and a lock expires in the end.     *)
Fairness ==
  /\ \A d \in Deliveries : WF_vars(Handler(d)) /\ WF_vars(Expire(d))
  /\ WF_vars(\E d \in Deliveries : Deliver(d))
  /\ WF_vars(BackoffElapses)
  /\ WF_vars(Stall /\ holder # "none" /\ pc[holder] = "dead")

FairSpec == Spec /\ Fairness

-----------------------------------------------------------------------------
Places == {"new", "acquire", "check", "create", "start", "complete", "progress", "release",
           "cleanup", "publish", "settle", "failed", "over", "dead"}

TypeOK ==
  /\ key \in Deliveries \cup {"free", "COMPLETED"}
  /\ lapsed \subseteq Deliveries
  /\ pc \in [Deliveries -> Places]
  /\ fate \in [Deliveries -> {"open", "ok", "locked", "error"}]
  /\ container \in [Deliveries -> {"none", "up", "removed"}]
  /\ metered \subseteq Deliveries
  /\ job \in {"absent", "waiting", "active", "delayed", "failed"}
  /\ holder \in Deliveries \cup {"none"}
  /\ job = "active" <=> holder # "none"
  /\ made \in 0..Attempts
  /\ job \in {"waiting", "active", "delayed"} => made < Attempts
  /\ dlq \in BOOLEAN
  /\ dispatches \in 0..MaxDispatches /\ crashes \in 0..MaxCrashes /\ stalls \in 0..MaxStalls

(* "a duplicate delivery ran the same run twice concurrently" is over      *)
(* (handler.ts:59): two handlers execute the run at once only if the lock  *)
(* of one of them expired under it.                                        *)
OneExecutes ==
  \A d, e \in Deliveries : d # e /\ Section(d) /\ Section(e) => d \in lapsed \/ e \in lapsed

(* A run that is completed stays completed: no late, failing or duplicate  *)
(* handler takes the mark away.                                            *)
CompletedIsFinal == [][key = "COMPLETED" => key' = "COMPLETED"]_vars

(* "Release only our own lock, so a retry can start - never someone        *)
(* else's" (handler.ts:79): a handler that executes the run loses its lock *)
(* only by completing the run itself or to the time to live.               *)
LockIsOwn ==
  [][\A d \in Deliveries :
       key = d /\ Section(d) /\ key' # d => pc[d] = "complete" \/ d \in lapsed']_vars

(* "Release only our own lock, so a retry can start - never someone        *)
(* else's" (handler.ts:79), "proceeded anyway, so a duplicate delivery ran *)
(* the same run twice" (handler.ts:59): the key is a lease, for every      *)
(* interleaving of late, failing, crashed and duplicate handlers.          *)
Lease == INSTANCE RunLease WITH
           Handlers <- Deliveries,
           status <- key,
           executing <- {d \in Deliveries : Section(d)},
           expired <- lapsed

ImplementsLease == Lease!Spec

(* A run is marked COMPLETED only if a sandbox executed it.                *)
CompletedWasExecuted ==
  key = "COMPLETED" => \E d \in Deliveries : container[d] # "none"

(* A handler that settled, well or not, leaves no container behind, and    *)
(* whatever connection is lost, usage is not lost in silence: a handler    *)
(* whose sandbox was not metered throws (handler.ts:82), so that the job   *)
(* is tried again or dead-lettered.                                        *)
SettledIsClean ==
  \A d \in Deliveries :
    pc[d] \in {"settle", "failed", "over"} =>
      /\ container[d] # "up"
      /\ container[d] = "removed" /\ d \notin metered => fate[d] = "error"

(* The job is failed, no listener is still to act, and it is not in the    *)
(* dead letter queue either.                                               *)
GivenUp == job = "failed" /\ ~dlq /\ \A d \in Deliveries : pc[d] # "failed"

(* A redelivery of a stalled job met the lock of the handler before it, or *)
(* a process died on its way through the failure of the run.               *)
CaughtInStall ==
  \/ stalls > 0 /\ \E d \in Deliveries : fate[d] = "locked"
  \/ \E d \in Deliveries : pc[d] = "dead" /\ fate[d] = "error"

(* A run that waits in the queue is handled in the end, or dead-lettered   *)
(* for somebody to see (handler.ts:93), although sandboxes fail, usage     *)
(* cannot be published, locks expire and workers stall or die.  The two    *)
(* ways a job does get lost need a stall or a crash: retries that meet the *)
(* lock of a handler still at work, and a death before the listener acted. *)
RunNotStuck == job = "waiting" ~> job = "absent" \/ dlq \/ (GivenUp /\ CaughtInStall)

(* "a job whose retries are exhausted goes to the dead letter queue"       *)
(* (handler.ts:93).                                                        *)
ExhaustedIsDeadLettered == ~GivenUp

(* "A crashed worker's lock expires after this, so the run is not stuck    *)
(* forever" (handler.ts:24): a run whose worker died with the lock is      *)
(* handled in the end, or given up where somebody sees it.                 *)
CrashedRunNotStuck ==
  \A d \in Deliveries : pc[d] = "dead" /\ key = d ~> job = "absent" \/ dlq

=============================================================================
