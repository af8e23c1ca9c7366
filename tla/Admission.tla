----------------------------- MODULE Admission -----------------------------
(***************************************************************************)
(* The limits of one organization (packages/core/src/billing): how many    *)
(* runs it may have queued (enforceQueueAdmission) and how many its plan   *)
(* pays for in a month (BillingEnforcer.consumeRuns, UsageMeter), for      *)
(* search sessions that are requested at the same time.                    *)
(*                                                                         *)
(* The functions have no caller in the repository: a session is taken to   *)
(* be admitted, to consume its runs, and to enqueue them.                  *)
(***************************************************************************)
EXTENDS Naturals, FiniteSets

CONSTANTS
  Sessions,
  MaxRunsPerSession, MaxQueuedRuns,  \* OrgQueueLimits
  MaxRunsPerMonth,                   \* [tiers -> Nat], PYTHIA has no limit
  MaxTierChanges                     \* bound

VARIABLES
  selfHosted, \* isSelfHosted(): nothing is metered
  tier,
  usage,    \* usage.runsExecuted
  request,  \* by session: the runs it asks for
  stage,    \* by session
  waiting,  \* by session: its runs that are waiting or active
  backlog,  \* by session: what countQueuedRuns() told it
  changes,  \* bound: changes of the tier
  raced     \* history: the backlog was counted while another session was under way

admissionVars == <<selfHosted, tier, usage, request, stage, waiting, backlog, changes, raced>>

Tiers == DOMAIN MaxRunsPerMonth \cup {"PYTHIA"}

(* Runs, by session, that some sessions have together.                     *)
Jobs(some, count) ==
  {job \in some \X (1..MaxRunsPerSession) : job[2] <= count[job[1]]}
Queued == Cardinality(Jobs(Sessions, waiting))

Init ==
  /\ selfHosted \in BOOLEAN /\ tier \in Tiers
  /\ usage = 0
  /\ request = [s \in Sessions |-> 0] /\ stage = [s \in Sessions |-> "new"]
  /\ waiting = [s \in Sessions |-> 0] /\ backlog = [s \in Sessions |-> 0]
  /\ changes = 0 /\ raced = FALSE

At(s, to) == stage' = [stage EXCEPT ![s] = to]

(* enforceQueueAdmission(), which asks for the backlog.                    *)
Request(s, runs) ==
  /\ stage[s] = "new"
  /\ request' = [request EXCEPT ![s] = runs]
  /\ At(s, IF runs > MaxRunsPerSession THEN "limited" ELSE "counting")
  /\ UNCHANGED <<selfHosted, tier, usage, waiting, backlog, changes, raced>>

(* The queue counts; its answer is on its way.                             *)
Counted(s) ==
  /\ stage[s] = "counting"
  /\ backlog' = [backlog EXCEPT ![s] = Queued]
  /\ At(s, "counted")
  /\ raced' = (raced \/ \E u \in Sessions : stage[u] \in {"counted", "admitted", "paid"})
  /\ UNCHANGED <<selfHosted, tier, usage, request, waiting, changes>>

Admit(s) ==
  /\ stage[s] = "counted"
  /\ At(s, IF backlog[s] + request[s] > MaxQueuedRuns THEN "limited" ELSE "admitted")
  /\ UNCHANGED <<selfHosted, tier, usage, request, waiting, backlog, changes, raced>>

(* Fault: the limit is checked, but not together with what is asked.       *)
AffordableSoFar(runs) == selfHosted \/ tier = "PYTHIA" \/ usage < MaxRunsPerMonth[tier]

(* consumeRuns(): check and record in one step.                            *)
Affordable(runs) == selfHosted \/ tier = "PYTHIA" \/ usage + runs <= MaxRunsPerMonth[tier]

RecordRun(runs) == usage' = usage + (IF selfHosted THEN 0 ELSE runs)

Consume(s) ==
  /\ stage[s] = "admitted"
  /\ IF Affordable(request[s])
       THEN RecordRun(request[s]) /\ At(s, "paid")
       ELSE At(s, "payment required") /\ UNCHANGED usage
  /\ UNCHANGED <<selfHosted, tier, request, waiting, backlog, changes, raced>>

Enqueue(s) ==
  /\ stage[s] = "paid"
  /\ At(s, "queued")
  /\ waiting' = [waiting EXCEPT ![s] = request[s]]
  /\ UNCHANGED <<selfHosted, tier, usage, request, backlog, changes, raced>>

RunEnds(s) ==
  /\ waiting[s] > 0
  /\ waiting' = [waiting EXCEPT ![s] = @ - 1]
  /\ UNCHANGED <<selfHosted, tier, usage, request, stage, backlog, changes, raced>>

(* The organization changes its plan in the middle of the month.           *)
ChangeTier ==
  /\ changes < MaxTierChanges /\ changes' = changes + 1
  /\ tier' \in Tiers \ {tier}
  /\ UNCHANGED <<selfHosted, usage, request, stage, waiting, backlog, raced>>

Next ==
  \/ \E s \in Sessions :
       \/ \E runs \in 1..(MaxRunsPerSession + 1) : Request(s, runs)
       \/ Counted(s) \/ Admit(s) \/ Consume(s) \/ Enqueue(s) \/ RunEnds(s)
  \/ ChangeTier

-----------------------------------------------------------------------------
Stages == {"new", "counting", "counted", "limited", "admitted", "paid", "payment required",
           "queued"}

TypeOK ==
  /\ selfHosted \in BOOLEAN /\ tier \in Tiers /\ usage \in Nat /\ changes \in 0..MaxTierChanges
  /\ stage \in [Sessions -> Stages]
  /\ request \in [Sessions -> 0..(MaxRunsPerSession + 1)]
  /\ waiting \in [Sessions -> 0..MaxRunsPerSession]
  /\ backlog \in [Sessions -> 0..(MaxRunsPerSession * Cardinality(Sessions))]
  /\ raced \in BOOLEAN

(* Requests that race (enforcement.ts:34, limits.ts:42): the plan pays for *)
(* every run that is queued and, without a change of plan, for no more     *)
(* than it allows, a self-hosted organization for none; and the queue      *)
(* exceeds its limit only if a backlog was counted while another session   *)
(* was on its way into the queue.                                          *)
LimitsHold ==
  LET paid == {s \in Sessions : stage[s] \in {"paid", "queued"}}
  IN /\ usage = IF selfHosted THEN 0 ELSE Cardinality(Jobs(paid, request))
     /\ changes = 0 /\ tier # "PYTHIA" => usage <= MaxRunsPerMonth[tier]
     /\ ~raced => Queued <= MaxQueuedRuns

=============================================================================
