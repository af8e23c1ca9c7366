----------------------------- MODULE MCServices -----------------------------
(* What must go on: the search and the execution of a queued run, and the  *)
(* services around them: webhooks, the calendar, the way of a session from *)
(* the CLI to a dashboard, and the AI commands.  Each behaviour is one of  *)
(* one service: the others stay in an initial state.                       *)
EXTENDS Naturals, FiniteSets, TLC

CONSTANTS
  Workers, Budgets, MaxDuplicates, FlakeRetries, EarlyExits,   \* search
  Fingerprints, NumPromises, CallbackThrows, MaxResumes, NoFingerprint,
  Deliveries, Attempts, CreateRejects, MaxDispatches,          \* run lock
  MaxCrashes, MaxStalls, MaxLapses,
  Subscriptions, EventTypes, Partial, MaxEvents, MaxAttempts,  \* webhooks
  Projects, Interval, MaxSessions, Chains,                     \* calendar
  Total, MaxDisconnects,                                       \* live
  Commands, Limit, Estimate, Costs, MaxTurns, MaxAsks,         \* agents
  None

VARIABLES
  service,
  iterations, earlyExit, flakeRetries, claimed, attempts, results, worst, earlyExited, seen,
  pc, job,
  dups, phase, snapshot, resumes,
  key, lapsed, at, fate, container, metered, queued, holder, made, dlq, dispatches,
  crashes, stalls,
  queue, processing, inFlight, backoff, types, settled, posts,
  registered, enabled, age, running, stopped, armed, timer, sessions, reports,
  started, recorded,
  source, requireUpload, cli, done, justSent, pending, progressPosts, sent, saved,
  upload, stream, subscribed, wire, shown, breaks,
  stage, todo, topic, cost, read, spend, cache, billed, missed, asks

searchVars == <<iterations, earlyExit, flakeRetries, claimed, attempts, results, worst,
                earlyExited, seen, pc, job, dups, phase, snapshot, resumes>>
lockVars == <<key, lapsed, at, fate, container, metered, queued, holder, made, dlq,
              dispatches, crashes, stalls>>
webhookVars == <<queue, processing, inFlight, backoff, types, settled, posts>>
calendarVars == <<registered, enabled, age, running, stopped, armed, timer, sessions,
                  reports, started, recorded>>
liveVars == <<source, requireUpload, cli, done, justSent, pending, progressPosts, sent,
              saved, upload, stream, subscribed, wire, shown, breaks>>
agentVars == <<stage, todo, topic, cost, read, spend, cache, billed, missed, asks>>
vars == <<service, searchVars, lockVars, webhookVars, calendarVars, liveVars, agentVars>>

(* Every subscription hears of all events, but for one.                    *)
Hears == [s \in Subscriptions |->
            IF s = Partial THEN {CHOOSE t \in EventTypes : TRUE} ELSE EventTypes]

O == INSTANCE Orchestrator
R == INSTANCE RunLock WITH pc <- at, job <- queued
W == INSTANCE WebhookWorker WITH Subscribed <- Hears
C == INSTANCE ChaosCalendar
L == INSTANCE LiveSession WITH posts <- progressPosts
A == INSTANCE AgentBudget

(* What the proofs assume of the constants.                                *)
ASSUME ServicesAssumption ==
  /\ O!SearchConstants /\ R!LockConstants
  /\ IsFiniteSet(Subscriptions) /\ EventTypes # {}
  /\ MaxEvents \in Nat /\ MaxAttempts \in Nat \ {0}
  /\ IsFiniteSet(Chains) /\ Interval \in Nat /\ MaxSessions \in Nat
  /\ Total \in Nat /\ MaxDisconnects \in Nat
  /\ IsFiniteSet(Commands) /\ Commands # {}
  /\ Limit \in Nat /\ Estimate \in Nat /\ MaxTurns \in Nat /\ MaxAsks \in Nat
  /\ Costs \subseteq 0..Estimate /\ 0 \in Costs
  /\ None \notin Nat /\ None \notin Chains

Init ==
  /\ service \in {"search", "run lock", "webhook", "calendar", "live", "agents"}
  /\ O!Init /\ R!Init /\ W!Init /\ C!Init /\ L!Init /\ A!Init
  /\ service # "search" => /\ iterations = 2 /\ ~earlyExit /\ flakeRetries = 0
                           /\ pc = O!Starting(Workers)
  /\ service # "live" => source = "cli" /\ ~requireUpload

Search == service = "search" /\ O!Next
          /\ UNCHANGED <<service, lockVars, webhookVars, calendarVars, liveVars, agentVars>>
Lock == service = "run lock" /\ R!Next
        /\ UNCHANGED <<service, searchVars, webhookVars, calendarVars, liveVars, agentVars>>
Webhook == service = "webhook" /\ W!Next
           /\ UNCHANGED <<service, searchVars, lockVars, calendarVars, liveVars, agentVars>>
Calendar == service = "calendar" /\ C!Next
            /\ UNCHANGED <<service, searchVars, lockVars, webhookVars, liveVars, agentVars>>
Live == service = "live" /\ L!Next
        /\ UNCHANGED <<service, searchVars, lockVars, webhookVars, calendarVars, agentVars>>
Agents == service = "agents" /\ A!Next
          /\ UNCHANGED <<service, searchVars, lockVars, webhookVars, calendarVars, liveVars>>

Next == Search \/ Lock \/ Webhook \/ Calendar \/ Live \/ Agents

(* The fairness of the modules, of the one service that goes on.           *)
Fairness ==
  /\ \A w \in Workers : WF_searchVars(service = "search" /\ O!WorkerStep(w))
  /\ WF_searchVars(service = "search" /\ (O!Return \/ O!Reject))
  /\ \A d \in Deliveries : /\ WF_lockVars(service = "run lock" /\ R!Handler(d))
                          /\ WF_lockVars(service = "run lock" /\ R!Expire(d))
  /\ WF_lockVars(service = "run lock" /\ \E d \in Deliveries : R!Deliver(d))
  /\ WF_lockVars(service = "run lock" /\ R!BackoffElapses)
  /\ WF_lockVars(service = "run lock" /\ R!Stall /\ holder # "none" /\ at[holder] = "dead")
  /\ WF_webhookVars(service = "webhook" /\ W!Work)
  /\ \A id \in (1..MaxEvents) \X Subscriptions :
       WF_webhookVars(service = "webhook" /\ W!RetryOf(id))
  /\ WF_liveVars(service = "live" /\ L!Cli)
  /\ \A a \in Commands : WF_agentVars(service = "agents" /\ A!Proceed(a))

Spec == Init /\ [][Next]_vars /\ Fairness

(* A search ends: run() settles, and so does every worker                  *)
(* (orchestrator.ts:173).                                                  *)
EveryWorkerEnds == service = "search" => O!EveryWorkerEnds

(* A dispatched run is handled or dead-lettered (handler.ts:93), unless a  *)
(* stalled job's retries met the lock of its first handler, or a process   *)
(* died before it dead-lettered the job.                                   *)
RunNotStuck == service = "run lock" => R!RunNotStuck

(* What each variable may hold.                                            *)
TypeOK == O!TypeOK /\ R!TypeOK /\ W!TypeOK /\ C!TypeOK /\ L!TypeOK /\ A!TypeOK

(* No delivery of a webhook is lost or in two places (webhook-worker.ts).  *)
NothingLostNorDoubled == W!NothingLostNorDoubled

(* Every delivery of a webhook ends, if only by its eighth attempt.        *)
EveryDeliverySettles == service = "webhook" => W!EveryDeliverySettles

(* No project has two sessions of the calendar at once, and a calendar that *)
(* is not stopped never falls asleep (calendar.ts).                        *)
CalendarKeepsOn == C!CalendarKeepsOn

(* What is shown or called complete is stored (app.ts, cli/src/index.ts).  *)
CompletedIsRecorded == L!CompletedIsRecorded

(* Commands of the CLI end: a run whatever becomes of the API, and an AI   *)
(* command whatever Claude answers.                                        *)
CommandsEnd ==
  /\ service = "live" => L!CommandEnds
  /\ service = "agents" => A!CommandsEnd

(* Concurrent AI commands exceed their budget by a bounded amount only     *)
(* (BudgetManager.ts).                                                     *)
OvershootIsBounded == A!OvershootIsBounded

=============================================================================
