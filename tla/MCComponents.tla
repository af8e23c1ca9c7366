---------------------------- MODULE MCComponents ----------------------------
(* What must not go wrong in the parts around the search: strategies,      *)
(* fault drivers, verdicts, the clock of the Python SDK, admission, sign-  *)
(* in, promises, the API's process and the run explorer.  Each behaviour   *)
(* is one of one part: the others stay in an initial state.                *)
EXTENDS Ucb1, TLC

CONSTANTS
  MaxSets,                                                     \* mcts
  Delays,                                                      \* bayesian
  Drivers, Domain,                                             \* pressure
  Runs,                                                        \* of several parts
  MaxStatements,                                               \* queries
  Messages, MaxStrikes,                                        \* messages
  MaxCalls, Network, Files, Pids,                              \* routing, verdicts
  RunIds, Filters, Matches, ListLimit, MaxReloads,             \* explorer
  FlakeRetries,                                                \* verdicts
  Clocks, Tasks, MaxNesting,                                   \* python clock
  Sessions, MaxRunsPerSession, MaxQueuedRuns, MaxRunsPerMonth, \* admission
  MaxTierChanges,
  States, Tenants, MaxCallbacks,                               \* sign-in
  Evidence, Torn, MaxSessions,                                 \* promises
  Demo, Real, MaxStarts                                        \* api server

VARIABLES
  part,
  tree, leafBySchedule, job, exported, resumptions, reports,
  scheduleTemplates, history, trial, saved, resumed, outcomes,
  installed, pressure,
  pooled, intercepting, tracker, database, delayed, sent, uncertain, broken,
  broker, place, running, ghosts, told, dropped, handled, strikes,
  context, engines, dice, calls, decided, events, pids, left,
  stored, filter, chosen, list, detail, heard,
  seeded, clocked, killed, records, verdict, replays,
  patched, depth, active, tokens, blocks, shared, overlaid,
  selfHosted, tier, usage, request, stage, waiting, backlog, changes, raced,
  oauthController, pendingStates, expired, issued, callbacks, called, profiles,
  combinator, promises, updateSnapshots, evidence, results, judged, snapFile, writer, written,
  session,
  kind, demoMode, retention, phase, isDemoEnv, created, missed, kept, old, swept, live, starts

mctsVars == <<tree, leafBySchedule, job, exported, resumptions, reports>>
bayesVars == <<scheduleTemplates, history, trial, saved, resumed, outcomes>>
pressureVars == <<installed, pressure>>
queryVars == <<pooled, intercepting, tracker, database, delayed, sent, uncertain, broken>>
messageVars == <<broker, place, running, ghosts, told, dropped, handled, strikes>>
routingVars == <<context, engines, dice, calls, decided, events, pids, left>>
explorerVars == <<stored, filter, chosen, list, detail, heard>>
verdictVars == <<seeded, clocked, killed, records, verdict, replays>>
pythonVars == <<patched, depth, active, tokens, blocks, shared, overlaid>>
admissionVars == <<selfHosted, tier, usage, request, stage, waiting, backlog, changes, raced>>
signInVars == <<oauthController, pendingStates, expired, issued, callbacks, called, profiles>>
promiseVars == <<combinator, promises, updateSnapshots, evidence, results, judged, snapFile,
                 writer, written, session>>
apiVars == <<kind, demoMode, retention, phase, isDemoEnv, created, missed, kept, old, swept,
             live, starts>>

searchVars == <<ucbVars, mctsVars, bayesVars>>
driverVars == <<pressureVars, queryVars, messageVars, routingVars>>
verdictsVars == <<verdictVars, promiseVars>>
serverVars == <<admissionVars, signInVars, apiVars, explorerVars>>
vars == <<part, searchVars, driverVars, verdictsVars, pythonVars, serverVars>>

M == INSTANCE Mcts
B == INSTANCE Bayesian WITH
       job <- trial, exported <- saved, resumptions <- resumed, reports <- outcomes,
       MaxSets <- MaxIssues
P == INSTANCE ResourcePressure
Q == INSTANCE QueryFaults WITH installed <- intercepting
G == INSTANCE MessageFaults
F == INSTANCE FaultRouting WITH Kinds <- Network
K == INSTANCE FaultRouting WITH Kinds <- Files
E == INSTANCE RunExplorer
V == INSTANCE Verdicts
Y == INSTANCE PythonClock
A == INSTANCE Admission
I == INSTANCE SignIn
J == INSTANCE Promises WITH verdict <- judged, snapshot <- snapFile
S == INSTANCE ApiServer WITH seeded <- created, stored <- kept

(* What the proofs assume of the constants.                                *)
ASSUME ComponentsAssumption ==
  /\ IsFiniteSet(Workers) /\ MaxSets \in Nat /\ None \notin M!Paths
  /\ IsFiniteSet(DOMAIN Delays) /\ DOMAIN Delays # {}
  /\ Domain \in [Drivers -> {"CPU", "MEMORY"}] /\ None \notin Drivers /\ None \notin Runs
  /\ MaxStatements \in Nat /\ MaxStrikes \in Nat /\ MaxCalls \in Nat
  /\ Network \subseteq {"http", "grpc"}
  /\ Files \subseteq {"fs promise", "fs callback", "fs sync", "fs stream", "spawn"}
  /\ ListLimit \in Nat /\ MaxReloads \in Nat /\ None \notin Filters
  /\ Matches \in [Filters -> SUBSET RunIds]
  /\ IsFiniteSet(Runs) /\ IsFiniteSet(Tasks) /\ MaxNesting \in Nat
  /\ IsFiniteSet(Sessions) /\ MaxRunsPerSession \in Nat /\ MaxQueuedRuns \in Nat
  /\ MaxTierChanges \in Nat /\ \A t \in DOMAIN MaxRunsPerMonth : MaxRunsPerMonth[t] \in Nat
  /\ MaxCallbacks \in Nat /\ None \notin Tenants
  /\ None \notin Evidence /\ MaxSessions \in Nat \ {0}
  /\ MaxStarts \in Nat /\ IsFiniteSet(Demo) /\ Demo = 1..Cardinality(Demo) /\ Demo \cap Real = {}
  /\ None \notin Seq(Ids) /\ None \notin Nat /\ None \notin BOOLEAN
  /\ None \notin {"reproduced", "intermittent", "not reproduced"}
  /\ None \notin {"error", "late error", "delay", "torn", "answer", "ignored", "kill"}

(* What the constants of the cfg are given.                                *)
InvalidBuckets == {<<1, 2>>}           \* the upper bucket of the first template
DelayRanges == <<{1, 2}, {}>>
ResourceOf == [d \in Drivers |-> IF d = CHOOSE m \in Drivers : TRUE THEN "MEMORY" ELSE "CPU"]
OldestOf == [f \in Filters |-> IF f = "all" THEN RunIds ELSE {CHOOSE r \in RunIds : TRUE}]
SeerLimit == [t \in {"SEER"} |-> 3]

(* Workers and runs are alike; only invariants are checked.                *)
Alike == Permutations(Workers) \cup Permutations(Runs)

Parts == {"ucb1", "mcts", "bayesian", "pressure", "queries", "messages", "routing",
          "files", "explorer", "verdicts", "python", "admission", "sign-in", "promises", "api"}

Init ==
  /\ part \in Parts
  /\ part # "queries" => pooled = TRUE /\ intercepting = TRUE
  /\ part # "messages" => broker = "sqs"
  /\ part # "explorer" => filter = "all"
  /\ part # "verdicts" => seeded = <<>> /\ clocked = {} /\ killed = {}
  /\ part # "admission" => tier = "PYTHIA" /\ selfHosted = FALSE
  /\ part # "promises" =>
       /\ combinator = "allOf" /\ promises = <<"other", "snapshot">>
       /\ updateSnapshots = TRUE /\ evidence = [r \in Runs |-> CHOOSE e \in Evidence : TRUE]
  /\ part # "api" => kind = "file"
  /\ UcbInit /\ M!Init /\ B!Init
  /\ P!Init /\ Q!Init /\ G!Init /\ F!Init
  /\ E!Init /\ V!Init /\ Y!Init /\ A!Init /\ I!Init /\ J!Init /\ S!Init

Search ==
  /\ \/ part = "ucb1" /\ UcbNext /\ UNCHANGED <<mctsVars, bayesVars>>
     \/ part = "mcts" /\ M!Next /\ UNCHANGED <<ucbVars, bayesVars>>
     \/ part = "bayesian" /\ B!Next /\ UNCHANGED <<ucbVars, mctsVars>>
  /\ UNCHANGED <<part, driverVars, verdictsVars, pythonVars, serverVars>>

FaultDrivers ==
  /\ \/ part = "pressure" /\ P!Next /\ UNCHANGED <<queryVars, messageVars, routingVars>>
     \/ part = "queries" /\ Q!Next /\ UNCHANGED <<pressureVars, messageVars, routingVars>>
     \/ part = "messages" /\ G!Next /\ UNCHANGED <<pressureVars, queryVars, routingVars>>
     \/ part = "routing" /\ F!Next /\ UNCHANGED <<pressureVars, queryVars, messageVars>>
     \/ part = "files" /\ K!Next /\ UNCHANGED <<pressureVars, queryVars, messageVars>>
  /\ UNCHANGED <<part, searchVars, verdictsVars, pythonVars, serverVars>>

Judging ==
  /\ \/ part = "verdicts" /\ V!Next /\ UNCHANGED promiseVars
     \/ part = "promises" /\ J!Next /\ UNCHANGED verdictVars
  /\ UNCHANGED <<part, searchVars, driverVars, pythonVars, serverVars>>

Python ==
  /\ part = "python" /\ Y!Next
  /\ UNCHANGED <<part, searchVars, driverVars, verdictsVars, serverVars>>

Server ==
  /\ \/ part = "admission" /\ A!Next /\ UNCHANGED <<signInVars, apiVars, explorerVars>>
     \/ part = "sign-in" /\ I!Next /\ UNCHANGED <<admissionVars, apiVars, explorerVars>>
     \/ part = "api" /\ S!Next /\ UNCHANGED <<admissionVars, signInVars, explorerVars>>
     \/ part = "explorer" /\ E!Next /\ UNCHANGED <<admissionVars, signInVars, apiVars>>
  /\ UNCHANGED <<part, searchVars, driverVars, verdictsVars, pythonVars>>

Next == Search \/ FaultDrivers \/ Judging \/ Python \/ Server

Spec == Init /\ [][Next]_vars

-----------------------------------------------------------------------------
(* What each variable may hold.                                            *)
TypeOK ==
  /\ part \in Parts
  /\ part = "ucb1" => UcbTypeOK
  /\ part = "mcts" => M!TypeOK
  /\ part = "bayesian" => B!TypeOK
  /\ part = "pressure" => P!TypeOK
  /\ part = "queries" => Q!TypeOK
  /\ part = "messages" => G!TypeOK
  /\ part \in {"routing", "files"} => F!TypeOK
  /\ part = "explorer" => E!TypeOK
  /\ part = "verdicts" => V!TypeOK
  /\ part = "python" => Y!TypeOK
  /\ part = "admission" => A!TypeOK
  /\ part = "sign-in" => I!TypeOK
  /\ part = "promises" => J!TypeOK
  /\ part = "api" => S!TypeOK

(* A strategy knows what its workers issued and reported: UCB1 gives two   *)
(* of them one bucket only when none is unvisited (ucb1.ts:22), the tree   *)
(* of MCTS is credited with what runs of its own buckets earned, once      *)
(* (mcts.ts:49), the history of the Bayesian search with every report      *)
(* (bayesian.ts:106).                                                      *)
StrategiesCredit == UnvisitedShared /\ M!VisitsAddUp /\ M!CreditEarned /\ B!ReportsCount

(* UCB1 shrinks a failure to the smallest set seen to fail, each of whose  *)
(* faults was tried without (ucb1.ts:137-143).                             *)
ShrunkToMinimal == MinimalIsSmallest /\ MinimalWasPruned

(* Pressure is guarded and ends with its session (watchdog.ts).            *)
PressureIsGuarded == P!PressureIsGuarded

(* PARTIAL_COMMIT breaks a transaction between its statements              *)
(* (query-fault.ts).                                                       *)
PartialIsHalf == Q!PartialIsHalf

(* Messages are lost by MESSAGE_LOSS only (kafka- and sqs-wrapper.ts).     *)
OnlyLossLoses == G!OnlyLossLoses

(* Repetitions of a run meet its faults (engine.ts, orchestrator.ts).      *)
FaultsReplay == F!FaultsReplay

(* The explorer shows what was asked for (useApiQuery.ts).                 *)
ShowsWhatWasAsked == E!ShowsWhatWasAsked

(* Summary, exit code, JUnit and replay agree (cli/src/index.ts).          *)
VerdictsAgree == V!VerdictsAgree

(* A task reads its own clock (clock.py).                                  *)
ScopedTime == Y!ScopedTime

(* Quota and backlog are kept but for what races allow (limits.ts).        *)
LimitsHold == A!LimitsHold

(* A sign-in state is redeemed once, by its tenant (sso.ts).               *)
RedeemedOnce == I!RedeemedOnce

(* Promises are judged by their parts and their snapshot (promise.ts).     *)
JudgedByItsParts == J!JudgedByItsParts

(* Demo data keeps apart (server.ts, demo-seed.ts).                        *)
DemoApart == S!DemoApart

=============================================================================
