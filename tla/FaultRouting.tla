---------------------------- MODULE FaultRouting ----------------------------
(***************************************************************************)
(* How a call of a workflow meets a fault: a driver that wraps http, grpc, *)
(* fs or child_process asks the engine of the run the call belongs to,     *)
(* which rolls its dice, and records what it injects                       *)
(* (SearchOrchestrator.installContextAwareDrivers, SimulationEngine,       *)
(* packages/fault-drivers).  The runs are one run of a session and its     *)
(* repetitions, by flake retries and by `sibyl replay`: all have one seed  *)
(* and one list of schedules.                                              *)
(*                                                                         *)
(* Abstractions.  There is a schedule for each domain, which always        *)
(* matches, so a decision is one roll.  A fault is what it does to the     *)
(* call.  A run makes its calls one after the other.  Of the payload of an *)
(* event only what no seed decides is kept: the pid of a killed child.     *)
(***************************************************************************)
EXTENDS Naturals, Sequences, FiniteSets

CONSTANTS
  Runs,
  MaxCalls,  \* bound: calls of a run
  Kinds,     \* of "http", "grpc", "fs promise", "fs callback", "fs sync",
             \* "fs stream" and "spawn"
  Pids,      \* what the operating system calls a child, -1 if it did not start
  None

VARIABLES
  context,  \* the drivers have one
  engines,  \* the runs that have started
  dice,     \* what the seed rolls: of a domain and a position, the fault
  calls,    \* history, by run: the domains it called with the drivers in place
  decided,  \* by run: the decisions of its engine, in order
  events,   \* by run: engine.events
  pids,     \* by run: of each event the pid in its payload, None where there is none
  left      \* by run: what is still to happen to its call

routingVars == <<context, engines, dice, calls, decided, events, pids, left>>

DomainOf(kind) ==
  CASE kind = "http" -> "HTTP"
    [] kind = "grpc" -> "GRPC"
    [] kind = "spawn" -> "PROCESS"
    [] OTHER -> "FILESYSTEM"

Domains == {"HTTP", "GRPC", "PROCESS", "FILESYSTEM"}

(* CONNECTION_REFUSED, PERMISSION_DENIED, DISK_FULL, UNAVAILABLE and       *)
(* RESOURCE_EXHAUSTED are errors, TIMEOUT and DEADLINE_EXCEEDED late ones; *)
(* SLOW_RESPONSE and SLOW_IO delay; PARTIAL_RESPONSE and PARTIAL_WRITE     *)
(* tear; HTTP_4XX and HTTP_5XX answer; CRASH, OOM_KILL, SIGTERM kill.  Of  *)
(* DUPLICATE_RESPONSE, DNS_FAILURE and TLS_HANDSHAKE_FAILURE only an event *)
(* is recorded.                                                            *)
FaultsOf(domain) ==
  CASE domain = "HTTP" -> {"error", "late error", "delay", "torn", "answer", "ignored"}
    [] domain = "GRPC" -> {"error", "late error"}
    [] domain = "FILESYSTEM" -> {"error", "delay", "torn"}
    [] domain = "PROCESS" -> {"kill"}

(* What happens to a call: all or half of the operation is carried out, a  *)
(* timer runs, the caller is told, the child is killed.                    *)
Pass == <<"all", "ok">>

HttpScript(fault) ==
  CASE fault = "error" -> <<"failed">>
    [] fault = "late error" -> <<"timer", "failed">>
    [] fault = "delay" -> <<"timer">> \o Pass
    [] fault = "answer" -> <<"status">>
    [] fault = "torn" -> <<"status", "timer", "failed">>
    [] fault = "ignored" -> Pass

GrpcScript(fault) ==
  IF fault = "error" THEN <<"failed">> ELSE <<"timer", "failed">>

(* decide() is asked by all four; only writeFile and appendFile with data  *)
(* are torn; a stream fails or waits where it opens its file.              *)
FsScripts(kind, fault) ==
  CASE fault = "error" -> {<<"failed">>}
    [] fault = "torn" -> {Pass} \cup (IF kind = "fs stream" THEN {} ELSE {<<"half", "failed">>})
    [] fault = "delay" -> {CASE kind \in {"fs promise", "fs stream"} -> <<"timer">> \o Pass
                             [] kind = "fs callback" -> <<"all", "timer", "ok">>
                             [] kind = "fs sync" -> Pass}

Scripts(kind, fault) ==
  IF fault = None THEN {Pass}
  ELSE CASE kind = "http" -> {HttpScript(fault)}
         [] kind = "grpc" -> {GrpcScript(fault)}
         [] kind = "spawn" -> {Pass \o <<"timer", "killed">>}
         [] OTHER -> FsScripts(kind, fault)

-----------------------------------------------------------------------------
Init ==
  /\ context = FALSE
  /\ engines = {}
  /\ dice = <<>>
  /\ calls = [r \in Runs |-> <<>>]
  /\ decided = [r \in Runs |-> <<>>]
  /\ events = [r \in Runs |-> <<>>]
  /\ pids = [r \in Runs |-> <<>>]
  /\ left = [r \in Runs |-> <<>>]

(* install() or uninstall() of all drivers, also while the workflow of a   *)
(* run that timed out goes on.                                             *)
Toggle ==
  /\ context' = ~context
  /\ UNCHANGED <<engines, dice, calls, decided, events, pids, left>>

(* executeRun(): a new engine, from the seed.                              *)
StartRun(r) ==
  /\ r \notin engines /\ context
  /\ engines' = engines \cup {r}
  /\ UNCHANGED <<context, dice, calls, decided, events, pids, left>>

(* Fault: one stream for all domains.                                      *)
RollOfRun(r, domain) == Len(decided[r]) + 1

(* The stream of a domain is forked from the seed, once.                   *)
Roll(r, domain) == Cardinality({i \in DOMAIN decided[r] : decided[r][i].domain = domain}) + 1

(* recordEvent() of the engine of run r: a PROCESS event has the pid of    *)
(* the child that was just spawned (process-wrapper.ts:27).                *)
RecordEvent(r, domain, fault) ==
  \E pid \in IF domain = "PROCESS" THEN Pids ELSE {None} :
    /\ events' = [events EXCEPT ![r] = Append(@, [domain |-> domain, fault |-> fault])]
    /\ pids' = [pids EXCEPT ![r] = Append(@, pid)]

(* evaluateFaultDecision() of the engine of run r, and the event.          *)
Decide(r, domain, fault) ==
  LET roll == <<domain, Roll(r, domain)>>
  IN /\ roll \in DOMAIN dice => fault = dice[roll]
     /\ dice' = [x \in DOMAIN dice \cup {roll} |-> IF x = roll THEN fault ELSE dice[x]]
     /\ decided' = [decided EXCEPT ![r] = Append(@, [domain |-> domain, fault |-> fault])]
     /\ IF fault = None THEN UNCHANGED <<events, pids>> ELSE RecordEvent(r, domain, fault)

(* A call made in run r, which AsyncLocalStorage leads to its engine.  (A  *)
(* call outside of every run passes through: no engine rolls for it.)      *)
Call(r, kind) ==
  /\ r \in engines /\ left[r] = <<>> /\ Len(calls[r]) < MaxCalls
  /\ IF context
       THEN /\ calls' = [calls EXCEPT ![r] = Append(@, DomainOf(kind))]
            /\ \E fault \in FaultsOf(DomainOf(kind)) \cup {None} :
                 /\ Decide(r, DomainOf(kind), fault)
                 /\ \E script \in Scripts(kind, fault) : left' = [left EXCEPT ![r] = script]
       ELSE /\ left' = [left EXCEPT ![r] = Pass]
            /\ UNCHANGED <<dice, calls, decided, events, pids>>
  /\ UNCHANGED <<context, engines>>

(* The next thing happens to the call of run r.                            *)
Proceed(r) ==
  /\ left[r] # <<>>
  /\ left' = [left EXCEPT ![r] = Tail(@)]
  /\ UNCHANGED <<context, engines, dice, calls, decided, events, pids>>

Next ==
  \/ Toggle
  \/ \E r \in Runs : StartRun(r) \/ Proceed(r) \/ \E kind \in Kinds : Call(r, kind)

-----------------------------------------------------------------------------
Decision == [domain : Domains, fault : {None} \cup UNION {FaultsOf(d) : d \in Domains}]
Happening == {"all", "half", "timer", "ok", "status", "failed", "killed"}

TypeOK ==
  /\ context \in BOOLEAN
  /\ engines \subseteq Runs
  /\ DOMAIN dice \subseteq Domains \X (1..MaxCalls)
  /\ calls \in [Runs -> Seq(Domains)]
  /\ decided \in [Runs -> Seq(Decision)] /\ events \in [Runs -> Seq(Decision)]
  /\ pids \in [Runs -> Seq(Pids \cup {None})]
  /\ left \in [Runs -> Seq(Happening)]

(* Which decision about its domain the i-th decision of run r is.          *)
Turn(r, i) == Cardinality({j \in 1..i : decided[r][j].domain = decided[r][i].domain})

(* What a replay compares of an event (session.ts:137).                    *)
Payload(r, i) == <<events[r][i], pids[r][i]>>

(* Repetitions meet the faults of the original (engine.ts:73,              *)
(* orchestrator.ts:282): an engine decides about the calls of its run,     *)
(* and about those of one domain as in every repetition, however the runs  *)
(* interleave and in whatever order each calls into the domains; two runs  *)
(* that made the same calls were dealt the same faults in one order, and   *)
(* their timelines differ in the pids of killed children only.             *)
FaultsReplay ==
  /\ \A r \in Runs : calls[r] = [i \in DOMAIN decided[r] |-> decided[r][i].domain]
  /\ \A r, s \in Runs :
       /\ \A i \in DOMAIN decided[r], j \in DOMAIN decided[s] :
            decided[r][i].domain = decided[s][j].domain /\ Turn(r, i) = Turn(s, j)
              => decided[r][i] = decided[s][j]
       /\ calls[r] = calls[s] =>
            /\ events[r] = events[s]
            /\ \A i \in DOMAIN events[r] :
                 Payload(r, i) = Payload(s, i) \/ events[r][i].domain = "PROCESS"

=============================================================================
