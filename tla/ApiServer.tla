------------------------------ MODULE ApiServer ------------------------------
(***************************************************************************)
(* The process of the API (packages/api/src/server.ts): it seeds an empty  *)
(* store with demo sessions, sweeps what is too old, listens, sweeps again *)
(* every hour, plays a synthetic session on its bus every 30 s, and closes *)
(* on a signal; or it dies, and is started again on the same store.        *)
(*                                                                         *)
(* Abstractions.  What an upload, a sweep and a restart do to the files    *)
(* and the index is SessionStore's: here a sweep is one step.              *)
(***************************************************************************)
EXTENDS Naturals

CONSTANTS
  Demo,      \* the demo sessions, as 1..n in the order in which they are created
  Real,      \* sessions that clients upload
  MaxStarts  \* bound: starts of the process

VARIABLES
  kind,      \* store.kind: "file" or "memory"
  demoMode,  \* SIBYL_DEMO_MODE (or RENDER): "true", "false", "unset"
  retention, \* SIBYL_RETENTION_DAYS is set
  phase,     \* where startServer() or the process is
  isDemoEnv,
  seeded,    \* demo sessions this process has tried to create
  missed,    \* history: those it failed to create
  stored,    \* the sessions in the store
  old,       \* those before the cutoff
  swept,     \* history: sessions this process has removed
  live,      \* runDemo(): "off", "waiting", "progress"
  starts

apiVars == <<kind, demoMode, retention, phase, isDemoEnv, seeded, missed, stored, old,
             swept, live, starts>>
config == <<kind, demoMode, retention>>

Init ==
  /\ kind \in {"file", "memory"} /\ demoMode = "unset" /\ retention = FALSE
  /\ phase = "down" /\ isDemoEnv = FALSE
  /\ seeded = 0 /\ missed = {} /\ stored = {} /\ old = {} /\ swept = {}
  /\ live = "off" /\ starts = 0

ShouldSeedDemo(mode) ==
  /\ mode # "false"
  /\ kind = "memory" \/ mode = "true"
  /\ stored = {}

AfterSeeding(sweeps) == IF sweeps THEN "sweeping" ELSE "binding"

(* startServer() up to its first await, in the environment of this start.  *)
StartServer ==
  /\ phase = "down" /\ starts < MaxStarts
  /\ starts' = starts + 1
  /\ demoMode' \in {"true", "false", "unset"} /\ retention' \in BOOLEAN
  /\ isDemoEnv' = ShouldSeedDemo(demoMode')
  /\ phase' = IF isDemoEnv' THEN "seeding" ELSE AfterSeeding(retention')
  /\ seeded' = 0 /\ missed' = {} /\ swept' = {}
  /\ UNCHANGED <<kind, stored, old, live>>

(* createSession() of the next demo session, back-dated to its start: it   *)
(* may be too old already.  If it throws, that is ignored, and the next is *)
(* tried (demo-seed.ts:159).                                               *)
Seed ==
  /\ phase = "seeding" /\ seeded + 1 \in Demo
  /\ seeded' = seeded + 1
  /\ \/ stored' = stored \cup {seeded'} /\ old' \in {old, old \cup {seeded'}} /\ UNCHANGED missed
     \/ missed' = missed \cup {seeded'} /\ UNCHANGED <<stored, old>>
  /\ UNCHANGED <<config, phase, isDemoEnv, swept, live, starts>>

(* Fault: the seeding is not awaited.                                      *)
SeededBehind == phase = "seeding"

AllSeeded == phase = "seeding" /\ seeded + 1 \notin Demo

SeedingEnds ==
  /\ AllSeeded
  /\ phase' = AfterSeeding(retention)
  /\ UNCHANGED <<config, isDemoEnv, seeded, missed, stored, old, swept, live, starts>>

(* runSweep(); one that fails is logged, and forgotten.                    *)
RunSweep ==
  /\ phase = "sweeping" \/ (phase = "listening" /\ retention)
  /\ \/ stored' = stored \ old /\ old' = {} /\ swept' = swept \cup old
     \/ UNCHANGED <<stored, old, swept>>
  /\ phase' = IF phase = "sweeping" THEN "binding" ELSE phase
  /\ UNCHANGED <<config, isDemoEnv, seeded, missed, live, starts>>

(* app.listen().                                                           *)
Listening ==
  /\ phase = "binding" /\ phase' = "listening"
  /\ live' = IF kind = "memory" \/ isDemoEnv THEN "waiting" ELSE "off"
  /\ UNCHANGED <<config, isDemoEnv, seeded, missed, stored, old, swept, starts>>

(* POST /sessions.                                                         *)
Upload(s) ==
  /\ phase = "listening" /\ s \notin stored
  /\ stored' = stored \cup {s}
  /\ UNCHANGED <<config, phase, isDemoEnv, seeded, missed, old, swept, live, starts>>

Ages(s) ==
  /\ s \in stored \ old
  /\ old' = old \cup {s}
  /\ UNCHANGED <<config, phase, isDemoEnv, seeded, missed, stored, swept, live, starts>>

(* runDemo() emits progress, and three seconds later that the session,     *)
(* which nobody stores, is completed.                                      *)
RunDemo ==
  /\ live # "off"
  /\ live' = IF live = "waiting" THEN "progress" ELSE "waiting"
  /\ UNCHANGED <<config, phase, isDemoEnv, seeded, missed, stored, old, swept, starts>>

(* A signal: close() ends the timer and the streams; requests end.         *)
Shutdown ==
  /\ phase = "listening" /\ phase' = "closing"
  /\ UNCHANGED <<config, isDemoEnv, seeded, missed, stored, old, swept, live, starts>>

(* process.exit(), after close(), because the port is taken (line 99), or  *)
(* at any time if the process is killed.                                   *)
Exit ==
  /\ phase # "down" /\ phase' = "down"
  /\ live' = "off"
  /\ IF kind = "file" THEN UNCHANGED <<stored, old>> ELSE stored' = {} /\ old' = {}
  /\ UNCHANGED <<config, isDemoEnv, seeded, missed, swept, starts>>

Next ==
  \/ StartServer \/ Seed \/ SeedingEnds \/ RunSweep \/ Listening \/ RunDemo \/ Shutdown \/ Exit
  \/ \E s \in Real : Upload(s)
  \/ \E s \in stored : Ages(s)

-----------------------------------------------------------------------------
TypeOK ==
  /\ kind \in {"file", "memory"} /\ demoMode \in {"true", "false", "unset"}
  /\ retention \in BOOLEAN /\ isDemoEnv \in BOOLEAN
  /\ phase \in {"down", "seeding", "sweeping", "binding", "listening", "closing"}
  /\ seeded \in {0} \cup Demo /\ missed \subseteq Demo
  /\ stored \subseteq Demo \cup Real /\ old \subseteq stored
  /\ swept \subseteq Demo \cup Real
  /\ live \in {"off", "waiting", "progress"}
  /\ starts \in 0..MaxStarts

(* Whatever was uploaded, swept or lost before, and whatever environment   *)
(* the process was started in before (server.ts:45, demo-seed.ts:158):     *)
(* demo sessions are created among no others, and a process that seeds     *)
(* answers no request before each has been tried: it is there, or has been *)
(* swept, or its write failed.                                             *)
DemoApart ==
  /\ phase = "seeding" => stored \cap Real = {}
  /\ phase = "listening" /\ isDemoEnv => Demo \subseteq stored \cup swept \cup missed

=============================================================================
