-------------------------- MODULE ResourcePressure --------------------------
(***************************************************************************)
(* CPU and memory pressure of packages/fault-drivers/resource: one         *)
(* pressure for each domain and one watchdog, in variables of the process, *)
(* used by the drivers of every session and the runs of each.              *)
(*                                                                         *)
(* Abstractions.  A driver records events through AsyncLocalStorage (see   *)
(* orchestrator.ts:399), so an event goes to the run whose callbacks are   *)
(* running, or nowhere.  The control loop and percentages are left out: a  *)
(* run has heard that the utilization is positive, or 0.                   *)
(***************************************************************************)
EXTENDS FiniteSets

CONSTANTS
  Drivers,  \* instances of CpuFaultDriver and MemoryFaultDriver
  Domain,   \* [Drivers -> {"CPU", "MEMORY"}]
  Runs,
  None

VARIABLES
  installed, \* the drivers with a context
  pressure   \* the variables of cpu-pressure, memory-pressure and watchdog,
             \* and what the runs have heard

pressureVars == <<installed, pressure>>

Domains == {"CPU", "MEMORY"}

(* active: by domain, whose onStop waits for the end of the pressure;      *)
(* within: the run that set its timer; owners: those the watchdog runs     *)
(* for; watchdog: the run in which its interval was created; loaded: the   *)
(* runs that recorded a positive utilization last.                         *)
Idle ==
  [active |-> [dom \in Domains |-> None], within |-> [dom \in Domains |-> None],
   owners |-> {}, watchdog |-> None, loaded |-> {}]

Init == installed = {} /\ pressure = Idle

(* stopWatchdog().                                                         *)
Released(s, d) ==
  [s EXCEPT !.owners = @ \ {d},
            !.watchdog = IF s.owners \ {d} = {} THEN None ELSE @]

(* stopCpuPressure() or stopMemoryPressure(), called in run r: onStop()    *)
(* releases the watchdog and records utilization 0.                        *)
Stopped(s, dom, r) ==
  IF s.active[dom] = None THEN s
  ELSE [Released(s, s.active[dom]) EXCEPT
         !.active[dom] = None, !.within[dom] = None, !.loaded = @ \ {<<r, dom>>}]

(* startWatchdog().                                                        *)
Guarded(s, d, r) ==
  [s EXCEPT !.owners = @ \cup {d}, !.watchdog = IF @ = None THEN r ELSE @]

Began(s, d, r) ==
  [s EXCEPT !.active = [@ EXCEPT ![Domain[d]] = d], !.within = [@ EXCEPT ![Domain[d]] = r],
            !.loaded = @ \cup {<<r, Domain[d]>>}]

(* Fault: the watchdog is acquired before the pressure starts.             *)
GuardedTooSoon(s, d, r) == Began(Stopped(Guarded(s, d, r), Domain[d], r), d, r)

(* startPressure(), which first ends what was running.                     *)
Started(s, d, r) == Guarded(Began(Stopped(s, Domain[d], r), d, r), d, r)

Install(d) ==
  /\ installed' = installed \cup {d}
  /\ UNCHANGED pressure

(* applyScheduledFault() in run r, with a PRESSURE fault.                  *)
ApplyScheduledFault(d, r) ==
  /\ d \in installed
  /\ pressure' = Started(pressure, d, r)
  /\ UNCHANGED installed

(* The timer of the duration.                                              *)
DurationOver(dom) ==
  /\ pressure.active[dom] # None
  /\ pressure' = Stopped(pressure, dom, pressure.within[dom])
  /\ UNCHANGED installed

(* ABORT_PRESSURE: both domains, in the run that started the watchdog.     *)
WatchdogAborts ==
  LET r == pressure.watchdog
  IN /\ r # None
     /\ pressure' = Stopped(Stopped(pressure, "CPU", r), "MEMORY", r)
     /\ UNCHANGED installed

(* uninstall(), by the orchestrator, outside of every run: the pressure of *)
(* the domain stops, whoever started it.                                   *)
Uninstall(d) ==
  /\ d \in installed
  /\ pressure' = Released(Stopped(pressure, Domain[d], None), d)
  /\ installed' = installed \ {d}

Next ==
  \/ \E d \in Drivers : Install(d) \/ Uninstall(d)
  \/ \E d \in Drivers, r \in Runs : ApplyScheduledFault(d, r)
  \/ \E dom \in Domains : DurationOver(dom)
  \/ WatchdogAborts

Spec == Init /\ [][Next]_pressureVars

-----------------------------------------------------------------------------
TypeOK ==
  /\ installed \subseteq Drivers
  /\ pressure \in [active : [Domains -> Drivers \cup {None}],
                   within : [Domains -> Runs \cup {None}],
                   owners : SUBSET Drivers, watchdog : Runs \cup {None},
                   loaded : SUBSET (Runs \X Domains)]

(* No pressure without the watchdog that aborts it, and no watchdog        *)
(* without pressure (watchdog.ts:7), however drivers of two sessions       *)
(* replace, stop and outlive each other's pressure; and none of it         *)
(* outlives the session that started it.                                   *)
PressureIsGuarded ==
  LET active == {pressure.active[dom] : dom \in Domains} \ {None}
  IN /\ pressure.owners = active
     /\ (pressure.watchdog # None) <=> (active # {})
     /\ active \subseteq installed

(* The end of the pressure is recorded (resource/src/index.ts:28).         *)
EndIsRecorded ==
  \A dom \in Domains : pressure.active[dom] = None => \A r \in Runs : <<r, dom>> \notin pressure.loaded

=============================================================================
