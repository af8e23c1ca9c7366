---------------------------- MODULE VirtualClock ----------------------------
(***************************************************************************)
(* The virtual clocks of one process (packages/core/src/clock.ts) as the   *)
(* sessions of packages/core/src/orchestrator.ts use them: each run has a  *)
(* clock, installed while it is executed; the patched globals are shared,  *)
(* and a resolver routes each call to the clock of the run whose code      *)
(* makes it.  Clocks are accelerated with autoAdvance, the only way an     *)
(* engine installs an accelerated one: time moves when an immediate (the   *)
(* pump) fires the earliest timer.                                         *)
(*                                                                         *)
(* Abstractions.  A timer's triggerTime is kept as its distance from now,  *)
(* so time itself does not appear.  advance() and runAll() are called by   *)
(* tests only, apart from the jump of a CLOCK fault at the start of a run, *)
(* when its queue is empty.  The program uses the handles of its timers,   *)
(* not their numbers.  Timers that are routed to no clock are native and   *)
(* leave the model.                                                        *)
(***************************************************************************)
EXTENDS Naturals, FiniteSets

CONSTANTS
  Runs,           \* runs and their async contexts, each with the clock of its engine
  Sessions,       \* calls of SearchOrchestrator.run()
  Timers,         \* bound: timers pending at once
  Delays,         \* delays of setTimeout
  Periods,        \* delays of setInterval
  MaxHolds,       \* bound: calls that hold time where it is: refresh() and timers of 0 ms
  Overlap,        \* whether sessions may be under way at the same time
  CallbackThrows, \* whether a session may be rejected while its runs go on
  None            \* no run

ASSUME ClockAssumption ==
  /\ IsFiniteSet(Runs)
  /\ None \notin Runs
  /\ Delays \subseteq Nat /\ Periods \subseteq Nat
  /\ MaxHolds \in Nat
  /\ Overlap \in BOOLEAN /\ CallbackThrows \in BOOLEAN

VARIABLES
  session,       \* where each call of run() is
  resolver,      \* contextResolver is set
  run,           \* where each run is; its clock is installed while it is "on"
  owner,         \* the session of a run
  primaryClock,
  installCount,
  patched,       \* the globals are patched
  home,          \* the clock in whose queue a timer is
  left,          \* triggerTime - now of its clock
  delay,
  isInterval,
  ahead,         \* timers of the same queue with a smaller seq
  pump,          \* the context a clock's pump was scheduled in; None: not scheduled
  firing,        \* the clock whose timer callback has the thread
  context,       \* the context that callback runs in
  holds          \* bound: such calls so far

globalVars == <<resolver, primaryClock, installCount, patched>>
runVars == <<session, run, owner>>
timerVars == <<home, left, delay, isInterval, ahead>>
threadVars == <<firing, context>>
vars == <<globalVars, runVars, timerVars, pump, threadVars, holds>>

Installed == {r \in Runs : run[r] = "on"}

Queue(r) == {t \in Timers : home[t] = r}

ThreadFree == firing = None

(* Code of run c has the thread: its own, also after a timeout ended the   *)
(* run, or a timer callback in its context.                                *)
Executes(c) == IF ThreadFree THEN run[c] # "new" ELSE context = c

(* Fault: a clock that is uninstalled still answers.                       *)
ActiveClockUninstalled(c) ==
  IF ~resolver THEN primaryClock
  ELSE IF c \in Runs /\ run[c] # "new" THEN c ELSE None

(* The clock a patched global acts on when code of context c calls it.     *)
ActiveClock(c) ==
  IF ~resolver THEN primaryClock
  ELSE IF c \in Installed THEN c ELSE None

-----------------------------------------------------------------------------
Init ==
  /\ session = [s \in Sessions |-> "idle"]
  /\ resolver = FALSE
  /\ run = [r \in Runs |-> "new"]
  /\ owner = [r \in Runs |-> None]
  /\ primaryClock = None
  /\ installCount = 0
  /\ patched = FALSE
  /\ home = [t \in Timers |-> None]
  /\ left = [t \in Timers |-> 0]
  /\ delay = [t \in Timers |-> 0]
  /\ isInterval = [t \in Timers |-> FALSE]
  /\ ahead = [t \in Timers |-> {}]
  /\ pump = [r \in Runs |-> None]
  /\ firing = None
  /\ context = None
  /\ holds = 0

UnderWay(s) ==
  session[s] = "active" \/ \E r \in Installed : owner[r] = s

(* run() installs the resolver before it starts its workers.               *)
StartSession(s) ==
  /\ ThreadFree
  /\ session[s] = "idle"
  /\ Overlap \/ \A other \in Sessions : ~UnderWay(other)
  /\ session' = [session EXCEPT ![s] = "active"]
  /\ resolver' = TRUE
  /\ UNCHANGED <<run, owner, primaryClock, installCount, patched, timerVars, pump,
                 threadVars, holds>>

(* Its finally block: the workers have ended, or one of them threw and the *)
(* others go on.                                                           *)
EndSession(s) ==
  /\ ThreadFree
  /\ session[s] = "active"
  /\ \E end \in (IF \A r \in Installed : owner[r] # s THEN {"over"} ELSE {})
                 \cup (IF CallbackThrows THEN {"rejected"} ELSE {}) :
       session' = [session EXCEPT ![s] = end]
  /\ resolver' = FALSE
  /\ UNCHANGED <<run, owner, primaryClock, installCount, patched, timerVars, pump,
                 threadVars, holds>>

(* A worker executes a run: its engine installs the run's clock.           *)
Install(r, s) ==
  /\ ThreadFree
  /\ run[r] = "new"
  /\ session[s] \in {"active", "rejected"}
  /\ run' = [run EXCEPT ![r] = "on"]
  /\ owner' = [owner EXCEPT ![r] = s]
  /\ patched' = (patched \/ installCount = 0)
  /\ installCount' = installCount + 1
  /\ primaryClock' = IF primaryClock = None THEN r ELSE primaryClock
  /\ UNCHANGED <<session, resolver, timerVars, pump, threadVars, holds>>

(* The queue of clock r is dropped.                                        *)
DropQueue(r) ==
  /\ home' = [t \in Timers |-> IF home[t] = r THEN None ELSE home[t]]
  /\ ahead' = [t \in Timers |-> IF home[t] = r THEN {} ELSE ahead[t]]
  /\ UNCHANGED <<left, delay, isInterval>>

(* Fault: the globals are restored with the first clock.                   *)
UninstallWithFirst(r) ==
  /\ ThreadFree
  /\ run[r] = "on"
  /\ run' = [run EXCEPT ![r] = "over"]
  /\ DropQueue(r)
  /\ installCount' = installCount - 1
  /\ patched' = (patched /\ primaryClock # r)
  /\ primaryClock' = IF primaryClock = r THEN None ELSE primaryClock
  /\ UNCHANGED <<session, owner, resolver, pump, threadVars, holds>>

(* The run has ended or timed out: its engine uninstalls its clock.        *)
Uninstall(r) ==
  /\ ThreadFree
  /\ run[r] = "on"
  /\ run' = [run EXCEPT ![r] = "over"]
  /\ DropQueue(r)
  /\ installCount' = installCount - 1
  /\ patched' = (patched /\ installCount # 1)
  /\ primaryClock' = IF primaryClock = r THEN None ELSE primaryClock
  /\ UNCHANGED <<session, owner, resolver, pump, threadVars, holds>>

-----------------------------------------------------------------------------
(* seq of t becomes the largest of its queue q.                            *)
ToTheEnd(t, q) ==
  ahead' = [u \in Timers |-> IF u = t THEN q \ {t} ELSE ahead[u] \ {t}]

(* schedulePump, called by code of context c.                              *)
Pumped(r, c) == IF pump[r] = None /\ run[r] = "on" THEN [pump EXCEPT ![r] = c] ELSE pump

Holding(time) ==
  IF time THEN holds < MaxHolds /\ holds' = holds + 1 ELSE UNCHANGED holds

(* setTimeout or setInterval.                                              *)
ScheduleTimer(c, t, d, interval) ==
  LET r == ActiveClock(c)
  IN  /\ Executes(c)
      /\ home[t] = None
      /\ d \in IF interval THEN Periods ELSE Delays
      /\ Holding(d = 0)
      /\ r # None
      /\ home' = [home EXCEPT ![t] = r]
      /\ left' = [left EXCEPT ![t] = d]
      /\ delay' = [delay EXCEPT ![t] = d]
      /\ isInterval' = [isInterval EXCEPT ![t] = interval]
      /\ ToTheEnd(t, Queue(r))
      /\ pump' = Pumped(r, c)
      /\ UNCHANGED <<globalVars, runVars, threadVars>>

Remove(t) ==
  /\ home' = [home EXCEPT ![t] = None]
  /\ ahead' = [u \in Timers |-> IF u = t THEN {} ELSE ahead[u] \ {t}]

(* clearTimeout or clearInterval: the handle knows its clock.              *)
ClearTimer(c, t) ==
  /\ Executes(c)
  /\ home[t] # None
  /\ Remove(t)
  /\ UNCHANGED <<globalVars, runVars, left, delay, isInterval, pump, threadVars, holds>>

RefreshTimer(c, t) ==
  /\ Executes(c)
  /\ home[t] # None
  /\ Holding(TRUE)
  /\ left' = [left EXCEPT ![t] = delay[t]]
  /\ ToTheEnd(t, Queue(home[t]))
  /\ UNCHANGED <<globalVars, runVars, home, delay, isInterval, pump, threadVars>>

(* peekEarliest: the timer of clock r with the smallest triggerTime, among *)
(* these the one with the smallest seq.                                    *)
Earliest(r, t) ==
  /\ home[t] = r
  /\ \A u \in Queue(r) \ {t} : left[t] < left[u] \/ (left[t] = left[u] /\ u \notin ahead[t])

(* Time moves by d; t is due again after its delay.                        *)
Elapse(r, t, d, again) ==
  left' = [u \in Timers |->
             IF u = t THEN again
             ELSE IF home[u] = r THEN left[u] - d ELSE left[u]]

(* Fault: an interval of 0 ms is due again at once.                        *)
FireAtOnce(r, t) ==
  /\ Elapse(r, t, left[t], IF isInterval[t] THEN delay[t] ELSE 0)
  /\ IF isInterval[t] THEN ToTheEnd(t, Queue(r)) /\ UNCHANGED home ELSE Remove(t)
  /\ UNCHANGED <<delay, isInterval>>

(* fire: now is the timer's triggerTime; an interval is queued again, at   *)
(* least a millisecond later, before its callback runs.                    *)
Fire(r, t) ==
  /\ Elapse(r, t, left[t], IF ~isInterval[t] THEN 0 ELSE IF delay[t] = 0 THEN 1 ELSE delay[t])
  /\ IF isInterval[t] THEN ToTheEnd(t, Queue(r)) /\ UNCHANGED home ELSE Remove(t)
  /\ UNCHANGED <<delay, isInterval>>

(* The immediate of clock r runs and fires the earliest timer.             *)
Pump(r) ==
  /\ ThreadFree
  /\ pump[r] # None
  /\ pump' = [pump EXCEPT ![r] = None]
  /\ IF run[r] = "on" /\ Queue(r) # {}
     THEN /\ \E t \in Timers : Earliest(r, t) /\ Fire(r, t)
          /\ firing' = r
          /\ context' = pump[r]
     ELSE UNCHANGED <<timerVars, threadVars>>
  /\ UNCHANGED <<globalVars, runVars, holds>>

(* The callback is over, or threw, and the pump is scheduled again while   *)
(* timers are left.                                                        *)
CallbackEnds ==
  /\ ~ThreadFree
  /\ pump' = IF Queue(firing) # {} THEN Pumped(firing, context) ELSE pump
  /\ firing' = None /\ context' = None
  /\ UNCHANGED <<globalVars, runVars, timerVars, holds>>

Program(c) ==
  \E t \in Timers :
    \/ \E interval \in BOOLEAN, d \in Delays \cup Periods : ScheduleTimer(c, t, d, interval)
    \/ ClearTimer(c, t)
    \/ RefreshTimer(c, t)

Next ==
  \/ \E s \in Sessions : StartSession(s) \/ EndSession(s) \/ \E r \in Runs : Install(r, s)
  \/ \E r \in Runs : Uninstall(r) \/ Program(r) \/ Pump(r)
  \/ CallbackEnds

Spec == Init /\ [][Next]_vars

(* A callback returns, and the event loop runs each immediate in the turn  *)
(* after the one that scheduled it, so none is passed over for ever.       *)
FairSpec == Spec /\ WF_vars(CallbackEnds) /\ \A r \in Runs : SF_vars(Pump(r))

-----------------------------------------------------------------------------
(* seq totally orders each queue, and only timers of one queue compare.    *)
AheadOrders ==
  \A t, u \in Timers :
    /\ t \in ahead[u] => t # u /\ home[t] = home[u] /\ home[t] # None
    /\ t # u /\ home[t] = home[u] /\ home[t] # None => (t \in ahead[u] <=> u \notin ahead[t])

(* (left stays natural: no clock moves past a timer that is pending.)      *)
TypeOK ==
  /\ session \in [Sessions -> {"idle", "active", "rejected", "over"}]
  /\ resolver \in BOOLEAN
  /\ run \in [Runs -> {"new", "on", "over"}]
  /\ owner \in [Runs -> Sessions \cup {None}]
  /\ primaryClock \in Runs \cup {None}
  /\ installCount \in Nat
  /\ patched \in BOOLEAN
  /\ home \in [Timers -> Runs \cup {None}]
  /\ left \in [Timers -> Nat]
  /\ delay \in [Timers -> Nat]
  /\ isInterval \in [Timers -> BOOLEAN]
  /\ ahead \in [Timers -> SUBSET Timers]
  /\ AheadOrders
  /\ pump \in [Runs -> Runs \cup {None}]
  /\ firing \in Runs \cup {None} /\ context \in Runs \cup {None}
  /\ firing # None <=> context # None
  /\ holds \in 0..MaxHolds

(* "Global patching is reference-counted" (ARCHITECTURE.md:136): whatever  *)
(* the order in which overlapping clocks come and go, the globals are      *)
(* patched exactly while one is installed, and the clock that would answer *)
(* without a resolver is one of those.                                     *)
GlobalsCounted ==
  /\ installCount = Cardinality(Installed)
  /\ patched <=> Installed # {}
  /\ primaryClock \in Installed \cup {None}

(* "Date.now() inside run A reads run A's clock while run B, concurrent in *)
(* the same process, reads its own. Outside any run it reads real time"    *)
(* (ARCHITECTURE.md:136-138), and so does code that outlives its run.      *)
OwnTime ==
  \A c \in Runs \cup {"outside"} :
    ActiveClock(c) = IF c \in Installed THEN c ELSE None

(* A clock with pending timers is about to move: no timer waits for a pump *)
(* that nobody scheduled, and none is left on a clock that is uninstalled. *)
PumpScheduled ==
  \A t \in Timers :
    home[t] # None => /\ run[home[t]] = "on"
                      /\ pump[home[t]] # None \/ firing = home[t]

(* "virtual time jumps to the next pending timer whenever the event loop   *)
(* turns over, so a workflow that awaits setTimeout completes"             *)
(* (clock.ts:12-13), also beside intervals of 0 ms and other timers that   *)
(* are set again and again.  (A program that sets timers of 0 ms for ever  *)
(* holds time where it is; MaxHolds excludes that.)                        *)
TimersFire ==
  \A t \in Timers : home[t] # None /\ ~isInterval[t] ~> home[t] = None

=============================================================================
