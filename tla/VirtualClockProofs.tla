------------------------- MODULE VirtualClockProofs -------------------------
(***************************************************************************)
(* Theorems about VirtualClock: any number of sessions, runs and timers,   *)
(* overlapping or not.                                                     *)
(***************************************************************************)
EXTENDS VirtualClock, FiniteSetTheorems, TLAPS

(* The types, without the order of the queues.                             *)
Shape ==
  /\ session \in [Sessions -> {"idle", "active", "rejected", "over"}]
  /\ resolver \in BOOLEAN
  /\ run \in [Runs -> {"new", "on", "over"}]
  /\ owner \in [Runs -> Sessions \cup {None}]
  /\ primaryClock \in Runs \cup {None}
  /\ installCount \in Nat
  /\ patched \in BOOLEAN
  /\ home \in [Timers -> Runs \cup {None}]
  /\ left \in [Timers -> Nat]
  /\ delay \in [Timers -> Nat]
  /\ isInterval \in [Timers -> BOOLEAN]
  /\ ahead \in [Timers -> SUBSET Timers]
  /\ pump \in [Runs -> Runs \cup {None}]
  /\ firing \in Runs \cup {None} /\ context \in Runs \cup {None}
  /\ firing # None <=> context # None
  /\ holds \in 0..MaxHolds

LEMMA TypeIsShape == TypeOK <=> Shape /\ AheadOrders
BY DEF TypeOK, Shape

(* Only these steps touch the clocks' installation or the sessions.        *)
Lifecycle ==
  \/ \E s \in Sessions : StartSession(s) \/ EndSession(s)
  \/ \E r \in Runs, s \in Sessions : Install(r, s)
  \/ \E r \in Runs : Uninstall(r)

Running ==
  \/ \E c \in Runs, t \in Timers, d \in Delays \cup Periods, i \in BOOLEAN :
       ScheduleTimer(c, t, d, i)
  \/ \E c \in Runs, t \in Timers : ClearTimer(c, t) \/ RefreshTimer(c, t)
  \/ \E r \in Runs : Pump(r)
  \/ CallbackEnds

LEMMA NextSplit == Next => Lifecycle \/ Running
BY DEF Next, Program, Lifecycle, Running

(* The steps of the running program leave installation and sessions alone. *)
LEMMA RunningKeeps ==
  Running => UNCHANGED <<globalVars, runVars>>
BY DEF Running, ScheduleTimer, ClearTimer, RefreshTimer, Pump, CallbackEnds

(* A call is routed to an installed clock or to none.                      *)
LEMMA RoutedToInstalled ==
  ASSUME GlobalsCounted, NEW c \in Runs, ActiveClock(c) # None
  PROVE  ActiveClock(c) \in Installed
BY DEF GlobalsCounted, ActiveClock

-----------------------------------------------------------------------------
(* Moving a timer to the end of its queue, or out of it, keeps the order.  *)
LEMMA EndKeepsOrder ==
  ASSUME Shape, AheadOrders, NEW t \in Timers, NEW r \in Runs,
         home[t] \in {r, None}, home' = [home EXCEPT ![t] = r],
         ToTheEnd(t, Queue(r)), None \notin Runs
  PROVE  AheadOrders' /\ ahead' \in [Timers -> SUBSET Timers]
<1>1. ahead' \in [Timers -> SUBSET Timers]
  BY DEF Shape, ToTheEnd, Queue
<1>2. ASSUME NEW a \in Timers, NEW u \in Timers
      PROVE  /\ a \in ahead'[u] => a # u /\ home'[a] = home'[u] /\ home'[a] # None
             /\ a # u /\ home'[a] = home'[u] /\ home'[a] # None
                  => (a \in ahead'[u] <=> u \notin ahead'[a])
  <2>1. CASE u = t
    <3>1. ahead'[u] = Queue(r) \ {t} /\ home'[u] = r
      BY <2>1 DEF ToTheEnd, Shape
    <3>2. a # t => ahead'[a] = ahead[a] \ {t} /\ home'[a] = home[a]
      BY DEF ToTheEnd, Shape
    <3>3. QED
      BY <2>1, <3>1, <3>2 DEF Queue, AheadOrders
  <2>2. CASE u # t
    <3>1. ahead'[u] = ahead[u] \ {t} /\ home'[u] = home[u]
      BY <2>2 DEF ToTheEnd, Shape
    <3>2. CASE a = t
      <4>1. ahead'[a] = Queue(r) \ {t} /\ home'[a] = r
        BY <3>2 DEF ToTheEnd, Shape
      <4>2. QED
        BY <2>2, <3>1, <3>2, <4>1 DEF Queue, AheadOrders
    <3>3. CASE a # t
      <4>1. ahead'[a] = ahead[a] \ {t} /\ home'[a] = home[a]
        BY <3>3 DEF ToTheEnd, Shape
      <4>2. QED
        BY <2>2, <3>1, <3>3, <4>1 DEF AheadOrders
    <3>4. QED
      BY <3>2, <3>3
  <2>3. QED
    BY <2>1, <2>2
<1>3. QED
  BY <1>1, <1>2 DEF AheadOrders

LEMMA RemoveKeepsOrder ==
  ASSUME Shape, AheadOrders, NEW t \in Timers, Remove(t)
  PROVE  AheadOrders' /\ ahead' \in [Timers -> SUBSET Timers]
<1>1. ahead' \in [Timers -> SUBSET Timers]
  BY DEF Shape, Remove
<1>2. home'[t] = None /\ ahead'[t] = {}
  BY DEF Shape, Remove
<1>3. \A u \in Timers \ {t} : home'[u] = home[u] /\ ahead'[u] = ahead[u] \ {t}
  BY DEF Shape, Remove
<1>4. QED
  BY <1>1, <1>2, <1>3 DEF AheadOrders

LEMMA DropKeepsOrder ==
  ASSUME Shape, AheadOrders, NEW r \in Runs, DropQueue(r)
  PROVE  AheadOrders' /\ ahead' \in [Timers -> SUBSET Timers]
<1>1. ahead' \in [Timers -> SUBSET Timers]
  BY DEF Shape, DropQueue
<1>2. \A u \in Timers :
        IF home[u] = r THEN home'[u] = None /\ ahead'[u] = {}
                       ELSE home'[u] = home[u] /\ ahead'[u] = ahead[u]
  BY DEF Shape, DropQueue
<1>3. QED
  BY <1>1, <1>2 DEF AheadOrders

(* The earliest timer fires: no clock moves past a pending timer.          *)
LEMMA FireKeepsTypes ==
  ASSUME ClockAssumption, Shape, AheadOrders,
         NEW r \in Runs, NEW t \in Timers, Earliest(r, t), Fire(r, t)
  PROVE  /\ AheadOrders' /\ ahead' \in [Timers -> SUBSET Timers]
         /\ home' \in [Timers -> Runs \cup {None}]
         /\ left' \in [Timers -> Nat]
<1>1. home[t] = r /\ \A u \in Queue(r) : left[t] <= left[u]
  BY DEF Earliest, Queue, Shape
<1>2. left' \in [Timers -> Nat]
  <2>1. \A u \in Timers : home[u] = r => left[u] - left[t] \in Nat
    BY <1>1 DEF Queue, Shape
  <2>2. QED
    BY <2>1 DEF Fire, Elapse, Shape
<1>3. CASE isInterval[t]
  <2>1. ToTheEnd(t, Queue(r)) /\ home' = home
    BY <1>3 DEF Fire
  <2>2. home' = [home EXCEPT ![t] = r]
    BY <1>1, <2>1 DEF Shape
  <2>3. QED
    BY <1>1, <1>2, <2>1, <2>2, EndKeepsOrder DEF Shape, ClockAssumption
<1>4. CASE ~isInterval[t]
  <2>1. Remove(t)
    BY <1>4 DEF Fire
  <2>2. QED
    BY <1>2, <2>1, RemoveKeepsOrder DEF Shape, Remove
<1>5. QED
  BY <1>3, <1>4

-----------------------------------------------------------------------------
LEMMA InitInvariants ==
  ASSUME ClockAssumption, Init
  PROVE  TypeOK /\ GlobalsCounted /\ PumpScheduled
<1>1. Installed = {}
  BY DEF Init, Installed
<1>2. GlobalsCounted
  BY <1>1, FS_EmptySet DEF Init, GlobalsCounted
<1>3. PumpScheduled
  BY DEF Init, PumpScheduled
<1>4. AheadOrders
  BY DEF Init, AheadOrders
<1>5. Shape
  <2>1. isInterval \in [Timers -> BOOLEAN] /\ resolver \in BOOLEAN /\ patched \in BOOLEAN
    BY Zenon DEF Init
  <2>2. QED
    BY <2>1 DEF Init, Shape, ClockAssumption
<1>6. QED
  BY <1>2, <1>3, <1>4, <1>5, TypeIsShape

(* Clocks come and go.                                                     *)
LEMMA LifecycleGlobals ==
  ASSUME ClockAssumption, TypeOK, GlobalsCounted, Lifecycle
  PROVE  GlobalsCounted'
<1> USE DEF GlobalsCounted
<1>0. IsFiniteSet(Installed) /\ Installed \subseteq Runs
  BY FS_Subset DEF Installed, ClockAssumption
<1>1. ASSUME NEW s \in Sessions, StartSession(s) \/ EndSession(s)
      PROVE  GlobalsCounted'
  BY <1>1 DEF StartSession, EndSession, Installed
<1>2. ASSUME NEW r \in Runs, NEW s \in Sessions, Install(r, s)
      PROVE  GlobalsCounted'
  <2>1. r \notin Installed /\ Installed' = Installed \cup {r}
    BY <1>2 DEF Install, Installed, TypeOK
  <2>2. Cardinality(Installed') = installCount + 1
    BY <1>0, <2>1, FS_AddElement
  <2>3. installCount = 0 <=> Installed = {}
    BY <1>0, FS_EmptySet
  <2>4. QED
    BY <1>2, <2>1, <2>2, <2>3 DEF Install
<1>3. ASSUME NEW r \in Runs, Uninstall(r)
      PROVE  GlobalsCounted'
  <2>1. r \in Installed /\ Installed' = Installed \ {r}
    BY <1>3 DEF Uninstall, Installed, TypeOK
  <2>2. Cardinality(Installed') = installCount - 1
    BY <1>0, <2>1, FS_RemoveElement
  <2>3. IsFiniteSet(Installed')
    BY <1>0, <2>1, FS_RemoveElement
  <2>4. installCount - 1 = 0 <=> Installed' = {}
    BY <2>2, <2>3, FS_EmptySet
  <2>5. installCount \in Nat
    BY DEF TypeOK
  <2>6. installCount # 1 <=> Installed' # {}
    BY <2>4, <2>5
  <2>7. patched' = (patched /\ installCount # 1) /\ (patched <=> Installed # {})
    BY <1>3, Zenon DEF Uninstall
  <2>8. patched' <=> Installed' # {}
    BY <2>1, <2>6, <2>7, Zenon
  <2>9. primaryClock' \in Installed' \cup {None}
    BY <1>3, <2>1 DEF Uninstall
  <2>10. QED
    BY <1>3, <2>2, <2>8, <2>9 DEF Uninstall
<1>4. QED
  BY <1>1, <1>2, <1>3 DEF Lifecycle

LEMMA LifecycleTypes ==
  ASSUME ClockAssumption, TypeOK, GlobalsCounted, Lifecycle
  PROVE  TypeOK'
<1>0. Shape /\ AheadOrders
  BY TypeIsShape
<1>1. ASSUME NEW s \in Sessions, StartSession(s) \/ EndSession(s)
      PROVE  TypeOK'
  <2>1. CASE StartSession(s)
    BY <2>1, <1>0 DEF StartSession, TypeOK, AheadOrders, timerVars, threadVars
  <2>2. CASE EndSession(s)
    <3>1. PICK end \in {"over", "rejected"} : session' = [session EXCEPT ![s] = end]
      BY <2>2 DEF EndSession
    <3>2. QED
      BY <2>2, <1>0, <3>1 DEF EndSession, TypeOK, AheadOrders, timerVars, threadVars
  <2>3. QED
    BY <1>1, <2>1, <2>2
<1>2. ASSUME NEW r \in Runs, NEW s \in Sessions, Install(r, s)
      PROVE  TypeOK'
  BY <1>2, <1>0 DEF Install, TypeOK, AheadOrders, timerVars, threadVars
<1>3. ASSUME NEW r \in Runs, Uninstall(r)
      PROVE  TypeOK'
  <2>1. AheadOrders' /\ ahead' \in [Timers -> SUBSET Timers]
    BY <1>0, <1>3, DropKeepsOrder DEF Uninstall
  <2>2. installCount' \in Nat
    <3>1. IsFiniteSet(Installed) /\ Installed # {}
      BY <1>3, FS_Subset DEF Uninstall, Installed, ClockAssumption
    <3>2. installCount # 0
      BY <3>1, FS_EmptySet DEF GlobalsCounted
    <3>3. QED
      BY <1>0, <1>3, <3>2 DEF Uninstall, Shape
  <2>3. Shape'
    <3>1. home' \in [Timers -> Runs \cup {None}]
      BY <1>0, <1>3 DEF Uninstall, DropQueue, Shape
    <3>2. patched' \in BOOLEAN
      BY <1>3, Zenon DEF Uninstall
    <3>3. QED
      BY <1>0, <1>3, <2>1, <2>2, <3>1, <3>2 DEF Uninstall, DropQueue, Shape, threadVars
  <2>4. QED
    BY <2>1, <2>3 DEF TypeOK, Shape
<1>4. QED
  BY <1>1, <1>2, <1>3 DEF Lifecycle

LEMMA LifecyclePumps ==
  ASSUME ClockAssumption, TypeOK, PumpScheduled, Lifecycle
  PROVE  PumpScheduled'
<1>1. ASSUME NEW s \in Sessions, StartSession(s) \/ EndSession(s)
      PROVE  PumpScheduled'
  BY <1>1 DEF StartSession, EndSession, PumpScheduled, timerVars, threadVars
<1>2. ASSUME NEW r \in Runs, NEW s \in Sessions, Install(r, s)
      PROVE  PumpScheduled'
  BY <1>2 DEF Install, PumpScheduled, timerVars, threadVars, TypeOK
<1>3. ASSUME NEW r \in Runs, Uninstall(r)
      PROVE  PumpScheduled'
  <2>1. \A t \in Timers : home'[t] # None => home'[t] = home[t] /\ home[t] # r
    BY <1>3 DEF Uninstall, DropQueue, TypeOK
  <2>2. \A q \in Runs \ {r} : run'[q] = run[q]
    BY <1>3 DEF Uninstall, TypeOK
  <2>3. QED
    BY <1>3, <2>1, <2>2 DEF Uninstall, PumpScheduled, threadVars, TypeOK
<1>4. QED
  BY <1>1, <1>2, <1>3 DEF Lifecycle


-----------------------------------------------------------------------------
(* The running program.                                                    *)
LEMMA RunningTypes ==
  ASSUME ClockAssumption, TypeOK, GlobalsCounted, Running
  PROVE  TypeOK'
<1>0. Shape /\ AheadOrders
  BY TypeIsShape
<1>g. UNCHANGED <<globalVars, runVars>>
  BY RunningKeeps
<1>p. ASSUME NEW r \in Runs, NEW c \in Runs
      PROVE  Pumped(r, c) \in [Runs -> Runs \cup {None}]
  BY <1>0 DEF Pumped, Shape
<1>1. ASSUME NEW c \in Runs, NEW t \in Timers, NEW d \in Delays \cup Periods, NEW i \in BOOLEAN,
             ScheduleTimer(c, t, d, i)
      PROVE  TypeOK'
  <2> DEFINE r == ActiveClock(c)
  <2>1. r \in Runs
    BY <1>1, RoutedToInstalled DEF ScheduleTimer, Installed
  <2>2. AheadOrders' /\ ahead' \in [Timers -> SUBSET Timers]
    <3>1. home[t] = None /\ home' = [home EXCEPT ![t] = r] /\ ToTheEnd(t, Queue(r))
      BY <1>1 DEF ScheduleTimer
    <3>2. QED
      BY <1>0, <2>1, <3>1, EndKeepsOrder DEF ClockAssumption
  <2>3. holds' \in 0..MaxHolds
    BY <1>0, <1>1 DEF ScheduleTimer, Holding, Shape, ClockAssumption
  <2>4. d \in Nat
    BY DEF ClockAssumption
  <2>5. home' \in [Timers -> Runs \cup {None}] /\ left' \in [Timers -> Nat]
        /\ delay' \in [Timers -> Nat] /\ isInterval' \in [Timers -> BOOLEAN]
    BY <1>0, <1>1, <2>1, <2>4 DEF ScheduleTimer, Shape
  <2>6. pump' \in [Runs -> Runs \cup {None}]
    BY <1>1, <1>p, <2>1 DEF ScheduleTimer
  <2>7. QED
    BY <1>0, <1>1, <1>g, <2>2, <2>3, <2>5, <2>6
    DEF ScheduleTimer, TypeOK, globalVars, runVars, threadVars
<1>2. ASSUME NEW c \in Runs, NEW t \in Timers, ClearTimer(c, t)
      PROVE  TypeOK'
  <2>1. AheadOrders' /\ ahead' \in [Timers -> SUBSET Timers]
    BY <1>0, <1>2, RemoveKeepsOrder DEF ClearTimer
  <2>2. home' \in [Timers -> Runs \cup {None}]
    BY <1>0, <1>2 DEF ClearTimer, Remove, Shape
  <2>3. QED
    BY <1>0, <1>2, <1>g, <2>1, <2>2 DEF ClearTimer, TypeOK, globalVars, runVars, threadVars
<1>3. ASSUME NEW c \in Runs, NEW t \in Timers, RefreshTimer(c, t)
      PROVE  TypeOK'
  <2>1. home[t] \in Runs /\ home' = [home EXCEPT ![t] = home[t]]
    BY <1>0, <1>3 DEF RefreshTimer, Shape
  <2>2. AheadOrders' /\ ahead' \in [Timers -> SUBSET Timers]
    BY <1>0, <1>3, <2>1, EndKeepsOrder DEF RefreshTimer, ClockAssumption
  <2>3. left' \in [Timers -> Nat]
    BY <1>0, <1>3 DEF RefreshTimer, Shape
  <2>4. holds' \in 0..MaxHolds
    BY <1>0, <1>3 DEF RefreshTimer, Holding, Shape, ClockAssumption
  <2>5. QED
    BY <1>0, <1>3, <1>g, <2>2, <2>3, <2>4 DEF RefreshTimer, TypeOK, globalVars, runVars, threadVars
<1>4. ASSUME NEW r \in Runs, Pump(r)
      PROVE  TypeOK'
  <2>1. pump' \in [Runs -> Runs \cup {None}] /\ pump[r] \in Runs
    BY <1>0, <1>4 DEF Pump, Shape
  <2>2. CASE run[r] = "on" /\ Queue(r) # {}
    <3>1. PICK t \in Timers : Earliest(r, t) /\ Fire(r, t)
      BY <1>4, <2>2 DEF Pump
    <3>2. /\ AheadOrders' /\ ahead' \in [Timers -> SUBSET Timers]
          /\ home' \in [Timers -> Runs \cup {None}]
          /\ left' \in [Timers -> Nat]
      BY <1>0, <3>1, FireKeepsTypes
    <3>3. UNCHANGED <<delay, isInterval>>
      BY <3>1 DEF Fire
    <3>4. firing' = r /\ context' = pump[r] /\ UNCHANGED holds
      BY <1>4, <2>2 DEF Pump
    <3>5. None \notin Runs
      BY DEF ClockAssumption
    <3>6. QED
      BY <1>0, <1>g, <2>1, <3>2, <3>3, <3>4, <3>5 DEF TypeOK, globalVars, runVars
  <2>3. CASE ~(run[r] = "on" /\ Queue(r) # {})
    BY <1>0, <1>4, <1>g, <2>1, <2>3
    DEF Pump, TypeOK, AheadOrders, globalVars, runVars, timerVars, threadVars
  <2>4. QED
    BY <2>2, <2>3
<1>5. CASE CallbackEnds
  <2>1. firing \in Runs /\ context \in Runs
    BY <1>0, <1>5 DEF CallbackEnds, ThreadFree, Shape
  <2>2. pump' \in [Runs -> Runs \cup {None}]
    BY <1>0, <1>5, <1>p, <2>1 DEF CallbackEnds, Shape
  <2>3. QED
    BY <1>0, <1>5, <1>g, <2>2
    DEF CallbackEnds, TypeOK, AheadOrders, globalVars, runVars, timerVars
<1>6. QED
  BY <1>1, <1>2, <1>3, <1>4, <1>5 DEF Running

(* schedulePump on an installed clock leaves it with a pump.               *)
LEMMA PumpedIsScheduled ==
  ASSUME TypeOK, None \notin Runs, NEW r \in Runs, NEW c \in Runs, run[r] = "on"
  PROVE  /\ Pumped(r, c)[r] # None
         /\ \A q \in Runs : pump[q] # None => Pumped(r, c)[q] # None
BY DEF Pumped, TypeOK

LEMMA RunningPumps ==
  ASSUME ClockAssumption, TypeOK, GlobalsCounted, PumpScheduled, Running
  PROVE  PumpScheduled'
<1>0. None \notin Runs
  BY DEF ClockAssumption
<1>h. \A t \in Timers : home[t] # None => home[t] \in Runs
  BY DEF TypeOK
<1>g. run' = run
  BY RunningKeeps DEF runVars
<1>1. ASSUME NEW c \in Runs, NEW t \in Timers, NEW d \in Delays \cup Periods, NEW i \in BOOLEAN,
             ScheduleTimer(c, t, d, i)
      PROVE  PumpScheduled'
  <2> DEFINE r == ActiveClock(c)
  <2>1. r \in Runs /\ run[r] = "on"
    BY <1>1, RoutedToInstalled DEF ScheduleTimer, Installed
  <2>2. /\ pump' = Pumped(r, c)
        /\ firing' = firing
        /\ \A u \in Timers : home'[u] = IF u = t THEN r ELSE home[u]
    BY <1>1 DEF ScheduleTimer, threadVars, TypeOK
  <2>3. pump'[r] # None /\ \A q \in Runs : pump[q] # None => pump'[q] # None
    BY <1>0, <2>1, <2>2, PumpedIsScheduled
  <2>4. QED
    BY <1>g, <1>h, <2>1, <2>2, <2>3 DEF PumpScheduled
<1>2. ASSUME NEW c \in Runs, NEW t \in Timers, ClearTimer(c, t) \/ RefreshTimer(c, t)
      PROVE  PumpScheduled'
  <2>1. /\ pump' = pump /\ firing' = firing
        /\ \A u \in Timers : home'[u] \in {home[u], None}
    BY <1>2 DEF ClearTimer, RefreshTimer, Remove, threadVars, TypeOK
  <2>2. QED
    BY <1>g, <2>1 DEF PumpScheduled
<1>3. ASSUME NEW r \in Runs, Pump(r)
      PROVE  PumpScheduled'
  <2>1. firing = None /\ pump[r] # None /\ \A q \in Runs \ {r} : pump'[q] = pump[q]
    BY <1>3 DEF Pump, ThreadFree, TypeOK
  <2>2. CASE run[r] = "on" /\ Queue(r) # {}
    <3>1. PICK t \in Timers : Earliest(r, t) /\ Fire(r, t)
      BY <1>3, <2>2 DEF Pump
    <3>2. \A u \in Timers : home'[u] \in {home[u], None}
      BY <3>1 DEF Fire, Remove, TypeOK
    <3>3. firing' = r
      BY <1>3, <2>2 DEF Pump
    <3>4. QED
      BY <1>g, <1>h, <2>1, <3>2, <3>3 DEF PumpScheduled
  <2>3. CASE ~(run[r] = "on" /\ Queue(r) # {})
    <3>1. home' = home /\ firing' = firing
      BY <1>3, <2>3 DEF Pump, timerVars, threadVars
    <3>2. \A u \in Timers : home[u] # r
      BY <2>3, <1>0 DEF PumpScheduled, Queue
    <3>3. QED
      BY <1>g, <1>h, <2>1, <3>1, <3>2 DEF PumpScheduled
  <2>4. QED
    BY <2>2, <2>3
<1>4. CASE CallbackEnds
  <2>1. firing \in Runs /\ context \in Runs
    BY <1>4 DEF CallbackEnds, ThreadFree, TypeOK
  <2>2. home' = home /\ pump' = IF Queue(firing) # {} THEN Pumped(firing, context) ELSE pump
    BY <1>4 DEF CallbackEnds, timerVars
  <2>3. CASE Queue(firing) # {}
    <3>1. run[firing] = "on"
      BY <1>0, <2>1, <2>3 DEF PumpScheduled, Queue
    <3>2. pump'[firing] # None /\ \A q \in Runs : pump[q] # None => pump'[q] # None
      BY <1>0, <2>1, <2>2, <2>3, <3>1, PumpedIsScheduled
    <3>3. QED
      BY <1>g, <1>h, <2>2, <3>2 DEF PumpScheduled
  <2>4. CASE Queue(firing) = {}
    BY <1>g, <1>h, <2>2, <2>4 DEF PumpScheduled, Queue
  <2>5. QED
    BY <2>3, <2>4
<1>5. QED
  BY <1>1, <1>2, <1>3, <1>4 DEF Running

LEMMA StepInvariants ==
  ASSUME ClockAssumption, TypeOK, GlobalsCounted, PumpScheduled, [Next]_vars
  PROVE  TypeOK' /\ GlobalsCounted' /\ PumpScheduled'
<1>1. CASE Lifecycle
  BY <1>1, LifecycleTypes, LifecycleGlobals, LifecyclePumps
<1>2. CASE Running
  <2>1. GlobalsCounted'
    BY <1>2, RunningKeeps DEF GlobalsCounted, Installed, globalVars, runVars
  <2>2. QED
    BY <1>2, <2>1, RunningTypes, RunningPumps
<1>3. CASE UNCHANGED vars
  BY <1>3 DEF vars, TypeOK, AheadOrders, GlobalsCounted, PumpScheduled, Installed,
     globalVars, runVars, timerVars, threadVars
<1>4. QED
  BY <1>1, <1>2, <1>3, NextSplit

LEMMA Invariants ==
  ASSUME ClockAssumption
  PROVE  Spec => [](TypeOK /\ GlobalsCounted /\ PumpScheduled)
<1>1. Init => TypeOK /\ GlobalsCounted /\ PumpScheduled
  BY InitInvariants
<1>2. (TypeOK /\ GlobalsCounted /\ PumpScheduled) /\ [Next]_vars
        => (TypeOK /\ GlobalsCounted /\ PumpScheduled)'
  BY StepInvariants
<1>3. QED
  BY <1>1, <1>2, PTL DEF Spec

(* The types, with clocks that never move past a pending timer.            *)
THEOREM ClockTypes == Spec => []TypeOK
BY ClockAssumption, Invariants, PTL

(* The globals are patched exactly while a clock is installed, however     *)
(* many there are and in whatever order they come and go.                  *)
THEOREM GlobalsAreCounted == Spec => []GlobalsCounted
BY ClockAssumption, Invariants, PTL

(* No timer waits for a pump that nobody scheduled.                        *)
THEOREM NoLostPump == Spec => []PumpScheduled
BY ClockAssumption, Invariants, PTL

-----------------------------------------------------------------------------
(* While sessions do not overlap and none is rejected: the resolver is set *)
(* exactly while a session is active, there is one at a time, and a clock  *)
(* that is installed belongs to it.                                        *)
OneSession ==
  /\ \A s \in Sessions : session[s] # "rejected"
  /\ \A s, z \in Sessions : session[s] = "active" /\ session[z] = "active" => s = z
  /\ resolver <=> \E s \in Sessions : session[s] = "active"
  /\ \A r \in Installed : owner[r] \in Sessions /\ session[owner[r]] = "active"

LEMMA OneSessionStep ==
  ASSUME ~Overlap, ~CallbackThrows, TypeOK, OneSession, [Next]_vars
  PROVE  OneSession'
<1>1. ASSUME NEW s \in Sessions, StartSession(s)
      PROVE  OneSession'
  <2>1. \A z \in Sessions : session[z] # "active"
    BY <1>1 DEF StartSession, UnderWay
  <2>2. session' = [session EXCEPT ![s] = "active"] /\ resolver' = TRUE /\ Installed' = Installed
    BY <1>1 DEF StartSession, Installed
  <2>3. owner' = owner /\ Installed = {}
    BY <1>1, <2>1 DEF StartSession, OneSession
  <2>4. QED
    BY <2>1, <2>2, <2>3 DEF OneSession, TypeOK
<1>2. ASSUME NEW s \in Sessions, EndSession(s)
      PROVE  OneSession'
  <2>1. (\A r \in Installed : owner[r] # s) /\ session' = [session EXCEPT ![s] = "over"]
    BY <1>2 DEF EndSession
  <2>2. resolver' = FALSE /\ session[s] = "active" /\ Installed' = Installed /\ owner' = owner
    BY <1>2 DEF EndSession, Installed
  <2>3. QED
    BY <2>1, <2>2 DEF OneSession, TypeOK
<1>3. ASSUME NEW r \in Runs, NEW s \in Sessions, Install(r, s)
      PROVE  OneSession'
  <2>1. session[s] = "active" /\ session' = session /\ resolver' = resolver
    BY <1>3 DEF Install, OneSession
  <2>2. Installed' = Installed \cup {r} /\ owner' = [owner EXCEPT ![r] = s]
    BY <1>3 DEF Install, Installed, TypeOK
  <2>3. QED
    BY <2>1, <2>2 DEF OneSession, TypeOK, Installed
<1>4. ASSUME NEW r \in Runs, Uninstall(r)
      PROVE  OneSession'
  <2>1. Installed' \subseteq Installed
    BY <1>4 DEF Uninstall, Installed, TypeOK
  <2>2. QED
    BY <1>4, <2>1 DEF OneSession, Uninstall
<1>5. CASE Running \/ UNCHANGED vars
  BY <1>5, RunningKeeps DEF OneSession, Installed, vars, globalVars, runVars
<1>6. QED
  BY <1>1, <1>2, <1>3, <1>4, <1>5, NextSplit DEF Lifecycle

(* With one session at a time, and none rejected, every run reads its own  *)
(* clock and everything else reads real time.                              *)
THEOREM OwnTimeAlone ==
  ASSUME ~Overlap, ~CallbackThrows
  PROVE  Spec => []OwnTime
<1>1. Init => OneSession
  BY DEF Init, OneSession, Installed
<1>2. TypeOK /\ OneSession /\ [Next]_vars => OneSession'
  BY OneSessionStep
<1>3. GlobalsCounted /\ OneSession => OwnTime
  BY DEF GlobalsCounted, OneSession, OwnTime, ActiveClock
<1>4. QED
  BY <1>1, <1>2, <1>3, ClockTypes, GlobalsAreCounted, PTL DEF Spec

=============================================================================
