--------------------------- MODULE ChaosCalendar ---------------------------
(***************************************************************************)
(* ChaosCalendar of packages/core/src/calendar.ts: a timer that, when it   *)
(* fires, starts a search session for every due project, waits for them    *)
(* all, and arms itself again.                                             *)
(*                                                                         *)
(* Abstractions.  Of lastStarted a project keeps its age, up to the        *)
(* interval.  A chain is one timer with the ticks it fires and arms after  *)
(* them; there is one unless stop() and start() come while a tick awaits.  *)
(* Of the history the number of records remains.                           *)
(***************************************************************************)
EXTENDS Naturals, FiniteSets

CONSTANTS
  Projects,
  Interval,     \* intervalMs of every project, in units of time
  MaxSessions,  \* bound: sessions of a project
  Chains,       \* bound: timers and ticks at once
  None

VARIABLES
  registered, \* the keys of projects
  enabled,    \* those with calendarEnabled
  age,        \* time since lastStarted
  running,    \* the set of that name
  stopped,    \* the flag of that name
  armed,      \* chains whose timer is armed
  timer,      \* the chain this.timer refers to
  sessions,   \* by chain: the projects whose runSession() the tick awaits
  reports,    \* by chain: the projects whose onFailure() it awaits
  started,    \* history: sessions started, by project
  recorded    \* entries of history, by project

calendarVars == <<registered, enabled, age, running, stopped, armed, timer,
                  sessions, reports, started, recorded>>

Ticking == {c \in Chains : sessions[c] # {} \/ reports[c] # {}}
Alive == armed \cup Ticking

-----------------------------------------------------------------------------
Init ==
  /\ registered = {} /\ enabled = {}
  /\ age = [p \in Projects |-> Interval]
  /\ running = {} /\ stopped = TRUE
  /\ armed = {} /\ timer = None
  /\ sessions = [c \in Chains |-> {}] /\ reports = [c \in Chains |-> {}]
  /\ started = [p \in Projects |-> 0] /\ recorded = [p \in Projects |-> 0]

(* scheduleTick() of a chain, given what is armed besides.                 *)
ScheduleTick(c, others) ==
  IF stopped THEN armed' = others /\ UNCHANGED timer
             ELSE armed' = others \cup {c} /\ timer' = c

RegisterProject(p) ==
  /\ registered' = registered \cup {p}
  /\ enabled' \in {enabled \cup {p}, enabled \ {p}}
  /\ UNCHANGED <<age, running, stopped, armed, timer, sessions, reports, started, recorded>>

SetProjectStatus(p) ==
  /\ p \in registered
  /\ enabled' \in {enabled \cup {p}, enabled \ {p}}
  /\ UNCHANGED <<registered, age, running, stopped, armed, timer, sessions, reports,
                 started, recorded>>

Start ==
  /\ stopped
  /\ stopped' = FALSE
  /\ \E c \in Chains \ Alive : armed' = armed \cup {c} /\ timer' = c
  /\ UNCHANGED <<registered, enabled, age, running, sessions, reports, started, recorded>>

(* stop(): the last timer armed is cleared, if it has not fired.           *)
Stop ==
  /\ stopped' = TRUE
  /\ armed' = armed \ {timer}
  /\ timer' = None
  /\ UNCHANGED <<registered, enabled, age, running, sessions, reports, started, recorded>>

(* Fault: the projects that run are not left out.                          *)
DueAgain == {p \in registered \cap enabled : age[p] >= Interval}

Due == {p \in registered \cap enabled : p \notin running /\ age[p] >= Interval}

(* The timer of c fires, whether or not the calendar was stopped since.    *)
TickFires(c) ==
  /\ c \in armed
  /\ \A p \in Due : started[p] < MaxSessions
  /\ running' = running \cup Due
  /\ age' = [p \in Projects |-> IF p \in Due THEN 0 ELSE age[p]]
  /\ started' = [p \in Projects |-> started[p] + (IF p \in Due THEN 1 ELSE 0)]
  /\ sessions' = [sessions EXCEPT ![c] = Due]
  /\ IF Due = {} THEN ScheduleTick(c, armed \ {c})
                 ELSE armed' = armed \ {c} /\ UNCHANGED timer
  /\ UNCHANGED <<registered, enabled, stopped, reports, recorded>>

(* p was the last one that the tick of c awaited: c goes on or ends.       *)
Done(c) ==
  IF sessions'[c] = {} /\ reports'[c] = {}
    THEN ScheduleTick(c, armed)
    ELSE UNCHANGED <<armed, timer>>

(* The session of p settles: the record is kept, the project may run       *)
(* again, and onFailure() is awaited if the session failed or threw.       *)
SessionSettles(c, p) ==
  /\ p \in sessions[c]
  /\ sessions' = [sessions EXCEPT ![c] = @ \ {p}]
  /\ recorded' = [recorded EXCEPT ![p] = @ + 1]
  /\ running' = running \ {p}
  /\ reports' \in {reports, [reports EXCEPT ![c] = @ \cup {p}]}
  /\ Done(c)
  /\ UNCHANGED <<registered, enabled, age, stopped, started>>

(* onFailure() settles; what it throws is logged.                          *)
ReportSettles(c, p) ==
  /\ p \in reports[c]
  /\ reports' = [reports EXCEPT ![c] = @ \ {p}]
  /\ sessions' = sessions
  /\ Done(c)
  /\ UNCHANGED <<registered, enabled, age, running, stopped, started, recorded>>

TimePasses ==
  /\ \E p \in Projects : age[p] < Interval
  /\ age' = [p \in Projects |-> IF age[p] < Interval THEN age[p] + 1 ELSE Interval]
  /\ UNCHANGED <<registered, enabled, running, stopped, armed, timer, sessions, reports,
                 started, recorded>>

Next ==
  \/ Start \/ Stop \/ TimePasses
  \/ \E p \in Projects : RegisterProject(p) \/ SetProjectStatus(p)
  \/ \E c \in Chains : TickFires(c)
  \/ \E c \in Chains, p \in Projects : SessionSettles(c, p) \/ ReportSettles(c, p)

Spec == Init /\ [][Next]_calendarVars

-----------------------------------------------------------------------------
TypeOK ==
  /\ registered \subseteq Projects /\ enabled \subseteq registered
  /\ age \in [Projects -> 0..Interval]
  /\ running \subseteq Projects /\ stopped \in BOOLEAN
  /\ armed \subseteq Chains /\ timer \in Chains \cup {None}
  /\ sessions \in [Chains -> SUBSET Projects] /\ reports \in [Chains -> SUBSET Projects]
  /\ started \in [Projects -> 0..MaxSessions] /\ recorded \in [Projects -> 0..MaxSessions]

(* A project never has two sessions running at once (calendar.ts:29-31),   *)
(* whatever chains tick and however stop() and start() fall; a session     *)
(* that ended is in the history once, one that runs is not.                *)
OneSessionEach ==
  \A p \in Projects :
    LET runs == Cardinality({c \in Chains : p \in sessions[c]})
    IN runs <= 1 /\ started[p] = recorded[p] + runs

(* Unless it is stopped, the calendar has a timer armed or a tick that     *)
(* will arm one: a session that throws, or a stop() and a start() during   *)
(* a tick, do not put it to sleep.  And stop() reaches the timer when      *)
(* there is but one chain.                                                 *)
CalendarAwake ==
  ~stopped =>
    /\ Alive # {}
    /\ Cardinality(Alive) = 1 /\ armed # {} => timer \in armed

(* The two together: the calendar goes on, with one session of a project.  *)
CalendarKeepsOn == OneSessionEach /\ CalendarAwake

(* A slow tick can never overlap the next one (calendar.ts:133).           *)
TicksNeverOverlap == Cardinality(Alive) <= 1

=============================================================================
