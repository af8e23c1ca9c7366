--------------------------- MODULE SearchSession ---------------------------
(***************************************************************************)
(* What SearchOrchestrator.run() promises its caller, with no workers, no  *)
(* deduplication and no retries: a session counts no run beyond its        *)
(* budget; from the run that ends an early-exit session on, it counts at   *)
(* most Overrun more (those already under way on the other workers); once  *)
(* run() has returned, its result no longer changes; and a session resumed *)
(* from an exported state goes on from what was exported, under whatever   *)
(* configuration, but counts nothing more if it had been ended.            *)
(***************************************************************************)
EXTENDS Naturals

CONSTANTS
  Budgets,     \* the values config.iterations may have
  EarlyExits,  \* the values config.earlyExit may have
  Overrun      \* runs that may still be counted after an early exit

Statuses == {"COMPLETED", "FAILED", "INTERMITTENT", "ERRORED"}

VARIABLES
  budget,    \* config.iterations, chosen anew when the session is resumed
  earlyExit, \* config.earlyExit, chosen anew as well
  tally,     \* counted runs by status: the totals of a SearchResult
  exited,    \* an early exit ended the session
  late,      \* runs that may still be counted after it
  phase,     \* "running", "returned" or "rejected"
  saved      \* the last exported state, in a set that is empty before the first

vars == <<budget, earlyExit, tally, exited, late, phase, saved>>

Counted == tally["COMPLETED"] + tally["FAILED"]
             + tally["INTERMITTENT"] + tally["ERRORED"]

Init ==
  /\ budget \in Budgets
  /\ earlyExit \in EarlyExits
  /\ tally = [s \in Statuses |-> 0]
  /\ exited = FALSE
  /\ late = 0
  /\ phase = "running"
  /\ saved = {}

(* A run is counted.  A session whose run() was rejected may still count   *)
(* runs of its other workers; one that has returned may not.               *)
Count(s) ==
  /\ phase # "returned"
  /\ Counted < budget
  /\ tally' = [tally EXCEPT ![s] = @ + 1]
  /\ exited' = (exited \/ (earlyExit /\ s # "COMPLETED"))
  /\ \/ exited /\ late > 0 /\ late' = late - 1
     \/ ~exited /\ exited' /\ late' \in 0..Overrun
     \/ ~exited /\ ~exited' /\ late' = late
  /\ UNCHANGED <<budget, earlyExit, phase, saved>>

Settle(p) ==
  /\ phase = "running"
  /\ phase' = p
  /\ UNCHANGED <<budget, earlyExit, tally, exited, late, saved>>

Export ==
  /\ saved' = {[tally |-> tally, exited |-> exited]}
  /\ UNCHANGED <<budget, earlyExit, tally, exited, late, phase>>

Resume ==
  /\ \E state \in saved : tally' = state.tally /\ exited' = state.exited
  /\ late' = 0
  /\ budget' \in Budgets
  /\ earlyExit' \in EarlyExits
  /\ phase' = "running"
  /\ UNCHANGED saved

Next ==
  \/ \E s \in Statuses : Count(s)
  \/ \E p \in {"returned", "rejected"} : Settle(p)
  \/ Export
  \/ Resume

Spec == Init /\ [][Next]_vars

=============================================================================
