------------------------------ MODULE RunLease ------------------------------
(***************************************************************************)
(* What the key sibyl:run:<id>:status promises the executions of one run,  *)
(* with no queue, no sandboxes and no processes.  An execution begins by   *)
(* taking a free lease.  The lease goes back only after the execution of   *)
(* its owner ended, or by its time to live, which marks the owner.  A run  *)
(* is completed by an execution that still has the lease at its end, and   *)
(* then for good: no execution begins any more.                            *)
(***************************************************************************)
CONSTANT Handlers

VARIABLES
  status,    \* "free", the handler that has the lease, or "COMPLETED"
  executing, \* handlers that execute the run
  expired    \* handlers whose lease ended by its time to live

vars == <<status, executing, expired>>

Init == status = "free" /\ executing = {} /\ expired = {}

Begin(h) ==
  /\ status = "free"
  /\ h \notin executing
  /\ status' = h
  /\ executing' = executing \cup {h}
  /\ UNCHANGED expired

(* Without the lease, an execution ends for nothing.                       *)
Complete(h) ==
  /\ h \in executing
  /\ executing' = executing \ {h}
  /\ status' = IF status = h THEN "COMPLETED" ELSE status
  /\ UNCHANGED expired

(* It fails, or its process dies.                                          *)
Abandon(h) ==
  /\ h \in executing
  /\ executing' = executing \ {h}
  /\ UNCHANGED <<status, expired>>

Release(h) ==
  /\ status = h
  /\ h \notin executing
  /\ status' = "free"
  /\ UNCHANGED <<executing, expired>>

Expire(h) ==
  /\ status = h
  /\ status' = "free"
  /\ expired' = expired \cup {h}
  /\ UNCHANGED executing

Next == \E h \in Handlers : Begin(h) \/ Complete(h) \/ Abandon(h) \/ Release(h) \/ Expire(h)

Spec == Init /\ [][Next]_vars

=============================================================================
