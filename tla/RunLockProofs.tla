--------------------------- MODULE RunLockProofs ---------------------------
(***************************************************************************)
(* Theorems about RunLock, for any number of handlers, dispatches, crashes,*)
(* stalls and expiries.                                                    *)
(***************************************************************************)
EXTENDS RunLock, TLAPS

(* The handler's own steps and what is done to it, one name for both.      *)
Touches(d) == Deliver(d) \/ Handler(d) \/ Crash(d) \/ Expire(d)

(* Every step keeps the types.                                             *)
LEMMA TypeNext ==
  ASSUME LockConstants, TypeOK, [Next]_vars
  PROVE  TypeOK'
<1> USE LockConstants DEF LockConstants, TypeOK, Places, GoTo, handlerVars, queueVars, counters
<1>1. CASE Dispatch
  BY <1>1 DEF Dispatch
<1>2. CASE BackoffElapses
  BY <1>2 DEF BackoffElapses
<1>3. CASE Stall
  BY <1>3 DEF Stall
<1>4. ASSUME NEW d \in Deliveries, Deliver(d)
      PROVE  TypeOK'
  BY <1>4 DEF Deliver
<1>5. ASSUME NEW d \in Deliveries, Crash(d)
      PROVE  TypeOK'
  BY <1>5 DEF Crash
<1>6. ASSUME NEW d \in Deliveries, Expire(d)
      PROVE  TypeOK'
  BY <1>6 DEF Expire
<1>7. ASSUME NEW d \in Deliveries, Handler(d)
      PROVE  TypeOK'
  <2>1. CASE Acquire(d) \/ Check(d) \/ Create(d) \/ Start(d)
    BY <2>1 DEF Acquire, Check, Updated, Create, Start
  <2>2. CASE Complete(d) \/ Progress(d) \/ Release(d) \/ Cleanup(d) \/ Publish(d)
    BY <2>2 DEF Complete, Progress, Updated, Release, Cleanup, Publish
  <2>3. CASE Finish(d) \/ Ignored(d) \/ OnFailed(d)
    BY <2>3 DEF Finish, Ignored, OnFailed
  <2>4. CASE Fail(d)
    <3>1. made < Attempts /\ made + 1 \in 0..Attempts
      BY <2>4 DEF Fail
    <3>2. QED
      BY <2>4, <3>1 DEF Fail
  <2>5. QED
    BY <1>7, <2>1, <2>2, <2>3, <2>4 DEF Handler
<1>8. CASE UNCHANGED vars
  BY <1>8 DEF vars
<1>9. QED
  BY <1>1, <1>2, <1>3, <1>4, <1>5, <1>6, <1>7, <1>8 DEF Next

LEMMA TypeInit ==
  ASSUME LockConstants, Init
  PROVE  TypeOK
<1>1. /\ pc \in [Deliveries -> Places]
      /\ fate \in [Deliveries -> {"open", "ok", "locked", "error"}]
      /\ container \in [Deliveries -> {"none", "up", "removed"}]
  BY DEF Init, Places
<1>2. dlq \in BOOLEAN
  BY Zenon DEF Init
<1>3. QED
  BY <1>1, <1>2 DEF Init, TypeOK, LockConstants

(* The state of the key, the handlers and the job stays within its types.  *)
THEOREM LockTypes == Spec => []TypeOK
<1>1. Init => TypeOK
  BY LockAssumption, TypeInit
<1>2. TypeOK /\ [Next]_vars => TypeOK'
  BY LockAssumption, TypeNext
<1>3. QED
  BY <1>1, <1>2, PTL DEF Spec

-----------------------------------------------------------------------------
(* A handler that executes the run owns the key, unless its lock expired.  *)
SectionOwns == \A d \in Deliveries : Section(d) => key = d \/ d \in lapsed

LEMMA SectionOwnsNext ==
  ASSUME LockConstants, TypeOK, SectionOwns, [Next]_vars
  PROVE  SectionOwns'
<1> USE LockConstants
    DEF LockConstants, TypeOK, Places, GoTo, Section, SectionOwns,
        handlerVars, queueVars, counters
<1>1. CASE Dispatch \/ BackoffElapses \/ Stall \/ UNCHANGED vars
  BY <1>1 DEF Dispatch, BackoffElapses, Stall, vars
<1>2. ASSUME NEW d \in Deliveries, Touches(d)
      PROVE  SectionOwns'
  <2>1. CASE Deliver(d) \/ Crash(d) \/ Expire(d)
    BY <2>1 DEF Deliver, Crash, Expire
  <2>2. CASE Acquire(d)
    BY <2>2 DEF Acquire
  <2>3. CASE Check(d) \/ Create(d) \/ Start(d)
    BY <2>3 DEF Check, Updated, Create, Start
  <2>4. CASE Complete(d)
    BY <2>4 DEF Complete
  <2>5. CASE Release(d)
    BY <2>5 DEF Release
  <2>6. CASE Progress(d) \/ Cleanup(d) \/ Publish(d)
    BY <2>6 DEF Progress, Cleanup, Publish
  <2>7. CASE Finish(d) \/ Fail(d) \/ Ignored(d) \/ OnFailed(d)
    BY <2>7 DEF Finish, Fail, Ignored, OnFailed
  <2>8. QED
    BY <1>2, <2>1, <2>2, <2>3, <2>4, <2>5, <2>6, <2>7 DEF Touches, Handler
<1>3. QED
  BY <1>1, <1>2 DEF Next, Touches

(* "The old code proceeded anyway, so a duplicate delivery ran the same run*)
(* twice concurrently" (handler.ts:59): this one does not, as long as the  *)
(* locks outlive what they protect.                                        *)
THEOREM OneHandlerExecutes == Spec => []OneExecutes
<1>1. Init => SectionOwns
  BY DEF Init, SectionOwns, Section
<1>2. TypeOK /\ SectionOwns /\ [Next]_vars => SectionOwns'
  BY LockAssumption, SectionOwnsNext
<1>3. SectionOwns => OneExecutes
  BY DEF SectionOwns, OneExecutes
<1>4. QED
  BY <1>1, <1>2, <1>3, LockTypes, PTL DEF Spec

(* What a step does to the key: a free key is taken, the owner gives it up *)
(* after its work or completes the run, or the owner's time to live ends.  *)
LEMMA KeyChanges ==
  ASSUME LockConstants, TypeOK, [Next]_vars, key' # key
  PROVE  \/ key = "free"
         \/ \E d \in Deliveries : key = d /\ pc[d] \in {"complete", "release"}
         \/ \E d \in Deliveries : key = d /\ d \in lapsed'
<1>1. CASE Dispatch \/ BackoffElapses \/ Stall \/ UNCHANGED vars
  BY <1>1 DEF Dispatch, BackoffElapses, Stall, vars
<1>2. ASSUME NEW d \in Deliveries, Touches(d)
      PROVE  \/ key = "free"
             \/ key = d /\ pc[d] \in {"complete", "release"}
             \/ key = d /\ d \in lapsed'
  BY <1>2 DEF Touches, Handler, Deliver, Crash, Expire, Acquire, Check, Create, Start,
              Complete, Release, Progress, Cleanup, Publish, Finish, Fail, Ignored, OnFailed
<1>3. QED
  BY <1>1, <1>2 DEF Next, Touches

(* COMPLETED is never overwritten, released or expired, whichever handlers *)
(* are late.                                                               *)
THEOREM CompletedStays == Spec => CompletedIsFinal
<1>1. TypeOK /\ [Next]_vars => (key = "COMPLETED" => key' = "COMPLETED")
  BY LockAssumption, KeyChanges DEF LockConstants
<1>2. TypeOK /\ [Next]_vars => [key = "COMPLETED" => key' = "COMPLETED"]_vars
  BY <1>1
<1>3. QED
  BY <1>2, LockTypes, PTL DEF Spec, CompletedIsFinal

(* No handler takes another one's lock away.                               *)
THEOREM LockStaysOwn == Spec => LockIsOwn
<1>1. ASSUME TypeOK, [Next]_vars, NEW d \in Deliveries, key = d, Section(d), key' # d
      PROVE  pc[d] = "complete" \/ d \in lapsed'
  BY <1>1, LockAssumption, KeyChanges DEF LockConstants, Section
<1>2. TypeOK /\ [Next]_vars =>
        [\A d \in Deliveries :
           key = d /\ Section(d) /\ key' # d => pc[d] = "complete" \/ d \in lapsed']_vars
  BY <1>1
<1>3. QED
  BY <1>2, LockTypes, PTL DEF Spec, LockIsOwn

-----------------------------------------------------------------------------
(* Where a handler can be while its container is up, and after.            *)
ContainerInv ==
  \A d \in Deliveries :
    /\ container[d] = "up" =>
         pc[d] \in {"complete", "progress", "release", "cleanup", "dead"}
    /\ container[d] = "removed" =>
         \/ pc[d] \in {"publish", "dead"}
         \/ pc[d] \in {"settle", "failed", "over"} /\ (d \in metered \/ fate[d] = "error")
    /\ pc[d] = "complete" => container[d] = "up"

LInv == ContainerInv /\ CompletedWasExecuted

LEMMA LInvNext ==
  ASSUME LockConstants, TypeOK, LInv, [Next]_vars
  PROVE  LInv'
<1> USE LockConstants
    DEF LockConstants, TypeOK, Places, GoTo, LInv, ContainerInv, CompletedWasExecuted,
        handlerVars, queueVars, counters
<1>1. CASE Dispatch \/ BackoffElapses \/ Stall \/ UNCHANGED vars
  BY <1>1 DEF Dispatch, BackoffElapses, Stall, vars
<1>2. ASSUME NEW d \in Deliveries, Touches(d)
      PROVE  LInv'
  <2>1. CASE Deliver(d) \/ Crash(d) \/ Expire(d)
    BY <2>1 DEF Deliver, Crash, Expire
  <2>2. CASE Acquire(d) \/ Check(d) \/ Create(d)
    BY <2>2 DEF Acquire, Check, Updated, Create
  <2>3. CASE Start(d)
    BY <2>3 DEF Start
  <2>4. CASE Complete(d)
    BY <2>4 DEF Complete
  <2>5. CASE Release(d) \/ Progress(d)
    BY <2>5 DEF Release, Progress
  <2>6. CASE Cleanup(d)
    BY <2>6 DEF Cleanup
  <2>7. CASE Publish(d)
    BY <2>7 DEF Publish
  <2>8. CASE Finish(d) \/ Fail(d) \/ Ignored(d) \/ OnFailed(d)
    BY <2>8 DEF Finish, Fail, Ignored, OnFailed
  <2>9. QED
    BY <1>2, <2>1, <2>2, <2>3, <2>4, <2>5, <2>6, <2>7, <2>8 DEF Touches, Handler
<1>3. QED
  BY <1>1, <1>2 DEF Next, Touches

LEMMA ContainersCorrect == Spec => []LInv
<1>1. LockConstants /\ Init => LInv
  BY DEF Init, LInv, ContainerInv, CompletedWasExecuted
<1>2. TypeOK /\ LInv /\ [Next]_vars => LInv'
  BY LockAssumption, LInvNext
<1>3. QED
  BY <1>1, <1>2, LockAssumption, LockTypes, PTL DEF Spec

(* COMPLETED is a claim about an execution that took place.                *)
THEOREM CompletedMeansExecuted == Spec => []CompletedWasExecuted
BY ContainersCorrect, PTL DEF LInv

(* The finally block of handleRun does its work on every path, and when    *)
(* the usage cannot be published the handler says so.                      *)
THEOREM SettledLeavesNothing == Spec => []SettledIsClean
<1>1. LInv => SettledIsClean
  BY DEF LInv, ContainerInv, SettledIsClean
<1>2. QED
  BY <1>1, ContainersCorrect, PTL

-----------------------------------------------------------------------------
(* The lease.                                                              *)
Executing == {d \in Deliveries : Section(d)}

(* A step of one handler moves nobody else in or out of the section.       *)
LEMMA SectionMoves ==
  ASSUME TypeOK, NEW d \in Deliveries, NEW at, GoTo(d, at)
  PROVE  /\ at \in {"create", "start", "complete"} => Executing' = Executing \cup {d}
         /\ at \notin {"create", "start", "complete"} => Executing' = Executing \ {d}
<1>1. pc'[d] = at /\ \A e \in Deliveries \ {d} : pc'[e] = pc[e]
  BY DEF TypeOK, GoTo
<1>2. QED
  BY <1>1 DEF Executing, Section

LEMMA LeaseStep ==
  ASSUME LockConstants, TypeOK, [Next]_vars
  PROVE  [Lease!Next]_Lease!vars
<1>0. ASSUME UNCHANGED <<key, lapsed>>, Executing' = Executing
      PROVE  UNCHANGED Lease!vars
  BY <1>0 DEF Lease!vars, Executing
<1>1. CASE Dispatch \/ BackoffElapses \/ Stall \/ UNCHANGED vars
  BY <1>1 DEF Dispatch, BackoffElapses, Stall, vars, handlerVars, Lease!vars, Section
<1>2. ASSUME NEW d \in Deliveries, Touches(d)
      PROVE  [Lease!Next]_Lease!vars
  <2>1. CASE Acquire(d)
    <3>1. CASE key = "free"
      <4>1. d \notin Executing /\ Executing' = Executing \cup {d} /\ key' = d /\ UNCHANGED lapsed
        BY <2>1, <3>1, SectionMoves DEF Acquire, Executing, Section
      <4>2. Lease!Begin(d)
        BY <3>1, <4>1 DEF Lease!Begin, Executing
      <4>3. QED
        BY <4>2 DEF Lease!Next
    <3>2. CASE key # "free"
      <4>1. d \notin Executing /\ Executing' = Executing \ {d} /\ UNCHANGED <<key, lapsed>>
        BY <2>1, <3>2, SectionMoves DEF Acquire, Executing, Section
      <4>2. UNCHANGED Lease!vars
        BY <1>0, <4>1
      <4>3. QED
        BY <4>2
    <3>3. QED
      BY <3>1, <3>2
  <2>2. CASE Complete(d)
    <3>1. /\ d \in Executing /\ Executing' = Executing \ {d} /\ UNCHANGED lapsed
          /\ key' = IF key = d THEN "COMPLETED" ELSE key
      BY <2>2, SectionMoves DEF Complete, Executing, Section
    <3>2. Lease!Complete(d)
      BY <3>1 DEF Lease!Complete, Executing
    <3>3. QED
      BY <3>2 DEF Lease!Next
  <2>3. CASE Release(d)
    <3>1. /\ d \notin Executing /\ Executing' = Executing \ {d} /\ UNCHANGED lapsed
          /\ key' = IF key = d THEN "free" ELSE key
      BY <2>3, SectionMoves DEF Release, Executing, Section
    <3>2. CASE key = d
      <4>1. Lease!Release(d)
        BY <3>1, <3>2 DEF Lease!Release, Executing
      <4>2. QED
        BY <4>1 DEF Lease!Next
    <3>3. CASE key # d
      <4>1. UNCHANGED Lease!vars
        BY <1>0, <3>1, <3>3
      <4>2. QED
        BY <4>1
    <3>4. QED
      BY <3>2, <3>3
  <2>4. CASE Expire(d)
    <3>1. Lease!Expire(d)
      BY <2>4 DEF Expire, handlerVars, Lease!Expire, Section
    <3>2. QED
      BY <3>1 DEF Lease!Next
  <2>5. ASSUME UNCHANGED <<key, lapsed>>, Executing' = Executing \/ Executing' = Executing \ {d}
        PROVE  [Lease!Next]_Lease!vars
    <3>1. CASE Executing' = Executing
      <4>1. UNCHANGED Lease!vars
        BY <1>0, <2>5, <3>1
      <4>2. QED
        BY <4>1
    <3>2. CASE Executing' = Executing \ {d} /\ d \in Executing
      <4>1. Lease!Abandon(d)
        BY <2>5, <3>2 DEF Lease!Abandon, Executing
      <4>2. QED
        BY <4>1 DEF Lease!Next
    <3>3. QED
      BY <2>5, <3>1, <3>2
  <2>6. CASE Create(d) \/ Start(d) \/ Crash(d)
    <3>1. UNCHANGED <<key, lapsed>> /\ \E at \in Places : GoTo(d, at)
      BY <2>6 DEF Create, Start, Crash, Places
    <3>2. d \in Executing \/ GoTo(d, "dead")
      BY <2>6 DEF Create, Start, Crash, Executing, Section
    <3>3. Executing' = Executing \/ Executing' = Executing \ {d}
      BY <3>1, <3>2, SectionMoves
    <3>4. QED
      BY <2>5, <3>1, <3>3
  <2>7. CASE \/ Deliver(d) \/ Check(d) \/ Progress(d) \/ Cleanup(d) \/ Publish(d)
             \/ Finish(d) \/ Fail(d) \/ Ignored(d) \/ OnFailed(d)
    <3>1. /\ UNCHANGED <<key, lapsed>>
          /\ \E at \in Places \ {"create", "start", "complete"} : GoTo(d, at)
      BY <2>7 DEF Deliver, Check, Progress, Cleanup, Publish, Finish, Fail, Ignored, OnFailed, Places
    <3>2. Executing' = Executing \ {d}
      BY <3>1, SectionMoves
    <3>3. QED
      BY <2>5, <3>1, <3>2
  <2>8. QED
    BY <1>2, <2>1, <2>2, <2>3, <2>4, <2>6, <2>7 DEF Touches, Handler
<1>3. QED
  BY <1>1, <1>2 DEF Next, Touches

(* The key of a run is a lease for any number of handlers: executions      *)
(* begin only with it, it is taken away only by its time to live, and      *)
(* COMPLETED is the end of a run (handler.ts:48-93).                       *)
THEOREM LeaseImplemented == Spec => ImplementsLease
<1>1. Init => Lease!Init
  BY DEF Init, Lease!Init, Section
<1>2. TypeOK /\ [Next]_vars => [Lease!Next]_Lease!vars
  BY LeaseStep, LockAssumption
<1>3. QED
  BY <1>1, <1>2, LockTypes, PTL DEF Spec, ImplementsLease, Lease!Spec

=============================================================================
