------------------------- MODULE OrchestratorProofs -------------------------
(***************************************************************************)
(* Safety of Orchestrator for every number of workers, every budget and    *)
(* every outcome of the runs.                                              *)
(***************************************************************************)
EXTENDS Orchestrator, FiniteSetTheorems, TLAPS

USE DEF config

-----------------------------------------------------------------------------
(* The record an executed run leaves is well typed.                        *)
LEMMA RecordType ==
  ASSUME TypeOK, NEW w \in Executing, NEW st \in Statuses, NEW n \in Nat
  PROVE  [attempt |-> job[w].attempt, fp |-> job[w].fp,
          status |-> st, failed |-> n] \in Records
BY DEF TypeOK, Jobs, Records, Executing

(* recordRun keeps the types of everything it changes.                     *)
LEMMA RecordRunType ==
  ASSUME TypeOK, NEW w \in Workers, NEW r \in Records, RecordRun(w, r)
  PROVE  /\ results' \in Seq(Records) /\ Len(results') = Len(results) + 1
         /\ worst' \in 0..Len(results')
         /\ earlyExited' \in BOOLEAN
         /\ pc' \in [Workers -> {"start", "loop", "exec", "retry", "done", "threw"}]
         /\ job' \in [Workers -> Jobs]
         /\ \A v \in Workers : pc'[v] \in {"exec", "retry"} =>
               v # w /\ pc[v] = pc'[v] /\ job'[v] = job[v]
<1>1. results' \in Seq(Records) /\ Len(results') = Len(results) + 1
  BY DEF RecordRun, TypeOK
<1>2. worst' \in 0..Len(results')
  BY <1>1 DEF RecordRun, TypeOK
<1>3. earlyExited' \in BOOLEAN
  BY DEF RecordRun, ExitsEarly, TypeOK, Passed
<1>4. PICK next \in {"loop", "threw"} : pc' = [pc EXCEPT ![w] = next]
  BY DEF RecordRun
<1>5. pc' \in [Workers -> {"start", "loop", "exec", "retry", "done", "threw"}]
  BY <1>4 DEF TypeOK
<1>6. NoJob \in Jobs
  BY DEF NoJob, Jobs
<1>7. job' \in [Workers -> Jobs]
  BY <1>6 DEF RecordRun, TypeOK
<1>8. \A v \in Workers : pc'[v] \in {"exec", "retry"} =>
               v # w /\ pc[v] = pc'[v] /\ job'[v] = job[v]
  BY <1>4 DEF RecordRun, TypeOK
<1>9. QED
  BY <1>1, <1>2, <1>3, <1>5, <1>7, <1>8

(* The first run of an attempt, or its last retry, is recorded.            *)
LEMMA RecordStepType ==
  ASSUME SearchConstants, TypeOK, NEW w \in Executing,
         NEW st \in Statuses, NEW n \in Nat, Record(w, st, n)
  PROVE  TypeOK'
<1> DEFINE r == [attempt |-> job[w].attempt, fp |-> job[w].fp,
                 status |-> st, failed |-> n]
<1>1. r \in Records
  BY RecordType
<1>2. w \in Workers /\ RecordRun(w, r)
  BY DEF Record, Executing
<1> HIDE DEF r
<1>3. /\ results' \in Seq(Records) /\ Len(results') = Len(results) + 1
      /\ worst' \in 0..Len(results')
      /\ earlyExited' \in BOOLEAN
      /\ pc' \in [Workers -> {"start", "loop", "exec", "retry", "done", "threw"}]
      /\ job' \in [Workers -> Jobs]
      /\ \A v \in Workers : pc'[v] \in {"exec", "retry"} =>
            v # w /\ pc[v] = pc'[v] /\ job'[v] = job[v]
  BY <1>1, <1>2, RecordRunType
<1>4. seen' \in [Fingerprints -> 0..Len(results')]
  BY <1>3 DEF Record, TypeOK
<1>5. \A v \in Executing' : job'[v].fp \in Fingerprints
  BY <1>3 DEF TypeOK, Executing
<1>6. UNCHANGED <<config, claimed, attempts, dups, phase, snapshot, resumes>>
  BY DEF Record
<1>7. \A s \in snapshot' : SnapshotOK(s)
  BY <1>6 DEF TypeOK
<1>8. QED
  BY <1>3, <1>4, <1>5, <1>6, <1>7 DEF TypeOK

(* A retry's outcome is typed like any other.                              *)
LEMMA OutcomeType ==
  ASSUME SearchConstants, NEW o \in Outcomes
  PROVE  o.status \in Statuses /\ o.failed \in Nat
BY DEF Outcomes, Statuses, SearchConstants

(* Updating the counters of a job leaves its fingerprint alone.            *)
LEMMA JobUpdateType ==
  ASSUME NEW j \in Jobs, NEW n \in Nat
  PROVE  /\ [j EXCEPT !.failed = n] \in Jobs /\ [j EXCEPT !.failed = n].fp = j.fp
         /\ [j EXCEPT !.left = n] \in Jobs /\ [j EXCEPT !.left = n].fp = j.fp
BY DEF Jobs

LEMMA WorkerStepType ==
  ASSUME SearchConstants, TypeOK, NEW w \in Workers, WorkerStep(w)
  PROVE  TypeOK'
<1>1. CASE Begin(w)
  BY <1>1 DEF Begin, TypeOK, stateVars, Executing
<1>2. CASE Leave(w)
  BY <1>2 DEF Leave, TypeOK, stateVars, Executing
<1>3. CASE Malformed(w)
  <2> DEFINE r == [attempt |-> attempts, fp |-> NoFingerprint,
                   status |-> "ERRORED", failed |-> 0]
  <2>1. r \in Records
    BY DEF Records, TypeOK, Statuses
  <2>2. RecordRun(w, r)
    BY <1>3 DEF Malformed
  <2> HIDE DEF r
  <2>3. /\ results' \in Seq(Records) /\ Len(results') = Len(results) + 1
        /\ worst' \in 0..Len(results')
        /\ earlyExited' \in BOOLEAN
        /\ pc' \in [Workers -> {"start", "loop", "exec", "retry", "done", "threw"}]
        /\ job' \in [Workers -> Jobs]
        /\ \A v \in Workers : pc'[v] \in {"exec", "retry"} =>
              v # w /\ pc[v] = pc'[v] /\ job'[v] = job[v]
    BY <2>1, <2>2, RecordRunType
  <2>4. claimed' = claimed + 1 /\ attempts' = attempts + 1
    BY <1>3 DEF Malformed, Asking
  <2>5. UNCHANGED <<config, seen, dups, phase, snapshot, resumes>>
    BY <1>3 DEF Malformed
  <2>6. seen' \in [Fingerprints -> 0..Len(results')]
    BY <2>3, <2>5 DEF TypeOK
  <2>7. \A v \in Executing' : job'[v].fp \in Fingerprints
    BY <2>3 DEF TypeOK, Executing
  <2>8. \A s \in snapshot' : SnapshotOK(s)
    BY <2>5 DEF TypeOK
  <2>9. claimed' \in Nat /\ attempts' \in Nat
    BY <2>4 DEF TypeOK
  <2>10. QED
    BY <2>3, <2>5, <2>6, <2>7, <2>8, <2>9 DEF TypeOK
<1>4. ASSUME NEW f \in Fingerprints, Duplicate(w, f)
      PROVE  TypeOK'
  BY <1>4 DEF Duplicate, Asking, TypeOK, Executing, SearchConstants
<1>5. ASSUME NEW f \in Fingerprints, Execute(w, f)
      PROVE  TypeOK'
  <2>1. job' \in [Workers -> Jobs] /\ pc' \in [Workers -> {"start", "loop", "exec", "retry", "done", "threw"}]
    BY <1>5 DEF Execute, TypeOK, Jobs, SearchConstants
  <2>2. \A v \in Executing' : job'[v].fp \in Fingerprints
    BY <1>5 DEF Execute, TypeOK, Executing
  <2>3. claimed' \in Nat /\ attempts' \in Nat /\ dups' \in [Workers -> 0..MaxDuplicates]
    BY <1>5 DEF Execute, Asking, TypeOK, SearchConstants
  <2>4. UNCHANGED <<config, results, worst, earlyExited, seen, phase,
                    snapshot, resumes>>
    BY <1>5 DEF Execute
  <2>5. QED
    BY <2>1, <2>2, <2>3, <2>4 DEF TypeOK
<1>6. ASSUME NEW o \in Outcomes, Settle(w, o)
      PROVE  TypeOK'
  BY <1>6, OutcomeType, RecordStepType DEF Settle, Resumable, Executing
<1>7. ASSUME NEW o \in Outcomes, Suspect(w, o)
      PROVE  TypeOK'
  <2>1. o.failed \in Nat
    BY OutcomeType
  <2> DEFINE j == [job[w] EXCEPT !.failed = o.failed]
  <2>2. j \in Jobs /\ j.fp = job[w].fp
    BY <2>1, JobUpdateType DEF TypeOK
  <2>3. job' = [job EXCEPT ![w] = j]
    BY <1>7 DEF Suspect
  <2> HIDE DEF j
  <2>4. /\ job' \in [Workers -> Jobs] /\ \A v \in Workers : job'[v].fp = job[v].fp
        /\ pc' \in [Workers -> {"start", "loop", "exec", "retry", "done", "threw"}]
        /\ Executing' = Executing
    BY <1>7, <2>2, <2>3 DEF Suspect, Resumable, TypeOK, Executing
  <2>5. QED
    BY <1>7, <2>4 DEF Suspect, TypeOK, stateVars
<1>8. ASSUME NEW o \in Outcomes, RetryAgain(w, o)
      PROVE  TypeOK'
  <2> DEFINE j == [job[w] EXCEPT !.left = @ - 1]
  <2>1. j \in Jobs /\ j.fp = job[w].fp
    <3>1. job[w] \in Jobs /\ job[w].left > 1
      BY <1>8 DEF RetryAgain, TypeOK
    <3>2. job[w].left \in Nat /\ job[w].left - 1 \in Nat
      BY <3>1 DEF Jobs
    <3>3. QED
      BY <3>1, <3>2, JobUpdateType
  <2>2. job' = [job EXCEPT ![w] = j]
    BY <1>8 DEF RetryAgain
  <2> HIDE DEF j
  <2>3. job' \in [Workers -> Jobs] /\ \A v \in Workers : job'[v].fp = job[v].fp
    BY <2>1, <2>2 DEF TypeOK
  <2>4. QED
    BY <1>8, <2>3 DEF RetryAgain, TypeOK, stateVars, Executing
<1>9. ASSUME NEW o \in Outcomes, SettleRetry(w, o)
      PROVE  TypeOK'
  <2>1. job[w].failed \in Nat
    BY DEF TypeOK, Jobs
  <2>2. w \in Executing
    BY <1>9 DEF SettleRetry, Resumable, Executing
  <2>3. \E st \in Statuses, n \in Nat : Record(w, st, n)
    BY <1>9, <2>1, OutcomeType DEF SettleRetry, Statuses
  <2>4. QED
    BY <2>2, <2>3, RecordStepType
<1>10. QED
  BY <1>1, <1>2, <1>3, <1>4, <1>5, <1>6, <1>7, <1>8, <1>9 DEF WorkerStep

LEMMA NextType ==
  ASSUME SearchConstants
  PROVE  TypeOK /\ [Next]_vars => TypeOK'
<1> SUFFICES ASSUME TypeOK, [Next]_vars
             PROVE  TypeOK'
  OBVIOUS
<1>1. ASSUME NEW w \in Workers, WorkerStep(w)
      PROVE  TypeOK'
  BY <1>1, WorkerStepType
<1>2. CASE Return
  BY <1>2 DEF Return, TypeOK, stateVars, workerVars, Executing
<1>3. CASE Reject
  BY <1>3 DEF Reject, TypeOK, stateVars, workerVars, Executing
<1>4. CASE ExportState
  <2>1. SnapshotOK(State)
    BY DEF TypeOK, State, SnapshotOK
  <2>2. QED
    BY <1>4, <2>1 DEF ExportState, TypeOK, stateVars, workerVars, Executing
<1>5. CASE Resume
  <2>1. PICK s \in snapshot :
          /\ claimed' = Len(s.results) /\ attempts' = s.attempts
          /\ results' = s.results /\ worst' = s.worst
          /\ earlyExited' = s.earlyExited /\ seen' = s.seen
    BY <1>5 DEF Resume
  <2>2. SnapshotOK(s)
    BY DEF TypeOK
  <2>3. /\ claimed' \in Nat /\ attempts' \in Nat
        /\ results' \in Seq(Records) /\ worst' \in 0..Len(results')
        /\ earlyExited' \in BOOLEAN /\ seen' \in [Fingerprints -> 0..Len(results')]
    BY <2>1, <2>2 DEF SnapshotOK
  <2>4. job' \in [Workers -> Jobs]
    BY <1>5, SearchConstants DEF Resume, NoJob, Jobs
  <2>5. Executing' = {}
    BY <1>5 DEF Resume, Starting, Executing
  <2>6. /\ iterations' \in Budgets /\ earlyExit' \in EarlyExits
        /\ flakeRetries' \in 0..FlakeRetries /\ resumes' \in 0..MaxResumes
        /\ pc' \in [Workers -> {"start", "loop", "exec", "retry", "done", "threw"}]
        /\ dups' \in [Workers -> 0..MaxDuplicates]
        /\ phase' = "running"
        /\ UNCHANGED snapshot
    BY <1>5, SearchConstants DEF Resume, Starting, TypeOK, SearchConstants
  <2>7. QED
    BY <2>3, <2>4, <2>5, <2>6 DEF TypeOK
<1>6. CASE UNCHANGED vars
  BY <1>6 DEF TypeOK, vars, stateVars, workerVars, Executing
<1>7. QED
  BY <1>1, <1>2, <1>3, <1>4, <1>5, <1>6 DEF Next

LEMMA InitType ==
  ASSUME SearchConstants
  PROVE  Init => TypeOK
<1> SUFFICES ASSUME Init
             PROVE  TypeOK
  OBVIOUS
<1>1. results \in Seq(Records) /\ Len(results) = 0
  BY DEF Init
<1>2. worst \in 0..Len(results) /\ seen \in [Fingerprints -> 0..Len(results)]
  BY <1>1 DEF Init
<1>3. job \in [Workers -> Jobs] /\ Executing = {}
  BY DEF Init, NoJob, Jobs, Starting, Executing
<1>4. dups \in [Workers -> 0..MaxDuplicates] /\ resumes \in 0..MaxResumes
  BY DEF Init, SearchConstants
<1>5. pc \in [Workers -> {"start", "loop", "exec", "retry", "done", "threw"}]
  BY DEF Init, Starting
<1>6. /\ iterations \in Budgets /\ earlyExit \in EarlyExits /\ flakeRetries \in 0..FlakeRetries
      /\ claimed \in Nat /\ attempts \in Nat /\ earlyExited \in BOOLEAN
      /\ phase \in {"running", "returned", "rejected"}
      /\ \A s \in snapshot : SnapshotOK(s)
  BY DEF Init
<1>7. QED
  BY <1>1, <1>2, <1>3, <1>4, <1>5, <1>6 DEF TypeOK

(* The state of SearchOrchestrator stays well typed: the index of worstRun *)
(* and every cached fingerprint point at a counted run.                    *)
THEOREM TypeCorrect == Spec => []TypeOK
BY InitType, NextType, ConstantsAssumption, PTL DEF Spec

-----------------------------------------------------------------------------
(* What a state that can be exported satisfies, and so a resumed one.      *)
StateInv(rs, n, k, cache) ==
  /\ \A i \in DOMAIN rs : rs[i].attempt < n
  /\ DistinctIn(rs)
  /\ IsWorst(rs, k)
  /\ LatestIn(rs, cache)

(* The attempt of a run under way is taken and nobody else's.              *)
JobsInv ==
  \A w \in Executing :
    /\ job[w].attempt < attempts
    /\ \A i \in DOMAIN results : results[i].attempt # job[w].attempt
    /\ \A v \in Executing \ {w} : job[v].attempt # job[w].attempt

(* The inductive invariant behind the theorems below.                      *)
IInv ==
  /\ TypeOK
  /\ StateInv(results, attempts, worst, seen)
  /\ JobsInv
  /\ \A s \in snapshot : StateInv(s.results, s.attempts, s.worst, s.seen)

LEMMA RecordFields ==
  ASSUME NEW rs \in Seq(Records)
  PROVE  \A i \in DOMAIN rs : /\ rs[i] \in Records
                              /\ rs[i].failed \in Nat /\ rs[i].attempt \in Nat
<1>1. \A i \in DOMAIN rs : rs[i] \in Records
  OBVIOUS
<1>2. QED
  BY <1>1 DEF Records

(* Taking further attempts does not disturb what is recorded.              *)
LEMMA StateInvMore ==
  ASSUME NEW rs \in Seq(Records), NEW n \in Nat, NEW k, NEW cache,
         StateInv(rs, n, k, cache)
  PROVE  StateInv(rs, n + 1, k, cache)
<1>1. \A i \in DOMAIN rs : rs[i].attempt \in Nat
  BY RecordFields
<1>2. \A i \in DOMAIN rs : rs[i].attempt < n + 1
  BY <1>1 DEF StateInv
<1>3. QED
  BY <1>2 DEF StateInv

(* worstRun stays the worst run when a run is appended as recordRun does.  *)
LEMMA WorstAppend ==
  ASSUME NEW rs \in Seq(Records), NEW r \in Records, NEW k \in 0..Len(rs),
         IsWorst(rs, k)
  PROVE  IsWorst(Append(rs, r),
                 IF ~Passed(r) /\ (k = 0 \/ r.failed > rs[k].failed)
                   THEN Len(rs) + 1 ELSE k)
<1> DEFINE qs == Append(rs, r)
           U(x) == {i \in DOMAIN x : ~Passed(x[i])}
           top == Len(rs) + 1
<1>1. /\ qs \in Seq(Records) /\ Len(qs) = top /\ qs[top] = r
      /\ DOMAIN qs = 1..top /\ DOMAIN rs = 1..Len(rs)
      /\ \A i \in 1..Len(rs) : qs[i] = rs[i]
  OBVIOUS
<1>2. U(qs) = IF Passed(r) THEN U(rs) ELSE U(rs) \cup {top}
  BY <1>1
<1>3. /\ \A i \in DOMAIN qs : qs[i].failed \in Nat
      /\ \A i \in DOMAIN rs : rs[i].failed \in Nat
      /\ r.failed \in Nat
  BY <1>1, RecordFields DEF Records
<1>4. /\ k = 0 <=> U(rs) = {}
      /\ k # 0 => /\ k \in U(rs)
                  /\ \A i \in U(rs) : rs[i].failed <= rs[k].failed
                  /\ \A i \in U(rs) : i < k => rs[i].failed < rs[k].failed
  BY DEF IsWorst
<1> HIDE DEF qs
<1>5. CASE ~Passed(r) /\ (k = 0 \/ r.failed > rs[k].failed)
  <2>1. /\ top \in U(qs)
        /\ \A i \in U(qs) : i # top => i \in U(rs)
    BY <1>1, <1>2, <1>5
  <2>2. \A i \in U(qs) : i # top => qs[i].failed < qs[top].failed
    BY <1>1, <1>3, <1>4, <1>5, <2>1
  <2>3. \A i \in U(qs) : qs[i].failed <= qs[top].failed
    BY <2>2, <1>1, <1>3
  <2>4. IsWorst(qs, top)
    BY <2>1, <2>2, <2>3, <1>1 DEF IsWorst
  <2>5. QED
    BY <2>4, <1>5 DEF qs
<1>6. CASE ~(~Passed(r) /\ (k = 0 \/ r.failed > rs[k].failed))
  <2>1. k = 0 => U(qs) = {}
    BY <1>2, <1>4, <1>6
  <2>2. k # 0 => /\ k \in U(qs)
                 /\ \A i \in U(qs) : qs[i].failed <= qs[k].failed
                 /\ \A i \in U(qs) : i < k => qs[i].failed < qs[k].failed
    <3>1. SUFFICES ASSUME k # 0
                   PROVE  /\ k \in U(qs)
                          /\ \A i \in U(qs) : qs[i].failed <= qs[k].failed
                          /\ \A i \in U(qs) : i < k => qs[i].failed < qs[k].failed
      OBVIOUS
    <3>2. k \in U(rs) /\ k \in 1..Len(rs) /\ k \in U(qs) /\ qs[k] = rs[k]
      BY <1>1, <1>2, <1>4, <3>1
    <3>3. \A i \in U(rs) : i \in 1..Len(rs) /\ qs[i] = rs[i]
      BY <1>1
    <3>4. \A i \in U(qs) : i \in U(rs) \/ (i = top /\ ~Passed(r))
      BY <1>2
    <3>5. ~Passed(r) => r.failed <= rs[k].failed
      BY <1>3, <1>6, <3>1, <3>2, <1>1
    <3>6. QED
      BY <1>1, <1>3, <1>4, <3>1, <3>2, <3>3, <3>4, <3>5
  <2>3. IsWorst(qs, k)
    BY <2>1, <2>2 DEF IsWorst
  <2>4. QED
    BY <2>3, <1>6 DEF qs
<1>7. QED
  BY <1>5, <1>6

(* The cache still holds the latest index after an executed run is counted *)
(* and cached, and after a malformed one, which has no fingerprint.        *)
LEMMA LatestAppend ==
  ASSUME NEW rs \in Seq(Records), NEW r \in Records,
         NEW cache \in [Fingerprints -> 0..Len(rs)], LatestIn(rs, cache)
  PROVE  /\ r.fp \in Fingerprints =>
              LatestIn(Append(rs, r), [cache EXCEPT ![r.fp] = Len(rs) + 1])
         /\ r.fp \notin Fingerprints => LatestIn(Append(rs, r), cache)
<1> DEFINE qs == Append(rs, r)
           C(x, f) == {i \in DOMAIN x : x[i].fp = f}
           top == Len(rs) + 1
<1>1. /\ qs \in Seq(Records) /\ Len(qs) = top /\ qs[top] = r
      /\ DOMAIN qs = 1..top /\ DOMAIN rs = 1..Len(rs)
      /\ \A i \in 1..Len(rs) : qs[i] = rs[i]
  OBVIOUS
<1>2. \A f \in Fingerprints :
        C(qs, f) = IF r.fp = f THEN C(rs, f) \cup {top} ELSE C(rs, f)
  BY <1>1
<1>3. \A f \in Fingerprints :
        /\ cache[f] = 0 <=> C(rs, f) = {}
        /\ cache[f] # 0 => cache[f] \in C(rs, f) /\ \A i \in C(rs, f) : i <= cache[f]
  BY DEF LatestIn
<1>4. ASSUME r.fp \in Fingerprints
      PROVE  LatestIn(qs, [cache EXCEPT ![r.fp] = top])
  <2> DEFINE new == [cache EXCEPT ![r.fp] = top]
  <2>1. SUFFICES ASSUME NEW f \in Fingerprints
                 PROVE  /\ new[f] = 0 <=> C(qs, f) = {}
                        /\ new[f] # 0 => /\ new[f] \in C(qs, f)
                                         /\ \A i \in C(qs, f) : i <= new[f]
    BY DEF LatestIn
  <2>2. CASE f = r.fp
    <3>1. new[f] = top /\ top \in C(qs, f) /\ top \in Nat \ {0}
      BY <1>1, <1>4, <2>2
    <3>2. \A i \in C(qs, f) : i <= top
      BY <1>1
    <3>3. QED
      BY <3>1, <3>2
  <2>3. CASE f # r.fp
    <3>1. new[f] = cache[f] /\ C(qs, f) = C(rs, f)
      BY <1>2, <2>3
    <3>2. QED
      BY <3>1, <1>3
  <2>4. QED
    BY <2>2, <2>3
<1>5. ASSUME r.fp \notin Fingerprints
      PROVE  LatestIn(qs, cache)
  <2>1. \A f \in Fingerprints : C(qs, f) = C(rs, f)
    BY <1>2, <1>5
  <2>2. QED
    BY <2>1, <1>3 DEF LatestIn
<1>6. QED
  BY <1>4, <1>5

(* Appending a run with an attempt of its own keeps attempts distinct.     *)
LEMMA AttemptsAppend ==
  ASSUME NEW rs \in Seq(Records), NEW r \in Records, NEW n \in Nat, NEW m \in Nat,
         \A i \in DOMAIN rs : rs[i].attempt < n, DistinctIn(rs),
         n <= m, r.attempt < m, \A i \in DOMAIN rs : rs[i].attempt # r.attempt
  PROVE  /\ \A i \in DOMAIN Append(rs, r) : Append(rs, r)[i].attempt < m
         /\ DistinctIn(Append(rs, r))
<1> DEFINE qs == Append(rs, r)
           top == Len(rs) + 1
<1>1. /\ DOMAIN qs = 1..top /\ DOMAIN rs = 1..Len(rs) /\ qs[top] = r
      /\ \A i \in 1..Len(rs) : qs[i] = rs[i]
      /\ \A i \in 1..top : i = top \/ i \in 1..Len(rs)
  OBVIOUS
<1>2. \A i \in DOMAIN rs : rs[i].attempt \in Nat
  BY RecordFields
<1> HIDE DEF qs, top
<1>3. \A i \in DOMAIN qs : qs[i].attempt < m
  BY <1>1, <1>2
<1>4. DistinctIn(qs)
  BY <1>1 DEF DistinctIn
<1>5. QED
  BY <1>3, <1>4 DEF qs

(* A worker that records an executed run keeps the invariant.              *)
LEMMA RecordInv ==
  ASSUME IInv, NEW w \in Executing, NEW st \in Statuses, NEW n \in Nat,
         Record(w, st, n), TypeOK'
  PROVE  IInv'
<1> DEFINE r == [attempt |-> job[w].attempt, fp |-> job[w].fp,
                 status |-> st, failed |-> n]
<1>1. r \in Records /\ r.fp \in Fingerprints /\ w \in Workers
  BY RecordType DEF IInv, TypeOK, Executing
<1>2. RecordRun(w, r)
  BY DEF Record
<1>3. r.attempt = job[w].attempt /\ r.fp = job[w].fp
  OBVIOUS
<1> HIDE DEF r
<1>4. /\ results' = Append(results, r)
      /\ worst' = IF ~Passed(r) /\ (worst = 0 \/ r.failed > results[worst].failed)
                    THEN Len(results) + 1 ELSE worst
      /\ seen' = [seen EXCEPT ![r.fp] = Len(results) + 1]
      /\ attempts' = attempts /\ snapshot' = snapshot
  BY <1>2, <1>3 DEF RecordRun, Record, WorseThan
<1>5. TypeOK /\ results \in Seq(Records) /\ worst \in 0..Len(results)
      /\ seen \in [Fingerprints -> 0..Len(results)] /\ attempts \in Nat
  BY DEF IInv, TypeOK
<1>6. StateInv(results, attempts, worst, seen)
  BY DEF IInv
<1>7. r.attempt < attempts /\ \A i \in DOMAIN results : results[i].attempt # r.attempt
  BY <1>3 DEF IInv, JobsInv
<1>8. /\ \A i \in DOMAIN results' : results'[i].attempt < attempts'
      /\ DistinctIn(results')
  <2>1. attempts <= attempts
    BY <1>5
  <2>2. (\A i \in DOMAIN results : results[i].attempt < attempts) /\ DistinctIn(results)
    BY <1>6 DEF StateInv
  <2>3. /\ \A i \in DOMAIN Append(results, r) : Append(results, r)[i].attempt < attempts
        /\ DistinctIn(Append(results, r))
    BY <1>1, <1>5, <1>7, <2>1, <2>2, AttemptsAppend
  <2>4. QED
    BY <1>4, <2>3
<1>9. IsWorst(results', worst')
  BY <1>1, <1>4, <1>5, <1>6, WorstAppend DEF StateInv
<1>10. LatestIn(results', seen')
  BY <1>1, <1>4, <1>5, <1>6, LatestAppend DEF StateInv
<1>11. \A v \in Executing' : v \in Executing \ {w} /\ job'[v] = job[v]
  BY <1>1, <1>2, <1>5, RecordRunType DEF Executing
<1>12. JobsInv'
  <2>1. SUFFICES ASSUME NEW v \in Executing'
                 PROVE  /\ job'[v].attempt < attempts'
                        /\ \A i \in DOMAIN results' : results'[i].attempt # job'[v].attempt
                        /\ \A u \in Executing' \ {v} : job'[u].attempt # job'[v].attempt
    BY DEF JobsInv
  <2>2. v \in Executing /\ v # w /\ job'[v] = job[v]
    BY <1>11
  <2>3. /\ job[v].attempt < attempts
        /\ \A i \in DOMAIN results : results[i].attempt # job[v].attempt
        /\ \A u \in Executing \ {v} : job[u].attempt # job[v].attempt
    BY <2>2 DEF IInv, JobsInv
  <2>4. \A i \in DOMAIN results' :
          (i \in DOMAIN results /\ results'[i] = results[i]) \/ results'[i] = r
    BY <1>4, <1>5, <1>1
  <2>5. r.attempt # job[v].attempt
    BY <1>3, <2>2, <2>3
  <2>6. \A i \in DOMAIN results' : results'[i].attempt # job'[v].attempt
    BY <2>2, <2>3, <2>4, <2>5
  <2>7. QED
    BY <1>4, <1>11, <2>2, <2>3, <2>6
<1>13. QED
  BY <1>4, <1>8, <1>9, <1>10, <1>12, IInv DEF IInv, StateInv

LEMMA WorkerStepInv ==
  ASSUME SearchConstants, IInv, NEW w \in Workers, WorkerStep(w)
  PROVE  IInv'
<1> TypeOK /\ attempts \in Nat /\ results \in Seq(Records)
  BY DEF IInv, TypeOK
<1>0. TypeOK'
  BY WorkerStepType
<1>1. CASE Begin(w)
  <2>1. Executing' = Executing
    BY <1>1 DEF Begin, Executing, TypeOK
  <2>2. QED
    BY <1>0, <1>1, <2>1 DEF Begin, IInv, StateInv, JobsInv, stateVars
<1>2. CASE Leave(w)
  <2>1. Executing' = Executing
    BY <1>2 DEF Leave, Executing, TypeOK
  <2>2. QED
    BY <1>0, <1>2, <2>1 DEF Leave, IInv, StateInv, JobsInv, stateVars
<1>3. CASE Malformed(w)
  <2> DEFINE r == [attempt |-> attempts, fp |-> NoFingerprint,
                   status |-> "ERRORED", failed |-> 0]
  <2>1. r \in Records /\ r.fp \notin Fingerprints /\ r.attempt = attempts
    BY DEF Records, TypeOK, Statuses, SearchConstants
  <2>2. RecordRun(w, r) /\ attempts' = attempts + 1 /\ seen' = seen /\ snapshot' = snapshot
        /\ pc[w] = "loop"
    BY <1>3 DEF Malformed, Asking
  <2> HIDE DEF r
  <2>3. /\ results' = Append(results, r)
        /\ worst' = IF ~Passed(r) /\ (worst = 0 \/ r.failed > results[worst].failed)
                      THEN Len(results) + 1 ELSE worst
    BY <2>2 DEF RecordRun, WorseThan
  <2>4. StateInv(results, attempts, worst, seen) /\ worst \in 0..Len(results)
        /\ seen \in [Fingerprints -> 0..Len(results)]
    BY DEF IInv, TypeOK
  <2>5. /\ attempts <= attempts' /\ r.attempt < attempts' /\ attempts' \in Nat
        /\ \A i \in DOMAIN results : results[i].attempt # r.attempt
    BY <2>1, <2>2, <2>4, RecordFields DEF StateInv
  <2>6. /\ \A i \in DOMAIN results' : results'[i].attempt < attempts'
        /\ DistinctIn(results')
    BY <2>1, <2>3, <2>4, <2>5, AttemptsAppend DEF StateInv
  <2>7. IsWorst(results', worst')
    BY <2>1, <2>3, <2>4, WorstAppend DEF StateInv
  <2>8. LatestIn(results', seen')
    BY <2>1, <2>2, <2>3, <2>4, LatestAppend DEF StateInv
  <2>9. \A v \in Executing' : v \in Executing /\ job'[v] = job[v]
    BY <2>1, <2>2, RecordRunType DEF Executing
  <2>10. \A i \in DOMAIN results' :
           (i \in DOMAIN results /\ results'[i] = results[i]) \/ results'[i].attempt = attempts
    BY <2>1, <2>3
  <2>11. JobsInv'
    <3>1. SUFFICES ASSUME NEW v \in Executing'
                   PROVE  /\ job'[v].attempt < attempts'
                          /\ \A i \in DOMAIN results' : results'[i].attempt # job'[v].attempt
                          /\ \A u \in Executing' \ {v} : job'[u].attempt # job'[v].attempt
      BY DEF JobsInv
    <3>2. /\ v \in Executing /\ job'[v] = job[v] /\ job[v].attempt \in Nat
          /\ job[v].attempt < attempts
          /\ \A i \in DOMAIN results : results[i].attempt # job[v].attempt
          /\ \A u \in Executing \ {v} : job[u].attempt # job[v].attempt
      BY <2>9 DEF IInv, JobsInv, TypeOK, Jobs, Executing
    <3>3. job'[v].attempt < attempts'
      BY <2>2, <3>2
    <3>4. \A i \in DOMAIN results' : results'[i].attempt # job'[v].attempt
      BY <2>10, <3>2
    <3>5. QED
      BY <2>9, <3>2, <3>3, <3>4
  <2>12. QED
    BY <1>0, <2>2, <2>6, <2>7, <2>8, <2>11, IInv DEF IInv, StateInv
<1>4. ASSUME NEW f \in Fingerprints, Duplicate(w, f)
      PROVE  IInv'
  <2>1. attempts' = attempts + 1
        /\ UNCHANGED <<results, worst, seen, pc, job, snapshot>>
    BY <1>4 DEF Duplicate, Asking
  <2>2. StateInv(results, attempts + 1, worst, seen)
    BY StateInvMore DEF IInv
  <2>3. StateInv(results, attempts, worst, seen)'
    BY <2>1, <2>2 DEF StateInv
  <2>4. \A v \in Executing : job[v].attempt \in Nat
    BY DEF TypeOK, Jobs, Executing
  <2>5. JobsInv'
    BY <2>1, <2>4 DEF IInv, JobsInv, Executing
  <2>6. QED
    BY <1>0, <2>1, <2>3, <2>5 DEF IInv
<1>5. ASSUME NEW f \in Fingerprints, Execute(w, f)
      PROVE  IInv'
  <2>1. /\ attempts' = attempts + 1 /\ pc[w] = "loop"
        /\ UNCHANGED <<results, worst, seen, snapshot>>
        /\ pc' = [pc EXCEPT ![w] = "exec"]
        /\ job' = [job EXCEPT ![w] = [attempt |-> attempts, fp |-> f,
                                      failed |-> 0, left |-> flakeRetries]]
    BY <1>5 DEF Execute, Asking
  <2>2. StateInv(results, attempts + 1, worst, seen)
    BY StateInvMore DEF IInv
  <2>3. StateInv(results, attempts, worst, seen)'
    BY <2>1, <2>2 DEF StateInv
  <2>4. \A v \in Executing : job[v].attempt \in Nat /\ job[v].attempt < attempts
    BY DEF TypeOK, Jobs, Executing, IInv, JobsInv
  <2>5. \A i \in DOMAIN results : results[i].attempt \in Nat /\ results[i].attempt < attempts
    BY RecordFields DEF IInv, StateInv
  <2>6. /\ Executing' = Executing \cup {w} /\ w \notin Executing
        /\ job'[w].attempt = attempts
        /\ \A v \in Executing : job'[v] = job[v]
    BY <2>1 DEF Executing, TypeOK
  <2>7. JobsInv'
    <3>1. SUFFICES ASSUME NEW v \in Executing'
                   PROVE  /\ job'[v].attempt < attempts'
                          /\ \A i \in DOMAIN results' : results'[i].attempt # job'[v].attempt
                          /\ \A u \in Executing' \ {v} : job'[u].attempt # job'[v].attempt
      BY DEF JobsInv
    <3>2. CASE v = w
      BY <2>1, <2>4, <2>5, <2>6, <3>2
    <3>3. CASE v # w
      <4>1. v \in Executing /\ job'[v] = job[v]
        BY <2>6, <3>3
      <4>2. /\ \A i \in DOMAIN results : results[i].attempt # job[v].attempt
            /\ \A u \in Executing \ {v} : job[u].attempt # job[v].attempt
        BY <4>1 DEF IInv, JobsInv
      <4>3. QED
        BY <2>1, <2>4, <2>6, <4>1, <4>2
    <3>4. QED
      BY <3>2, <3>3
  <2>8. QED
    BY <1>0, <2>1, <2>3, <2>7 DEF IInv
<1>6. ASSUME NEW o \in Outcomes, Settle(w, o)
      PROVE  IInv'
  BY <1>0, <1>6, OutcomeType, RecordInv DEF Settle, Resumable, Executing
<1>7. ASSUME NEW o \in Outcomes, Suspect(w, o)
      PROVE  IInv'
  <2>1. Executing' = Executing
    BY <1>7 DEF Suspect, Resumable, Executing, TypeOK
  <2>2. \A v \in Workers : job'[v].attempt = job[v].attempt
    BY <1>7 DEF Suspect, TypeOK, Jobs
  <2>3. JobsInv'
    BY <1>7, <2>1, <2>2 DEF Suspect, IInv, JobsInv, stateVars, Executing
  <2>4. QED
    BY <1>0, <1>7, <2>3 DEF Suspect, IInv, StateInv, stateVars
<1>8. ASSUME NEW o \in Outcomes, RetryAgain(w, o)
      PROVE  IInv'
  <2>1. Executing' = Executing
    BY <1>8 DEF RetryAgain, Executing
  <2>2. \A v \in Workers : job'[v].attempt = job[v].attempt
    BY <1>8 DEF RetryAgain, TypeOK, Jobs
  <2>3. JobsInv'
    BY <1>8, <2>1, <2>2 DEF RetryAgain, IInv, JobsInv, stateVars, Executing
  <2>4. QED
    BY <1>0, <1>8, <2>3 DEF RetryAgain, IInv, StateInv, stateVars
<1>9. ASSUME NEW o \in Outcomes, SettleRetry(w, o)
      PROVE  IInv'
  <2>1. job[w].failed \in Nat
    BY DEF TypeOK, Jobs
  <2>2. w \in Executing
    BY <1>9 DEF SettleRetry, Resumable, Executing
  <2>3. \E st \in Statuses, n \in Nat : Record(w, st, n)
    BY <1>9, <2>1, OutcomeType DEF SettleRetry, Statuses
  <2>4. QED
    BY <1>0, <2>2, <2>3, RecordInv
<1>10. QED
  BY <1>1, <1>2, <1>3, <1>4, <1>5, <1>6, <1>7, <1>8, <1>9 DEF WorkerStep

LEMMA NextInv ==
  ASSUME SearchConstants
  PROVE  IInv /\ [Next]_vars => IInv'
<1> SUFFICES ASSUME IInv, [Next]_vars
             PROVE  IInv'
  OBVIOUS
<1>0. TypeOK /\ TypeOK'
  BY NextType DEF IInv
<1>1. ASSUME NEW w \in Workers, WorkerStep(w)
      PROVE  IInv'
  BY <1>1, WorkerStepInv
<1>2. CASE Return \/ Reject \/ UNCHANGED vars
  <2>1. UNCHANGED <<stateVars, workerVars, snapshot>>
    BY <1>2 DEF Return, Reject, vars
  <2>2. QED
    BY <1>0, <2>1 DEF IInv, StateInv, JobsInv, Executing, stateVars, workerVars
<1>3. CASE ExportState
  <2>1. UNCHANGED <<stateVars, workerVars>> /\ snapshot' = {State}
    BY <1>3 DEF ExportState
  <2>2. StateInv(State.results, State.attempts, State.worst, State.seen)
    BY DEF IInv, State
  <2>3. \A s \in snapshot' : StateInv(s.results, s.attempts, s.worst, s.seen)
    BY <2>1, <2>2
  <2>4. QED
    BY <1>0, <2>1, <2>3 DEF IInv, StateInv, JobsInv, Executing, stateVars, workerVars
<1>4. CASE Resume
  <2>1. PICK s \in snapshot :
          results' = s.results /\ attempts' = s.attempts /\ worst' = s.worst /\ seen' = s.seen
    BY <1>4 DEF Resume
  <2>2. StateInv(results', attempts', worst', seen')
    BY <2>1 DEF IInv
  <2>3. Executing' = {} /\ snapshot' = snapshot
    BY <1>4 DEF Resume, Starting, Executing
  <2>4. QED
    BY <1>0, <2>2, <2>3 DEF IInv, StateInv, JobsInv
<1>5. QED
  BY <1>1, <1>2, <1>3, <1>4 DEF Next

LEMMA InitInv ==
  ASSUME SearchConstants
  PROVE  Init => IInv
<1> SUFFICES ASSUME Init
             PROVE  IInv
  OBVIOUS
<1>1. TypeOK
  BY InitType
<1>2. StateInv(results, attempts, worst, seen)
  BY DEF Init, StateInv, DistinctIn, IsWorst, LatestIn
<1>3. JobsInv /\ snapshot = {}
  BY DEF Init, JobsInv, Starting, Executing
<1>4. QED
  BY <1>1, <1>2, <1>3 DEF IInv

THEOREM Invariance == Spec => []IInv
BY InitInv, NextInv, ConstantsAssumption, PTL DEF Spec

(* Run ids come from attempt numbers: none is ever given to two runs.      *)
THEOREM AttemptsAreDistinct == Spec => []AttemptsDistinct
<1>1. IInv => AttemptsDistinct
  BY DEF IInv, StateInv, JobsInv, AttemptsDistinct
<1>2. QED
  BY <1>1, Invariance, PTL

(* The worst run shown to the user is the first of the worst ones.         *)
THEOREM WorstRunCorrect == Spec => []WorstRunIsWorst
<1>1. IInv => WorstRunIsWorst
  BY DEF IInv, StateInv, WorstRunIsWorst
<1>2. QED
  BY <1>1, Invariance, PTL

(* Deduplication never forgets a counted schedule and repeats its latest   *)
(* outcome.                                                                *)
THEOREM SeenCorrect == Spec => []SeenIsLatest
<1>1. IInv => SeenIsLatest
  BY DEF IInv, StateInv, SeenIsLatest
<1>2. QED
  BY <1>1, Invariance, PTL

-----------------------------------------------------------------------------
(* What a worker's step does to the runs under way and the counted ones.   *)
Silent ==
  /\ Executing' = Executing
  /\ UNCHANGED <<results, claimed>>
  /\ \A v \in Executing : job'[v].fp = job[v].fp

Rejected ==
  /\ Executing' = Executing
  /\ \E r \in Records : r.fp = NoFingerprint /\ results' = Append(results, r)
  /\ claimed < iterations /\ claimed' = claimed + 1
  /\ \A v \in Executing : job'[v].fp = job[v].fp

Started(w) ==
  /\ w \notin Executing /\ Executing' = Executing \cup {w}
  /\ UNCHANGED results
  /\ claimed < iterations /\ claimed' = claimed + 1
  /\ \A v \in Executing : job'[v].fp = job[v].fp
  /\ job'[w].fp \in Fingerprints /\ seen[job'[w].fp] = 0

Finished(w) ==
  /\ w \in Executing /\ Executing' = Executing \ {w}
  /\ \E r \in Records : r.fp = job[w].fp /\ results' = Append(results, r)
  /\ UNCHANGED claimed
  /\ \A v \in Executing \ {w} : job'[v].fp = job[v].fp

LEMMA WorkerEffect ==
  ASSUME SearchConstants, TypeOK, NEW w \in Workers, WorkerStep(w)
  PROVE  /\ Silent \/ Rejected \/ Started(w) \/ Finished(w)
         /\ UNCHANGED <<iterations, snapshot>>
<1>1. CASE Begin(w) \/ Leave(w)
  BY <1>1 DEF Begin, Leave, Silent, Executing, TypeOK, stateVars
<1>2. CASE Malformed(w)
  <2>1. PICK r \in Records : r.fp = NoFingerprint /\ RecordRun(w, r)
    BY <1>2 DEF Malformed, Records, TypeOK, Statuses
  <2>2. pc[w] = "loop" /\ claimed < iterations /\ claimed' = claimed + 1
        /\ UNCHANGED <<iterations, snapshot>>
    BY <1>2 DEF Malformed, Asking, LoopOpen
  <2>3. PICK next \in {"loop", "threw"} : pc' = [pc EXCEPT ![w] = next]
    BY <2>1 DEF RecordRun
  <2>4. Executing' = Executing
    BY <2>2, <2>3 DEF Executing, TypeOK
  <2>5. \A v \in Executing : job'[v].fp = job[v].fp
    BY <2>1, <2>2 DEF RecordRun, Executing, TypeOK
  <2>6. results' = Append(results, r)
    BY <2>1 DEF RecordRun
  <2>7. QED
    BY <2>1, <2>2, <2>4, <2>5, <2>6 DEF Rejected
<1>3. ASSUME NEW f \in Fingerprints, Duplicate(w, f)
      PROVE  Silent /\ UNCHANGED <<iterations, snapshot>>
  BY <1>3 DEF Duplicate, Silent, Executing
<1>4. ASSUME NEW f \in Fingerprints, Execute(w, f)
      PROVE  Started(w) /\ UNCHANGED <<iterations, snapshot>>
  <2>1. /\ pc[w] = "loop" /\ pc' = [pc EXCEPT ![w] = "exec"]
        /\ job' = [job EXCEPT ![w] = [attempt |-> attempts, fp |-> f,
                                      failed |-> 0, left |-> flakeRetries]]
        /\ seen[f] = 0 /\ claimed < iterations /\ claimed' = claimed + 1
        /\ UNCHANGED <<results, iterations, snapshot>>
    BY <1>4 DEF Execute, Asking, LoopOpen, Known
  <2>2. w \notin Executing /\ Executing' = Executing \cup {w}
    BY <2>1 DEF Executing, TypeOK
  <2>3. job'[w].fp = f /\ \A v \in Executing : job'[v] = job[v]
    BY <2>1, <2>2 DEF TypeOK, Executing
  <2>4. QED
    BY <2>1, <2>2, <2>3 DEF Started
<1>5. ASSUME NEW o \in Outcomes, Suspect(w, o) \/ RetryAgain(w, o)
      PROVE  Silent /\ UNCHANGED <<iterations, snapshot>>
  <2>1. Executing' = Executing
    BY <1>5 DEF Suspect, RetryAgain, Resumable, Executing, TypeOK
  <2>2. job \in [Workers -> Jobs] /\ job[w] \in Jobs /\ Executing \subseteq Workers
    BY DEF TypeOK, Executing
  <2>3. PICK j \in Jobs : j.fp = job[w].fp /\ job' = [job EXCEPT ![w] = j]
    <3>1. CASE Suspect(w, o)
      <4>1. [job[w] EXCEPT !.failed = o.failed].fp = job[w].fp
        BY <2>2 DEF Jobs
      <4>2. [job[w] EXCEPT !.failed = o.failed] \in Jobs
        BY <2>2, OutcomeType DEF Jobs
      <4>3. QED
        BY <3>1, <4>1, <4>2 DEF Suspect
    <3>2. CASE RetryAgain(w, o)
      <4>1. [job[w] EXCEPT !.left = @ - 1].fp = job[w].fp
        BY <2>2 DEF Jobs
      <4>2. [job[w] EXCEPT !.left = @ - 1] \in Jobs
        BY <2>2, <3>2 DEF Jobs, RetryAgain
      <4>3. QED
        BY <3>2, <4>1, <4>2 DEF RetryAgain
    <3>3. QED
      BY <1>5, <3>1, <3>2
  <2>4. \A v \in Executing : job'[v].fp = job[v].fp
    BY <2>2, <2>3
  <2>5. QED
    BY <1>5, <2>1, <2>4 DEF Suspect, RetryAgain, Silent, stateVars
<1>6. ASSUME NEW o \in Outcomes, Settle(w, o) \/ SettleRetry(w, o)
      PROVE  Finished(w) /\ UNCHANGED <<iterations, snapshot>>
  <2>1. w \in Executing /\ job[w].failed \in Nat
    BY <1>6 DEF Settle, SettleRetry, Resumable, Executing, TypeOK, Jobs
  <2>2. PICK st \in Statuses, n \in Nat : Record(w, st, n)
    BY <1>6, <2>1, OutcomeType DEF Settle, SettleRetry, Statuses
  <2>3. PICK r \in Records : r.fp = job[w].fp /\ RecordRun(w, r)
    BY <2>1, <2>2, RecordType DEF Record
  <2>4. PICK next \in {"loop", "threw"} : pc' = [pc EXCEPT ![w] = next]
    BY <2>3 DEF RecordRun
  <2>5. Executing' = Executing \ {w}
    BY <2>4 DEF Executing, TypeOK
  <2>6. results' = Append(results, r) /\ \A v \in Executing \ {w} : job'[v].fp = job[v].fp
    BY <2>3 DEF RecordRun, Executing, TypeOK
  <2>7. UNCHANGED <<claimed, iterations, snapshot>>
    BY <2>2 DEF Record
  <2>8. QED
    BY <2>1, <2>3, <2>5, <2>6, <2>7 DEF Finished
<1>7. QED
  BY <1>1, <1>2, <1>3, <1>4, <1>5, <1>6 DEF WorkerStep

LEMMA ExecutingFinite ==
  ASSUME SearchConstants
  PROVE  IsFiniteSet(Executing) /\ Cardinality(Executing) \in Nat
         /\ Executing \subseteq Workers
<1>1. Executing \subseteq Workers /\ IsFiniteSet(Workers)
  BY SearchConstants DEF Executing, SearchConstants
<1>2. QED
  BY <1>1, FS_Subset, FS_CardinalityType

LEMMA NextBudget ==
  ASSUME SearchConstants
  PROVE  TypeOK /\ BudgetAccounting /\ [Next]_vars => BudgetAccounting'
<1> SUFFICES ASSUME TypeOK, BudgetAccounting, [Next]_vars
             PROVE  BudgetAccounting'
  OBVIOUS
<1>0. /\ IsFiniteSet(Executing) /\ Cardinality(Executing) \in Nat
      /\ results \in Seq(Records) /\ claimed \in Nat
      /\ claimed = Len(results) + Cardinality(Executing)
      /\ Executing # {} => claimed <= iterations
      /\ iterations \in Nat
  BY ExecutingFinite, SearchConstants
     DEF TypeOK, BudgetAccounting, iterationsDone, SearchConstants
<1>1. ASSUME NEW w \in Workers, WorkerStep(w)
      PROVE  BudgetAccounting'
  <2>1. /\ Silent \/ Rejected \/ Started(w) \/ Finished(w)
        /\ iterations' = iterations
    BY <1>1, WorkerEffect
  <2>2. CASE Silent
    BY <1>0, <2>1, <2>2 DEF Silent, BudgetAccounting, iterationsDone
  <2>3. CASE Rejected
    <3>1. Len(results') = Len(results) + 1
      BY <1>0, <2>3 DEF Rejected
    <3>2. QED
      BY <1>0, <2>1, <2>3, <3>1 DEF Rejected, BudgetAccounting, iterationsDone
  <2>4. CASE Started(w)
    <3>1. Cardinality(Executing') = Cardinality(Executing) + 1
      BY <1>0, <2>4, FS_AddElement DEF Started
    <3>2. QED
      BY <1>0, <2>1, <2>4, <3>1 DEF Started, BudgetAccounting, iterationsDone
  <2>5. CASE Finished(w)
    <3>1. Cardinality(Executing') = Cardinality(Executing) - 1
      BY <1>0, <2>5, FS_RemoveElement DEF Finished
    <3>2. Len(results') = Len(results) + 1
      BY <1>0, <2>5 DEF Finished
    <3>3. QED
      BY <1>0, <2>1, <2>5, <3>1, <3>2 DEF Finished, BudgetAccounting, iterationsDone
  <2>6. QED
    BY <2>1, <2>2, <2>3, <2>4, <2>5
<1>2. CASE Return \/ Reject \/ ExportState \/ UNCHANGED vars
  BY <1>0, <1>2
     DEF Return, Reject, ExportState, vars, stateVars, workerVars, BudgetAccounting,
         Executing, iterationsDone
<1>3. CASE Resume
  <2>1. Executing' = {} /\ claimed' = Len(results')
    BY <1>3 DEF Resume, Starting, Executing
  <2>2. Len(results') \in Nat
    <3>1. results' \in Seq(Records)
      BY <1>3 DEF Resume, TypeOK, SnapshotOK
    <3>2. QED
      BY <3>1
  <2>3. QED
    BY <2>1, <2>2, FS_EmptySet DEF BudgetAccounting, iterationsDone
<1>4. QED
  BY <1>1, <1>2, <1>3 DEF Next

(* The budget is never overshot, whatever the number of workers: slots are *)
(* claimed before a run starts and none is lost or counted twice.          *)
THEOREM BudgetRespected == Spec => []BudgetAccounting
<1>1. Init => BudgetAccounting
  <2> SUFFICES ASSUME Init PROVE BudgetAccounting
    OBVIOUS
  <2>1. Executing = {} /\ claimed = 0 /\ Len(results) = 0
    BY DEF Init, Starting, Executing
  <2>2. QED
    BY <2>1, FS_EmptySet DEF BudgetAccounting, iterationsDone
<1>2. QED
  BY <1>1, TypeCorrect, NextBudget, ConstantsAssumption, PTL DEF Spec

-----------------------------------------------------------------------------
(* The session its caller sees.                                            *)

Of(rs, st) == {i \in DOMAIN rs : rs[i].status = st}

LEMMA IndicesFinite ==
  ASSUME NEW rs \in Seq(Records), NEW part \in SUBSET DOMAIN rs
  PROVE  IsFiniteSet(part) /\ Cardinality(part) \in Nat
<1>1. Len(rs) \in Nat /\ DOMAIN rs = 1..Len(rs)
  OBVIOUS
<1>2. IsFiniteSet(1..Len(rs))
  BY <1>1, FS_Interval
<1>3. IsFiniteSet(part)
  BY <1>1, <1>2, FS_Subset
<1>4. QED
  BY <1>3, FS_CardinalityType

(* A counted run adds one to the tally of its status.                      *)
LEMMA TallyAppend ==
  ASSUME NEW rs \in Seq(Records), NEW r \in Records
  PROVE  /\ TallyOf(rs) \in [Statuses -> Nat]
         /\ r.status \in Statuses
         /\ TallyOf(Append(rs, r)) = [TallyOf(rs) EXCEPT ![r.status] = @ + 1]
<1> DEFINE qs == Append(rs, r)
           top == Len(rs) + 1
<1>1. /\ qs \in Seq(Records) /\ DOMAIN qs = 1..top /\ qs[top] = r
      /\ DOMAIN rs = 1..Len(rs) /\ Len(rs) \in Nat
      /\ \A i \in DOMAIN rs : qs[i] = rs[i]
  OBVIOUS
<1>2. r.status \in Statuses
  BY DEF Records
<1>3. \A st \in Statuses : TallyOf(rs)[st] = Cardinality(Of(rs, st)) /\ TallyOf(qs)[st] = Cardinality(Of(qs, st))
  BY DEF TallyOf, Of
<1>4. \A st \in Statuses : IsFiniteSet(Of(rs, st)) /\ Cardinality(Of(rs, st)) \in Nat
  <2>1. \A st \in Statuses : Of(rs, st) \in SUBSET DOMAIN rs
    BY DEF Of
  <2>2. QED
    BY <2>1, IndicesFinite
<1> HIDE DEF qs
<1>5. Of(qs, r.status) = Of(rs, r.status) \cup {top} /\ top \notin Of(rs, r.status)
  BY <1>1 DEF Of
<1>6. \A st \in Statuses : st # r.status => Of(qs, st) = Of(rs, st)
  BY <1>1 DEF Of
<1>7. Cardinality(Of(qs, r.status)) = Cardinality(Of(rs, r.status)) + 1
  BY <1>2, <1>4, <1>5, FS_AddElement
<1>8. TallyOf(rs) \in [Statuses -> Nat]
  BY <1>3, <1>4 DEF TallyOf
<1>9. TallyOf(qs) = [TallyOf(rs) EXCEPT ![r.status] = @ + 1]
  <2> DEFINE one == [TallyOf(rs) EXCEPT ![r.status] = @ + 1]
  <2>1. TallyOf(qs) = [st \in Statuses |-> TallyOf(qs)[st]]
    BY DEF TallyOf
  <2>2. one = [st \in Statuses |-> one[st]]
    BY <1>8
  <2>3. \A st \in Statuses : TallyOf(qs)[st] = one[st]
    BY <1>2, <1>3, <1>6, <1>7, <1>8
  <2> HIDE DEF one
  <2>4. QED
    BY <2>1, <2>2, <2>3 DEF one
<1>10. QED
  BY <1>2, <1>8, <1>9 DEF qs

LEMMA DisjointSum ==
  ASSUME NEW one, NEW two, IsFiniteSet(one), IsFiniteSet(two), one \cap two = {}
  PROVE  /\ IsFiniteSet(one \cup two)
         /\ Cardinality(one \cup two) = Cardinality(one) + Cardinality(two)
<1>1. /\ IsFiniteSet(one \cup two)
      /\ Cardinality(one \cup two) =
           Cardinality(one) + Cardinality(two) - Cardinality(one \cap two)
  BY FS_Union
<1>2. Cardinality(one \cap two) = 0
  BY FS_EmptySet
<1>3. Cardinality(one) \in Nat /\ Cardinality(two) \in Nat
  BY FS_CardinalityType
<1>4. QED
  BY <1>1, <1>2, <1>3

(* The tallies add up to the number of counted runs.                       *)
LEMMA TallySum ==
  ASSUME NEW rs \in Seq(Records)
  PROVE  LET t == TallyOf(rs)
         IN  t["COMPLETED"] + t["FAILED"] + t["INTERMITTENT"] + t["ERRORED"] = Len(rs)
<1> DEFINE C == Of(rs, "COMPLETED")
           F == Of(rs, "FAILED")
           T == Of(rs, "INTERMITTENT")
           X == Of(rs, "ERRORED")
<1>1. /\ \A i \in DOMAIN rs : rs[i].status \in Statuses
      /\ DOMAIN rs = 1..Len(rs) /\ Len(rs) \in Nat
  <2>1. \A i \in DOMAIN rs : rs[i] \in Records
    OBVIOUS
  <2>2. QED
    BY <2>1 DEF Records
<1>2. /\ TallyOf(rs)["COMPLETED"] = Cardinality(C) /\ TallyOf(rs)["FAILED"] = Cardinality(F)
      /\ TallyOf(rs)["INTERMITTENT"] = Cardinality(T) /\ TallyOf(rs)["ERRORED"] = Cardinality(X)
  BY DEF TallyOf, Of, Statuses
<1>3. \A st \in Statuses : IsFiniteSet(Of(rs, st)) /\ Cardinality(Of(rs, st)) \in Nat
  <2>1. \A st \in Statuses : Of(rs, st) \in SUBSET DOMAIN rs
    BY DEF Of
  <2>2. QED
    BY <2>1, IndicesFinite
<1>4. /\ C \cap F = {} /\ (C \cup F) \cap T = {} /\ (C \cup F \cup T) \cap X = {}
      /\ C \cup F \cup T \cup X = 1..Len(rs)
  BY <1>1 DEF Of, Statuses
<1>5. /\ IsFiniteSet(C) /\ IsFiniteSet(F) /\ IsFiniteSet(T) /\ IsFiniteSet(X)
      /\ Cardinality(C) \in Nat /\ Cardinality(F) \in Nat
      /\ Cardinality(T) \in Nat /\ Cardinality(X) \in Nat
  BY <1>3 DEF Statuses
<1> HIDE DEF C, F, T, X
<1>7. IsFiniteSet(C \cup F) /\ Cardinality(C \cup F) = Cardinality(C) + Cardinality(F)
  BY <1>4, <1>5, DisjointSum
<1>8. IsFiniteSet(C \cup F \cup T) /\ Cardinality(C \cup F \cup T) = Cardinality(C \cup F) + Cardinality(T)
  BY <1>4, <1>5, <1>7, DisjointSum
<1>9. Cardinality(C \cup F \cup T \cup X) = Cardinality(C \cup F \cup T) + Cardinality(X)
  BY <1>4, <1>5, <1>8, DisjointSum
<1>10. Cardinality(1..Len(rs)) = Len(rs)
  <2>1. \A n \in Nat : Cardinality(1..n) = n
    BY FS_Interval
  <2>2. QED
    BY <1>1, <2>1
<1>11. TallyOf(rs)["COMPLETED"] + TallyOf(rs)["FAILED"]
         + TallyOf(rs)["INTERMITTENT"] + TallyOf(rs)["ERRORED"] = Len(rs)
  BY <1>2, <1>4, <1>5, <1>7, <1>8, <1>9, <1>10
<1>12. QED
  BY <1>11

SessionInv == phase = "returned" => \A w \in Workers : pc[w] = "done"

(* A worker that counts a run has not left its loop, is not executing      *)
(* another, and found the loop open if the run was never executed.         *)
Counts(w) ==
  \E r \in Records :
    /\ results' = Append(results, r) /\ earlyExited' = ExitsEarly(r)
    /\ w \notin Executing' /\ pc[w] # "done"
    /\ w \notin Executing => ~earlyExited

LEMMA WorkerCounts ==
  ASSUME SearchConstants, TypeOK, NEW w \in Workers, WorkerStep(w)
  PROVE  /\ UNCHANGED <<config, phase, snapshot>> /\ pc[w] # "done"
         /\ \/ Silent /\ UNCHANGED earlyExited
            \/ Started(w) /\ UNCHANGED earlyExited /\ ~earlyExited
            \/ (Rejected \/ Finished(w)) /\ Counts(w)
<1>1. Silent \/ Rejected \/ Started(w) \/ Finished(w)
  BY WorkerEffect
<1>2. UNCHANGED <<config, phase, snapshot>> /\ pc[w] # "done"
  BY DEF WorkerStep, Begin, Leave, Malformed, Duplicate, Execute, Settle, Suspect, RetryAgain,
         SettleRetry, Record, Asking, Resumable
<1>3. \A r : Len(Append(results, r)) # Len(results)
  <2>1. results \in Seq(Records)
    BY DEF TypeOK
  <2>2. QED
    BY <2>1
<1>4. claimed \in Nat
  BY DEF TypeOK
<1>5. ASSUME UNCHANGED <<results, earlyExited, claimed>> PROVE Silent /\ UNCHANGED earlyExited
  BY <1>1, <1>3, <1>4, <1>5 DEF Rejected, Started, Finished
<1>6. CASE Begin(w) \/ Leave(w)
  BY <1>2, <1>5, <1>6 DEF Begin, Leave, stateVars
<1>7. ASSUME NEW f \in Fingerprints, Duplicate(w, f) \/ Execute(w, f)
      PROVE  \/ Silent /\ UNCHANGED earlyExited
             \/ Started(w) /\ UNCHANGED earlyExited /\ ~earlyExited
  <2>1. CASE Duplicate(w, f)
    BY <1>5, <2>1 DEF Duplicate
  <2>2. CASE Execute(w, f)
    <3>1. /\ UNCHANGED <<results, earlyExited>> /\ claimed' = claimed + 1 /\ ~earlyExited
      BY <2>2 DEF Execute, Asking, LoopOpen
    <3>2. QED
      BY <1>1, <1>3, <1>4, <3>1 DEF Silent, Rejected, Finished
  <2>3. QED
    BY <1>7, <2>1, <2>2
<1>8. ASSUME NEW o \in Outcomes, Suspect(w, o) \/ RetryAgain(w, o)
      PROVE  Silent /\ UNCHANGED earlyExited
  BY <1>5, <1>8 DEF Suspect, RetryAgain, stateVars
<1>9. ASSUME NEW r \in Records, RecordRun(w, r)
      PROVE  /\ results' = Append(results, r) /\ earlyExited' = ExitsEarly(r)
             /\ w \notin Executing'
  BY <1>9 DEF RecordRun, Executing, TypeOK
<1>10. CASE Malformed(w)
  <2>1. PICK r \in Records : RecordRun(w, r)
    BY <1>10 DEF Malformed, Records, TypeOK, Statuses
  <2>2. w \notin Executing /\ ~earlyExited /\ claimed' = claimed + 1
    BY <1>10 DEF Malformed, Asking, LoopOpen, Executing
  <2>3. Counts(w)
    BY <1>2, <1>9, <2>1, <2>2 DEF Counts
  <2>4. results' # results
    BY <1>3, <1>9, <2>1
  <2>5. QED
    BY <1>1, <1>2, <2>2, <2>3, <2>4 DEF Silent, Started
<1>11. ASSUME NEW o \in Outcomes, Settle(w, o) \/ SettleRetry(w, o)
       PROVE  Finished(w) /\ Counts(w)
  <2>1. w \in Executing /\ job[w].failed \in Nat
    BY <1>11 DEF Settle, SettleRetry, Resumable, Executing, TypeOK, Jobs
  <2>2. PICK st \in Statuses, n \in Nat : Record(w, st, n)
    BY <1>11, <2>1, OutcomeType DEF Settle, SettleRetry, Statuses
  <2>3. PICK r \in Records : RecordRun(w, r)
    BY <2>1, <2>2, RecordType DEF Record
  <2>4. claimed' = claimed
    BY <2>2 DEF Record
  <2>5. results' # results
    BY <1>3, <1>9, <2>3
  <2>6. Finished(w)
    BY <1>1, <1>4, <2>4, <2>5 DEF Silent, Started, Rejected
  <2>7. QED
    BY <1>2, <1>9, <2>1, <2>3, <2>6 DEF Counts
<1>12. QED
  BY <1>2, <1>6, <1>7, <1>8, <1>10, <1>11 DEF WorkerStep

LEMMA SessionStep ==
  ASSUME SearchConstants, TypeOK, SessionInv, [Next]_vars PROVE SessionInv'
<1>1. ASSUME NEW w \in Workers, WorkerStep(w) PROVE SessionInv'
  <2>1. UNCHANGED phase /\ pc[w] # "done"
    BY <1>1, WorkerCounts
  <2>2. QED
    BY <2>1 DEF SessionInv
<1>2. CASE Return \/ Reject \/ ExportState \/ UNCHANGED vars
  BY <1>2 DEF Return, Reject, ExportState, vars, stateVars, workerVars, SessionInv
<1>3. CASE Resume
  BY <1>3 DEF Resume, SessionInv
<1>4. QED
  BY <1>1, <1>2, <1>3 DEF Next

-----------------------------------------------------------------------------
(* Every step is one of the abstract session.                              *)

(* The runs a session ended early may still count.                         *)
LateRuns == IF earlyExited THEN Cardinality(Executing) ELSE 0

LEMMA SessionTotals == ASSUME TypeOK PROVE Session!Counted = Len(results)
BY TallySum DEF TypeOK, Session!Counted

LEMMA CountStep ==
  ASSUME SearchConstants, TypeOK, BudgetAccounting, SessionInv, NEW w \in Workers,
         WorkerStep(w), Counts(w), Rejected \/ Finished(w)
  PROVE  \E st \in Session!Statuses : Session!Count(st)
<1>1. PICK r \in Records :
        /\ results' = Append(results, r) /\ earlyExited' = ExitsEarly(r)
        /\ pc[w] # "done" /\ w \notin Executing'
        /\ w \notin Executing => ~earlyExited
  BY DEF Counts
<1>2. UNCHANGED <<config, phase, snapshot>>
  BY WorkerCounts
<1>3. /\ results \in Seq(Records) /\ Len(results) \in Nat /\ claimed \in Nat
      /\ iterations \in Nat /\ Cardinality(Executing) \in Nat /\ IsFiniteSet(Executing)
      /\ earlyExited \in BOOLEAN /\ earlyExit \in BOOLEAN
  BY ExecutingFinite, FS_CardinalityType DEF TypeOK, SearchConstants
<1>4. w \in Executing => Cardinality(Executing) >= 1
  BY <1>3, FS_EmptySet
<1>5. phase # "returned"
  BY <1>1 DEF SessionInv
<1>6. Len(results) < iterations
  BY <1>3, <1>4 DEF Rejected, Finished, BudgetAccounting, iterationsDone
<1>7. Cardinality(Executing') \in 0..(Cardinality(Workers) - 1)
  <2>1. Executing' \subseteq Workers \ {w} /\ w \in Workers /\ IsFiniteSet(Workers)
    BY <1>1 DEF SearchConstants, Executing
  <2>2. /\ IsFiniteSet(Workers \ {w}) /\ Cardinality(Workers \ {w}) = Cardinality(Workers) - 1
        /\ Cardinality(Workers) \in Nat
    BY <2>1, FS_RemoveElement, FS_CardinalityType
  <2>3. Cardinality(Executing') <= Cardinality(Workers \ {w}) /\ Cardinality(Executing') \in Nat
    BY <2>1, <2>2, FS_Subset, FS_CardinalityType
  <2>4. QED
    BY <2>2, <2>3
<1>8. r.status \in Session!Statuses /\ TallyOf(results') = [TallyOf(results) EXCEPT ![r.status] = @ + 1]
  BY <1>1, <1>3, TallyAppend DEF Session!Statuses, Statuses
<1>9. {[tally |-> TallyOf(s.results), exited |-> s.earlyExited] : s \in snapshot'}
        = {[tally |-> TallyOf(s.results), exited |-> s.earlyExited] : s \in snapshot}
  BY <1>2
<1>10. earlyExited' = (earlyExited \/ (earlyExit /\ r.status # "COMPLETED"))
  BY <1>1, <1>3 DEF ExitsEarly, Passed
<1>11. \/ earlyExited /\ LateRuns > 0 /\ LateRuns' = LateRuns - 1
       \/ ~earlyExited /\ earlyExited' /\ LateRuns' \in 0..(Cardinality(Workers) - 1)
       \/ ~earlyExited /\ ~earlyExited' /\ LateRuns' = LateRuns
  <2>1. CASE earlyExited
    <3>1. w \in Executing /\ Executing' = Executing \ {w} /\ earlyExited'
      BY <1>1, <1>10, <2>1 DEF Rejected, Finished
    <3>2. Cardinality(Executing') = Cardinality(Executing) - 1
      BY <1>3, <3>1, FS_RemoveElement
    <3>3. QED
      BY <1>3, <1>4, <2>1, <3>1, <3>2 DEF LateRuns
  <2>2. CASE ~earlyExited
    BY <1>7, <2>2 DEF LateRuns
  <2>3. QED
    BY <1>3, <2>1, <2>2
<1>12. Session!Count(r.status)
  BY <1>2, <1>5, <1>6, <1>8, <1>9, <1>10, <1>11, SessionTotals DEF Session!Count, LateRuns
<1>13. QED
  BY <1>8, <1>12

LEMMA SessionSteps ==
  ASSUME SearchConstants, TypeOK, BudgetAccounting, SessionInv, [Next]_vars
  PROVE  [Session!Next]_Session!vars
<1>1. ASSUME NEW w \in Workers, WorkerStep(w) PROVE [Session!Next]_Session!vars
  <2>1. CASE (Rejected \/ Finished(w)) /\ Counts(w)
    BY <1>1, <2>1, CountStep DEF Session!Next
  <2>2. CASE \/ Silent /\ UNCHANGED earlyExited
             \/ Started(w) /\ UNCHANGED earlyExited /\ ~earlyExited
    <3>1. UNCHANGED <<config, phase, snapshot, results, earlyExited>> /\ LateRuns' = LateRuns
      BY <1>1, <2>2, WorkerCounts DEF Silent, Started, LateRuns
    <3>2. QED
      BY <3>1 DEF Session!vars, LateRuns
  <2>3. QED
    BY <1>1, <2>1, <2>2, WorkerCounts
<1>2. CASE Return
  BY <1>2 DEF Return, stateVars, workerVars, Executing, Session!Settle, Session!Next
<1>3. CASE Reject
  BY <1>3 DEF Reject, stateVars, workerVars, Executing, Session!Settle, Session!Next
<1>4. CASE ExportState
  <2>1. /\ UNCHANGED <<config, results, earlyExited, phase>> /\ Executing' = Executing
        /\ snapshot' = {State} /\ State.results = results /\ State.earlyExited = earlyExited
    BY <1>4 DEF ExportState, stateVars, workerVars, Executing, State
  <2>2. {[tally |-> TallyOf(s.results), exited |-> s.earlyExited] : s \in snapshot'}
          = {[tally |-> TallyOf(results), exited |-> earlyExited]}
    BY <2>1
  <2>3. Session!Export
    BY <2>1, <2>2 DEF Session!Export
  <2>4. QED
    BY <2>3 DEF Session!Next
<1>5. CASE Resume
  <2>1. PICK s \in snapshot : results' = s.results /\ earlyExited' = s.earlyExited
    BY <1>5 DEF Resume
  <2>2. /\ iterations' \in Budgets /\ earlyExit' \in EarlyExits
        /\ phase' = "running" /\ UNCHANGED snapshot
    BY <1>5 DEF Resume
  <2>3. Executing' = {}
    BY <1>5 DEF Resume, Starting, Executing
  <2>4. Cardinality(Executing') = 0
    BY <2>3, FS_EmptySet
  <2> DEFINE old == [tally |-> TallyOf(s.results), exited |-> s.earlyExited]
  <2>5. /\ old \in {[tally |-> TallyOf(t.results), exited |-> t.earlyExited] : t \in snapshot}
        /\ TallyOf(results)' = old.tally /\ earlyExited' = old.exited
    BY <2>1
  <2>6. Session!Resume
    BY <2>2, <2>4, <2>5 DEF Session!Resume
  <2>7. QED
    BY <2>6 DEF Session!Next
<1>6. CASE UNCHANGED vars
  BY <1>6 DEF vars, stateVars, workerVars, Executing, Session!vars
<1>7. QED
  BY <1>1, <1>2, <1>3, <1>4, <1>5, <1>6 DEF Next

(* For any number of workers, any budgets and any outcomes: the caller     *)
(* sees a session that counts no run beyond its budget, at most one more   *)
(* for each other worker after an early exit, none once run() returned,    *)
(* and goes on from what was exported under any other configuration, but   *)
(* not after an early exit (orchestrator.ts:125-212).                      *)
THEOREM SessionImplemented == Spec => ImplementsSession
<1>1. Init => Session!Init
  <2>1. SUFFICES ASSUME Init PROVE Session!Init
    OBVIOUS
  <2>2. results = <<>> /\ snapshot = {} /\ phase = "running" /\ earlyExited = FALSE
        /\ iterations \in Budgets /\ earlyExit \in EarlyExits
    BY <2>1 DEF Init
  <2>3. TallyOf(<<>>) = [st \in Session!Statuses |-> 0]
    <3>1. (\A st \in Statuses : Of(<<>>, st) = {}) /\ Cardinality({}) = 0
      BY FS_EmptySet DEF Of
    <3>2. QED
      BY <3>1 DEF TallyOf, Of, Session!Statuses, Statuses
  <2>4. QED
    BY <2>2, <2>3 DEF Session!Init
<1>2. Spec => []SessionInv
  <2>1. Init => SessionInv
    BY DEF Init, SessionInv
  <2>2. TypeOK /\ SessionInv /\ [Next]_vars => SessionInv'
    BY SessionStep, ConstantsAssumption
  <2>3. QED
    BY <2>1, <2>2, TypeCorrect, PTL DEF Spec
<1>3. TypeOK /\ BudgetAccounting /\ SessionInv /\ [Next]_vars => [Session!Next]_Session!vars
  BY SessionSteps, ConstantsAssumption
<1>4. QED
  BY <1>1, <1>2, <1>3, TypeCorrect, BudgetRespected, PTL
     DEF Spec, ImplementsSession, Session!Spec

-----------------------------------------------------------------------------
(* How often a fingerprint is counted.                                     *)

Counted(rs, f) == {i \in DOMAIN rs : rs[i].fp = f}

Trying(f) == {w \in Executing : job[w].fp = f}

(* Each worker counts a fingerprint once or is about to: it cannot start   *)
(* one that was counted.                                                   *)
CountedOnce ==
  /\ \A f \in Fingerprints :
       Cardinality(Counted(results, f)) + Cardinality(Trying(f)) <= Cardinality(Workers)
  /\ \A s \in snapshot : \A f \in Fingerprints :
       Cardinality(Counted(s.results, f)) <= Cardinality(Workers)

LEMMA CountedFinite ==
  ASSUME SearchConstants, NEW rs \in Seq(Records), NEW f
  PROVE  /\ IsFiniteSet(Counted(rs, f)) /\ Cardinality(Counted(rs, f)) \in Nat
         /\ IsFiniteSet(Trying(f)) /\ Cardinality(Trying(f)) \in Nat
         /\ Cardinality(Trying(f)) <= Cardinality(Workers) /\ Cardinality(Workers) \in Nat
<1>1. Counted(rs, f) \in SUBSET DOMAIN rs
  BY DEF Counted
<1>2. IsFiniteSet(Workers) /\ Trying(f) \subseteq Workers
  BY DEF SearchConstants, Trying, Executing
<1>3. IsFiniteSet(Trying(f)) /\ Cardinality(Trying(f)) <= Cardinality(Workers)
  BY <1>2, FS_Subset
<1>4. QED
  BY <1>1, <1>2, <1>3, IndicesFinite, FS_CardinalityType

LEMMA CountedAppend ==
  ASSUME NEW rs \in Seq(Records), NEW r \in Records, NEW f
  PROVE  Cardinality(Counted(Append(rs, r), f)) =
           Cardinality(Counted(rs, f)) + (IF r.fp = f THEN 1 ELSE 0)
<1> DEFINE qs == Append(rs, r)
           top == Len(rs) + 1
<1>1. /\ DOMAIN qs = 1..top /\ qs[top] = r /\ DOMAIN rs = 1..Len(rs) /\ Len(rs) \in Nat
      /\ \A i \in DOMAIN rs : qs[i] = rs[i]
  OBVIOUS
<1>2. IsFiniteSet(Counted(rs, f)) /\ Cardinality(Counted(rs, f)) \in Nat
  <2>1. Counted(rs, f) \in SUBSET DOMAIN rs
    BY DEF Counted
  <2>2. QED
    BY <2>1, IndicesFinite
<1> HIDE DEF qs
<1>3. /\ Counted(qs, f) = IF r.fp = f THEN Counted(rs, f) \cup {top} ELSE Counted(rs, f)
      /\ top \notin Counted(rs, f)
  BY <1>1 DEF Counted
<1>4. Cardinality(Counted(rs, f) \cup {top}) = Cardinality(Counted(rs, f)) + 1
  BY <1>2, <1>3, FS_AddElement
<1>5. QED
  BY <1>2, <1>3, <1>4 DEF qs

LEMMA WorkerCountedOnce ==
  ASSUME SearchConstants, IInv, CountedOnce, NEW w \in Workers, WorkerStep(w),
         NEW f \in Fingerprints
  PROVE  Cardinality(Counted(results', f)) + Cardinality(Trying(f)') <= Cardinality(Workers)
<1> DEFINE C == Cardinality(Counted(results, f))
           D == Cardinality(Counted(results', f))
           T == Cardinality(Trying(f))
           V == Cardinality(Trying(f)')
           W == Cardinality(Workers)
<1>1. /\ TypeOK /\ C + T <= W
      /\ Silent \/ Rejected \/ Started(w) \/ Finished(w)
  BY WorkerEffect DEF CountedOnce, IInv
<1>2. results \in Seq(Records)
  BY <1>1 DEF TypeOK
<1>3. IsFiniteSet(Trying(f)) /\ C \in Nat /\ T \in Nat /\ W \in Nat
  BY <1>2, CountedFinite
<1>4. V <= W /\ V \in Nat
  <2>1. IsFiniteSet(Workers) /\ Trying(f)' \subseteq Workers
    BY DEF SearchConstants, Trying, Executing
  <2>2. QED
    BY <2>1, FS_Subset, FS_CardinalityType
<1>5. \A r \in Records : results' = Append(results, r) => D = C + (IF r.fp = f THEN 1 ELSE 0)
  BY <1>2, CountedAppend
<1>6. CASE Silent
  <2>1. D = C /\ Trying(f)' = Trying(f)
    BY <1>6 DEF Silent, Trying
  <2>2. QED
    BY <1>1, <2>1
<1>7. CASE Rejected
  <2>1. PICK r \in Records : r.fp = NoFingerprint /\ results' = Append(results, r)
    BY <1>7 DEF Rejected
  <2>2. D = C
    BY <1>3, <1>5, <2>1 DEF SearchConstants
  <2>3. Trying(f)' = Trying(f)
    BY <1>7 DEF Rejected, Trying
  <2>4. QED
    BY <1>1, <2>2, <2>3
<1>8. CASE Started(w)
  <2>1. results' = results /\ Executing' = Executing \cup {w}
        /\ job'[w].fp \in Fingerprints /\ seen[job'[w].fp] = 0
        /\ \A v \in Executing : job'[v].fp = job[v].fp
    BY <1>8 DEF Started
  <2>2. CASE job'[w].fp = f
    <3>1. seen[f] = 0 /\ LatestIn(results, seen)
      BY <2>1, <2>2 DEF IInv, StateInv
    <3>2. Counted(results', f) = {}
      BY <2>1, <3>1 DEF LatestIn, Counted
    <3>3. D = 0
      BY <3>2, FS_EmptySet
    <3>4. QED
      BY <1>4, <3>3
  <2>3. CASE job'[w].fp # f
    <3>1. D = C /\ Trying(f)' = Trying(f)
      BY <1>8, <2>1, <2>3 DEF Trying, Started
    <3>2. QED
      BY <1>1, <3>1
  <2>4. QED
    BY <2>2, <2>3
<1>9. CASE Finished(w)
  <2>1. PICK r \in Records : r.fp = job[w].fp /\ results' = Append(results, r)
    BY <1>9 DEF Finished
  <2>2. /\ w \in Executing /\ Executing' = Executing \ {w}
        /\ \A v \in Executing \ {w} : job'[v].fp = job[v].fp
    BY <1>9 DEF Finished
  <2>3. Trying(f)' = Trying(f) \ {w} /\ (w \in Trying(f) <=> r.fp = f)
    BY <2>1, <2>2 DEF Trying
  <2>4. w \in Trying(f) => Cardinality(Trying(f) \ {w}) = T - 1
    BY <1>3, FS_RemoveElement
  <2>5. w \notin Trying(f) => Trying(f) \ {w} = Trying(f)
    OBVIOUS
  <2>6. D = C + (IF r.fp = f THEN 1 ELSE 0)
    BY <1>5, <2>1
  <2>7. V = IF r.fp = f THEN T - 1 ELSE T
    BY <2>3, <2>4, <2>5
  <2> HIDE DEF C, D, T, V, W
  <2>8. D + V <= W
    BY <1>1, <1>3, <2>6, <2>7
  <2>9. QED
    BY <2>8 DEF D, V, W
<1>10. QED
  BY <1>1, <1>6, <1>7, <1>8, <1>9

LEMMA CountedOnceStep ==
  ASSUME SearchConstants, IInv, TypeOK', CountedOnce, [Next]_vars PROVE CountedOnce'
<1>1. ASSUME NEW w \in Workers, WorkerStep(w) PROVE CountedOnce'
  <2>1. UNCHANGED snapshot
    BY <1>1, WorkerCounts DEF IInv
  <2>2. QED
    BY <1>1, <2>1, WorkerCountedOnce DEF CountedOnce, Counted
<1>2. CASE Return \/ Reject \/ UNCHANGED vars
  BY <1>2 DEF Return, Reject, vars, stateVars, workerVars, CountedOnce, Counted, Trying, Executing
<1>3. CASE ExportState
  <2>1. UNCHANGED <<results, job, pc>> /\ snapshot' = {State} /\ State.results = results
    BY <1>3 DEF ExportState, stateVars, workerVars, State
  <2>2. \A f \in Fingerprints : Cardinality(Counted(results, f)) <= Cardinality(Workers)
    <3>1. \A f \in Fingerprints : /\ Cardinality(Counted(results, f)) \in Nat
                                  /\ Cardinality(Trying(f)) \in Nat /\ Cardinality(Workers) \in Nat
      BY CountedFinite DEF IInv, TypeOK
    <3>2. QED
      BY <3>1 DEF CountedOnce
  <2>3. QED
    BY <2>1, <2>2 DEF CountedOnce, Counted, Trying, Executing
<1>4. CASE Resume
  <2>1. PICK s \in snapshot : results' = s.results
    BY <1>4 DEF Resume
  <2>2. UNCHANGED snapshot /\ \A f : Trying(f)' = {}
    BY <1>4 DEF Resume, Starting, Trying, Executing
  <2>3. results' \in Seq(Records)
    BY DEF TypeOK
  <2>4. \A f \in Fingerprints :
          /\ Cardinality(Trying(f)') = 0 /\ Cardinality(Counted(results', f)) \in Nat
          /\ Cardinality(Counted(results', f)) <= Cardinality(Workers)
    BY <2>1, <2>2, <2>3, CountedFinite, FS_EmptySet DEF CountedOnce
  <2>5. QED
    BY <2>2, <2>4 DEF CountedOnce, Counted
<1>5. QED
  BY <1>1, <1>2, <1>3, <1>4 DEF Next

(* A fingerprint may be counted twice, by workers that picked it before    *)
(* either run ended, but never more often than there are workers, however  *)
(* long the session is and however often it is resumed: a worker looks its *)
(* fingerprint up before it claims a slot (orchestrator.ts:202-212).       *)
THEOREM DuplicatesAreBounded == Spec => []DuplicatesBounded
<1>1. Init => CountedOnce
  <2>1. SUFFICES ASSUME Init PROVE CountedOnce
    OBVIOUS
  <2>2. results = <<>> /\ snapshot = {} /\ results \in Seq(Records)
        /\ \A f : Counted(results, f) = {} /\ Trying(f) = {}
    BY <2>1 DEF Init, Starting, Counted, Trying, Executing
  <2>3. Cardinality(Workers) \in Nat
    BY FS_CardinalityType, ConstantsAssumption DEF SearchConstants
  <2>4. Cardinality({}) = 0
    BY FS_EmptySet
  <2>5. \A f : Cardinality(Counted(results, f)) = 0 /\ Cardinality(Trying(f)) = 0
    BY <2>2, <2>4
  <2>6. QED
    BY <2>2, <2>3, <2>5 DEF CountedOnce
<1>2. IInv /\ TypeOK' /\ CountedOnce /\ [Next]_vars => CountedOnce'
  BY CountedOnceStep, ConstantsAssumption
<1>3. TypeOK /\ CountedOnce => DuplicatesBounded
  <2>1. SUFFICES ASSUME TypeOK, CountedOnce, NEW f \in Fingerprints
                 PROVE  Cardinality(Counted(results, f)) <= Cardinality(Workers)
    BY DEF DuplicatesBounded, Counted
  <2>2. /\ Cardinality(Counted(results, f)) \in Nat /\ Cardinality(Trying(f)) \in Nat
        /\ Cardinality(Workers) \in Nat
    BY <2>1, CountedFinite, ConstantsAssumption DEF TypeOK
  <2>3. QED
    BY <2>1, <2>2 DEF CountedOnce
<1>4. QED
  BY <1>1, <1>2, <1>3, Invariance, TypeCorrect, PTL DEF Spec

-----------------------------------------------------------------------------
(* Why run() ends.                                                         *)

(* The most steps a worker can still take before it claims another slot.   *)
MaxRank == MaxDuplicates + FlakeRetries + 3

Rank(w) ==
  CASE pc[w] \in {"done", "threw"} -> 0
    [] pc[w] = "loop"  -> 1 + (MaxDuplicates - dups[w])
    [] pc[w] = "start" -> 2 + MaxDuplicates
    [] pc[w] = "retry" -> 1 + MaxDuplicates + job[w].left
    [] pc[w] = "exec"  -> MaxRank

(* An attempt starts with flakeRetries retries, and retries while it has   *)
(* some left.                                                              *)
RetriesLeft ==
  \A w \in Workers : /\ job[w].left <= flakeRetries
                     /\ pc[w] = "exec" => job[w].left = flakeRetries
                     /\ pc[w] = "retry" => job[w].left > 0

(* Every step of a worker claims one of the slots of the budget or brings  *)
(* that worker closer to its next claim or its end, and sets back nobody.  *)
WorkersAdvance ==
  [][\A w \in Workers : WorkerStep(w) =>
       /\ \A v \in Workers \ {w} : Rank(v)' = Rank(v)
       /\ \/ claimed' = claimed + 1 /\ claimed < iterations /\ Rank(w)' \in 0..MaxRank
          \/ claimed' = claimed /\ Rank(w)' \in 0..(Rank(w) - 1)]_vars

(* Only the worker that takes a step can break it.                         *)
LEMMA RetriesFrame ==
  ASSUME RetriesLeft, NEW w \in Workers, UNCHANGED flakeRetries,
         \A v \in Workers \ {w} : job'[v] = job[v] /\ pc'[v] = pc[v],
         job'[w].left <= flakeRetries,
         pc'[w] = "exec" => job'[w].left = flakeRetries,
         pc'[w] = "retry" => job'[w].left > 0
  PROVE  RetriesLeft'
BY DEF RetriesLeft

LEMMA RetriesStep ==
  ASSUME SearchConstants, TypeOK, RetriesLeft, [Next]_vars PROVE RetriesLeft'
<1>0. /\ NoJob.left = 0 /\ NoJob.left <= flakeRetries /\ flakeRetries \in Nat
      /\ \A j \in Jobs, n \in Nat : /\ [j EXCEPT !.failed = n].left = j.left
                                    /\ [j EXCEPT !.left = n].left = n
  BY DEF NoJob, Jobs, TypeOK, SearchConstants
<1>1. ASSUME NEW w \in Workers, WorkerStep(w) PROVE RetriesLeft'
  <2>f. UNCHANGED flakeRetries
    BY <1>1, WorkerCounts
  <2>0. /\ job \in [Workers -> Jobs] /\ DOMAIN pc = Workers
        /\ job[w] \in Jobs /\ job[w].left \in Nat /\ job[w].left <= flakeRetries
        /\ pc[w] = "exec" => job[w].left = flakeRetries
    <3>1. /\ job[w].left <= flakeRetries
          /\ pc[w] = "exec" => job[w].left = flakeRetries
      BY DEF RetriesLeft
    <3>2. QED
      BY <3>1 DEF TypeOK, Jobs
  <2>1. CASE Begin(w) \/ Leave(w)
    <3>1. /\ job' = job /\ pc'[w] \in {"loop", "done"}
          /\ \A v \in Workers \ {w} : pc'[v] = pc[v]
      BY <2>0, <2>1 DEF Begin, Leave
    <3>2. QED
      BY <2>0, <3>1, RetriesFrame, <2>f
  <2>2. ASSUME NEW f \in Fingerprints, Duplicate(w, f) \/ Execute(w, f) PROVE RetriesLeft'
    <3>1. CASE Duplicate(w, f)
      BY <2>f, <3>1 DEF Duplicate, RetriesLeft
    <3>2. CASE Execute(w, f)
      <4>1. /\ \A v \in Workers \ {w} : job'[v] = job[v] /\ pc'[v] = pc[v]
            /\ job'[w].left = flakeRetries /\ pc'[w] = "exec"
        BY <2>0, <3>2 DEF Execute
      <4>2. QED
        BY <1>0, <4>1, RetriesFrame, <2>f
    <3>3. QED
      BY <2>2, <3>1, <3>2
  <2>3. ASSUME NEW r, RecordRun(w, r) PROVE RetriesLeft'
    <3>1. /\ \A v \in Workers \ {w} : job'[v] = job[v] /\ pc'[v] = pc[v]
          /\ job'[w] = NoJob /\ pc'[w] \in {"loop", "threw"}
      BY <2>0, <2>3 DEF RecordRun
    <3>2. QED
      BY <1>0, <3>1, RetriesFrame, <2>f
  <2>4. ASSUME NEW o \in Outcomes, Suspect(w, o) PROVE RetriesLeft'
    <3>1. /\ \A v \in Workers \ {w} : job'[v] = job[v] /\ pc'[v] = pc[v]
          /\ pc[w] = "exec" /\ pc'[w] = "retry" /\ flakeRetries > 0
          /\ job'[w] = [job[w] EXCEPT !.failed = o.failed]
      BY <2>0, <2>4 DEF Suspect, Resumable, Retries
    <3>2. job'[w].left = job[w].left
      <4>1. o.failed \in Nat
        BY OutcomeType
      <4>2. [job[w] EXCEPT !.failed = o.failed].left = job[w].left
        BY <1>0, <2>0, <4>1
      <4>3. QED
        BY <3>1, <4>2
    <3>3. job'[w].left = flakeRetries
      BY <2>0, <3>1, <3>2
    <3>4. job'[w].left <= flakeRetries /\ job'[w].left > 0
      BY <1>0, <3>1, <3>3
    <3>5. /\ \A v \in Workers \ {w} : job'[v] = job[v] /\ pc'[v] = pc[v]
          /\ pc'[w] # "exec"
      BY <3>1
    <3>6. QED
      BY <3>4, <3>5, RetriesFrame, <2>f
  <2>5. ASSUME NEW o \in Outcomes, RetryAgain(w, o) PROVE RetriesLeft'
    <3>1. /\ \A v \in Workers \ {w} : job'[v] = job[v]
          /\ UNCHANGED pc /\ pc[w] = "retry" /\ job[w].left > 1
          /\ job'[w] = [job[w] EXCEPT !.left = @ - 1]
      BY <2>0, <2>5 DEF RetryAgain, Resumable
    <3>2. job'[w].left = job[w].left - 1
      BY <2>0, <3>1 DEF Jobs
    <3>3. job'[w].left <= flakeRetries /\ job'[w].left > 0
      BY <1>0, <2>0, <3>1, <3>2
    <3>4. QED
      BY <3>1, <3>3, RetriesFrame, <2>f
  <2>6. QED
    BY <1>1, <2>1, <2>2, <2>3, <2>4, <2>5 DEF WorkerStep, Malformed, Settle, SettleRetry, Record
<1>2. CASE Resume
  <2>1. \A w \in Workers : job'[w] = NoJob /\ pc'[w] \in {"start", "done"}
    BY <1>2 DEF Resume, Starting
  <2>2. flakeRetries' \in Nat
    BY <1>2 DEF Resume, SearchConstants
  <2>3. QED
    BY <1>0, <2>1, <2>2 DEF RetriesLeft
<1>3. CASE Return \/ Reject \/ ExportState \/ UNCHANGED vars
  BY <1>3 DEF Return, Reject, ExportState, vars, stateVars, workerVars, RetriesLeft
<1>4. QED
  BY <1>1, <1>2, <1>3 DEF Next

LEMMA RetriesInv == Spec => []RetriesLeft
<1>1. Init => RetriesLeft
  BY ConstantsAssumption DEF Init, Starting, RetriesLeft, NoJob, SearchConstants
<1>2. TypeOK /\ RetriesLeft /\ [Next]_vars => RetriesLeft'
  BY RetriesStep, ConstantsAssumption
<1>3. QED
  BY <1>1, <1>2, TypeCorrect, PTL DEF Spec

(* A counted run leaves its worker at the head of the loop or thrown out.  *)
LEMMA RecordRank ==
  ASSUME SearchConstants, TypeOK, NEW w \in Workers, NEW r, RecordRun(w, r), UNCHANGED dups
  PROVE  /\ \A v \in Workers \ {w} : Rank(v)' = Rank(v)
         /\ Rank(w)' <= IF pc[w] = "loop" THEN Rank(w) ELSE 1 + MaxDuplicates
         /\ Rank(w)' \in Nat
<1>1. /\ \A v \in Workers \ {w} : job'[v] = job[v] /\ pc'[v] = pc[v] /\ dups'[v] = dups[v]
      /\ pc'[w] \in {"loop", "threw"} /\ dups'[w] = dups[w]
  BY DEF RecordRun, TypeOK
<1>2. dups[w] \in 0..MaxDuplicates /\ MaxDuplicates \in Nat
  BY DEF TypeOK, SearchConstants
<1>3. Rank(w)' = IF pc'[w] = "loop" THEN 1 + (MaxDuplicates - dups[w]) ELSE 0
  BY <1>1 DEF Rank
<1>4. pc[w] = "loop" => Rank(w) = 1 + (MaxDuplicates - dups[w])
  BY DEF Rank
<1>5. \A v \in Workers \ {w} : Rank(v)' = Rank(v)
  BY <1>1 DEF Rank
<1>6. QED
  BY <1>2, <1>3, <1>4, <1>5

RankBounded == \A w \in Workers : Rank(w) \in 0..MaxRank

LEMMA RankType ==
  ASSUME SearchConstants, TypeOK, RetriesLeft PROVE RankBounded
<1>1. SUFFICES ASSUME NEW w \in Workers PROVE Rank(w) \in 0..MaxRank
  BY DEF RankBounded
<1>2. /\ MaxDuplicates \in Nat /\ FlakeRetries \in Nat /\ dups[w] \in 0..MaxDuplicates
      /\ flakeRetries \in 0..FlakeRetries
      /\ job[w].left \in Nat /\ job[w].left <= flakeRetries
      /\ pc[w] \in {"start", "loop", "exec", "retry", "done", "threw"}
  BY DEF TypeOK, SearchConstants, Jobs, RetriesLeft
<1>3. /\ pc[w] \in {"done", "threw"} => Rank(w) = 0
      /\ pc[w] = "loop" => Rank(w) = 1 + (MaxDuplicates - dups[w])
      /\ pc[w] = "start" => Rank(w) = 2 + MaxDuplicates
      /\ pc[w] = "retry" => Rank(w) = 1 + MaxDuplicates + job[w].left
      /\ pc[w] = "exec" => Rank(w) = MaxRank
  BY DEF Rank
<1>4. QED
  BY <1>2, <1>3 DEF MaxRank

LEMMA WorkerAdvances ==
  ASSUME SearchConstants, TypeOK, RetriesLeft, NEW w \in Workers, WorkerStep(w)
  PROVE  /\ \A v \in Workers \ {w} : Rank(v)' = Rank(v)
         /\ \/ claimed' = claimed + 1 /\ claimed < iterations /\ Rank(w)' <= MaxRank
            \/ claimed' = claimed /\ Rank(w)' < Rank(w)
<1>0. /\ MaxDuplicates \in Nat /\ FlakeRetries \in Nat /\ flakeRetries \in 0..FlakeRetries
      /\ dups[w] \in 0..MaxDuplicates /\ job[w].left \in Nat /\ job[w] \in Jobs
  BY DEF TypeOK, SearchConstants, Jobs
<1>1. ASSUME \A v \in Workers \ {w} : pc'[v] = pc[v] /\ job'[v] = job[v] /\ dups'[v] = dups[v]
      PROVE  \A v \in Workers \ {w} : Rank(v)' = Rank(v)
  BY <1>1 DEF Rank
<1>2. CASE Begin(w)
  <2>1. /\ pc[w] = "start" /\ pc'[w] = "loop" /\ UNCHANGED <<claimed, dups, job>>
        /\ \A v \in Workers \ {w} : pc'[v] = pc[v]
    BY <1>2 DEF Begin, TypeOK
  <2>2. Rank(w) = 2 + MaxDuplicates /\ Rank(w)' = 1 + (MaxDuplicates - dups[w])
    BY <2>1 DEF Rank
  <2>3. QED
    BY <1>0, <1>1, <2>1, <2>2
<1>3. CASE Leave(w)
  <2>1. /\ pc[w] = "loop" /\ pc'[w] = "done" /\ UNCHANGED <<claimed, dups, job>>
        /\ \A v \in Workers \ {w} : pc'[v] = pc[v]
    BY <1>3 DEF Leave, TypeOK
  <2>2. Rank(w) = 1 + (MaxDuplicates - dups[w]) /\ Rank(w)' = 0
    BY <2>1 DEF Rank
  <2>3. QED
    BY <1>0, <1>1, <2>1, <2>2
<1>4. CASE Malformed(w)
  <2>1. /\ pc[w] = "loop" /\ claimed' = claimed + 1 /\ claimed < iterations /\ UNCHANGED dups
        /\ \E r : RecordRun(w, r)
    BY <1>4 DEF Malformed, Asking, LoopOpen
  <2>2. Rank(w) = 1 + (MaxDuplicates - dups[w])
    BY <2>1 DEF Rank
  <2>3. /\ \A v \in Workers \ {w} : Rank(v)' = Rank(v)
        /\ Rank(w)' <= Rank(w) /\ Rank(w)' \in Nat
    BY <2>1, RecordRank
  <2>4. QED
    BY <1>0, <2>1, <2>2, <2>3 DEF MaxRank
<1>5. ASSUME NEW f \in Fingerprints, Duplicate(w, f)
      PROVE  (\A v \in Workers \ {w} : Rank(v)' = Rank(v)) /\ claimed' = claimed /\ Rank(w)' < Rank(w)
  <2>1. /\ pc[w] = "loop" /\ dups'[w] = dups[w] + 1 /\ UNCHANGED <<claimed, pc, job>>
        /\ \A v \in Workers \ {w} : dups'[v] = dups[v]
    BY <1>5 DEF Duplicate, Asking, TypeOK
  <2>2. /\ Rank(w) = 1 + (MaxDuplicates - dups[w])
        /\ Rank(w)' = 1 + (MaxDuplicates - dups'[w])
    BY <2>1 DEF Rank
  <2>3. QED
    BY <1>0, <1>1, <2>1, <2>2
<1>6. ASSUME NEW f \in Fingerprints, Execute(w, f)
      PROVE  /\ \A v \in Workers \ {w} : Rank(v)' = Rank(v)
             /\ claimed' = claimed + 1 /\ claimed < iterations /\ Rank(w)' = MaxRank
  <2>1. /\ pc'[w] = "exec" /\ claimed' = claimed + 1 /\ claimed < iterations
        /\ \A v \in Workers \ {w} : pc'[v] = pc[v] /\ job'[v] = job[v] /\ dups'[v] = dups[v]
    BY <1>6 DEF Execute, Asking, LoopOpen, TypeOK
  <2>2. Rank(w)' = MaxRank
    BY <2>1 DEF Rank, MaxRank
  <2>3. QED
    BY <1>1, <2>1, <2>2
<1>7. ASSUME NEW o \in Outcomes, Suspect(w, o) \/ RetryAgain(w, o)
      PROVE  (\A v \in Workers \ {w} : Rank(v)' = Rank(v)) /\ claimed' = claimed /\ Rank(w)' < Rank(w)
  <2>1. /\ pc'[w] = "retry" /\ UNCHANGED <<claimed, dups>>
        /\ \A v \in Workers \ {w} : pc'[v] = pc[v] /\ job'[v] = job[v]
    BY <1>7 DEF Suspect, RetryAgain, Resumable, stateVars, TypeOK
  <2>2. Rank(w)' = 1 + MaxDuplicates + job'[w].left
    BY <2>1 DEF Rank
  <2>3. \/ pc[w] = "exec" /\ job'[w].left = job[w].left
        \/ pc[w] = "retry" /\ job'[w].left = job[w].left - 1
    <3>1. \A j \in Jobs : \A n : [j EXCEPT !.failed = n].left = j.left /\ [j EXCEPT !.left = n].left = n
      BY DEF Jobs
    <3>2. CASE Suspect(w, o)
      BY <1>0, <3>1, <3>2 DEF Suspect, Resumable, TypeOK
    <3>3. CASE RetryAgain(w, o)
      BY <1>0, <3>1, <3>3 DEF RetryAgain, Resumable, TypeOK
    <3>4. QED
      BY <1>7, <3>2, <3>3
  <2>4. /\ pc[w] = "exec" => Rank(w) = MaxRank
        /\ pc[w] = "retry" => Rank(w) = 1 + MaxDuplicates + job[w].left
    BY DEF Rank, MaxRank
  <2>5. job[w].left <= FlakeRetries
    BY <1>0 DEF RetriesLeft
  <2>6. Rank(w)' < Rank(w)
    BY <1>0, <2>2, <2>3, <2>4, <2>5 DEF MaxRank
  <2>7. QED
    BY <1>1, <2>1, <2>6
<1>8. ASSUME NEW o \in Outcomes, Settle(w, o) \/ SettleRetry(w, o)
      PROVE  (\A v \in Workers \ {w} : Rank(v)' = Rank(v)) /\ claimed' = claimed /\ Rank(w)' < Rank(w)
  <2>1. /\ \E r : RecordRun(w, r)
        /\ UNCHANGED <<claimed, dups>> /\ pc[w] \in {"exec", "retry"}
    BY <1>8 DEF Settle, SettleRetry, Record, Resumable
  <2>2. /\ \A v \in Workers \ {w} : Rank(v)' = Rank(v)
        /\ Rank(w)' <= 1 + MaxDuplicates /\ Rank(w)' \in Nat
    BY <2>1, RecordRank
  <2>3. Rank(w) = IF pc[w] = "exec" THEN MaxRank ELSE 1 + MaxDuplicates + job[w].left
    BY <2>1 DEF Rank, MaxRank
  <2>4. pc[w] = "retry" => job[w].left > 0
    BY DEF RetriesLeft
  <2>5. Rank(w) > 1 + MaxDuplicates /\ Rank(w) \in Nat
    BY <1>0, <2>1, <2>3, <2>4 DEF MaxRank
  <2>6. QED
    BY <1>0, <2>1, <2>2, <2>5
<1>9. MaxRank \in Nat
  BY <1>0 DEF MaxRank
<1>10. QED
  BY <1>2, <1>3, <1>4, <1>5, <1>6, <1>7, <1>8, <1>9 DEF WorkerStep

(* run() ends, whatever the runs and the strategy do: between two resumes  *)
(* a worker claims a slot of the budget or comes closer to its end, so the *)
(* workers take a bounded number of steps (the limits of duplicates and of *)
(* flake retries in orchestrator.ts:173-241).                              *)
THEOREM EveryStepAdvances == Spec => WorkersAdvance
<1>1. TypeOK /\ TypeOK' /\ RetriesLeft /\ RankBounded /\ RankBounded' /\ [Next]_vars =>
        [\A w \in Workers : WorkerStep(w) =>
           /\ \A v \in Workers \ {w} : Rank(v)' = Rank(v)
           /\ \/ claimed' = claimed + 1 /\ claimed < iterations /\ Rank(w)' \in 0..MaxRank
              \/ claimed' = claimed /\ Rank(w)' \in 0..(Rank(w) - 1)]_vars
  <2>1. SUFFICES ASSUME TypeOK, TypeOK', RetriesLeft, RankBounded, RankBounded',
                        NEW w \in Workers, WorkerStep(w)
        PROVE  /\ \A v \in Workers \ {w} : Rank(v)' = Rank(v)
               /\ \/ claimed' = claimed + 1 /\ claimed < iterations /\ Rank(w)' \in 0..MaxRank
                  \/ claimed' = claimed /\ Rank(w)' \in 0..(Rank(w) - 1)
    OBVIOUS
  <2>2. Rank(w) \in 0..MaxRank /\ Rank(w)' \in 0..MaxRank /\ MaxRank \in Nat
    <3>1. MaxRank' = MaxRank /\ MaxRank \in Nat
      BY ConstantsAssumption DEF MaxRank, SearchConstants
    <3>2. QED
      BY <2>1, <3>1 DEF RankBounded
  <2>3. /\ \A v \in Workers \ {w} : Rank(v)' = Rank(v)
        /\ \/ claimed' = claimed + 1 /\ claimed < iterations /\ Rank(w)' <= MaxRank
           \/ claimed' = claimed /\ Rank(w)' < Rank(w)
    BY <2>1, WorkerAdvances, ConstantsAssumption
  <2>4. QED
    BY <2>2, <2>3
<1>2. TypeOK /\ RetriesLeft => RankBounded
  BY RankType, ConstantsAssumption
<1>3. QED
  BY <1>1, <1>2, TypeCorrect, RetriesInv, PTL DEF Spec, WorkersAdvance

=============================================================================
