---------------------------- MODULE ServerProofs ----------------------------
(***************************************************************************)
(* The safety of verdicts, promises, admission, sign-in, the API's process *)
(* and the run explorer, for any number of runs, sessions, tenants, pages  *)
(* and starts: each part has an inductive invariant, and the steps of the  *)
(* others leave its variables alone.                                       *)
(***************************************************************************)
EXTENDS FaultsProofs

(* Every instance counts alike.                                            *)
LEMMA ServerCounts ==
  \A some : /\ V!Cardinality(some) = Cardinality(some)
            /\ A!Cardinality(some) = Cardinality(some)
            /\ I!Cardinality(some) = Cardinality(some)
            /\ E!Cardinality(some) = Cardinality(some)
BY DEF V!Cardinality, A!Cardinality, I!Cardinality, E!Cardinality, Cardinality

-----------------------------------------------------------------------------
(* Admission                                                               *)

AdmissionConstants ==
  /\ IsFiniteSet(Sessions) /\ MaxRunsPerSession \in Nat /\ MaxQueuedRuns \in Nat
  /\ MaxTierChanges \in Nat /\ \A t \in DOMAIN MaxRunsPerMonth : MaxRunsPerMonth[t] \in Nat

(* Disjoint sets are counted together.                                     *)
LEMMA DisjointCount ==
  ASSUME NEW a, NEW b, IsFiniteSet(a), IsFiniteSet(b), a \cap b = {}
  PROVE  /\ IsFiniteSet(a \cup b)
         /\ Cardinality(a) \in Nat /\ Cardinality(b) \in Nat
         /\ Cardinality(a \cup b) = Cardinality(a) + Cardinality(b)
<1>1. Cardinality(a) \in Nat /\ Cardinality(b) \in Nat
  BY FS_CardinalityType
<1>2. /\ IsFiniteSet(a \cup b)
      /\ Cardinality(a \cup b) = Cardinality(a) + Cardinality(b) - Cardinality(a \cap b)
  BY FS_Union
<1>3. Cardinality(a \cap b) = 0
  BY FS_EmptySet
<1>4. QED
  BY <1>1, <1>2, <1>3

LEMMA JobsFinite ==
  ASSUME NEW some, IsFiniteSet(some), NEW count, MaxRunsPerSession \in Nat
  PROVE  /\ IsFiniteSet(A!Jobs(some, count))
         /\ Cardinality(A!Jobs(some, count)) \in 0..(MaxRunsPerSession * Cardinality(some))
<1> DEFINE n == 1..MaxRunsPerSession
           c == Cardinality(some)
           j == A!Jobs(some, count)
<1>1. IsFiniteSet(n) /\ Cardinality(n) = MaxRunsPerSession
  BY FS_Interval
<1>2. c \in Nat
  BY FS_CardinalityType
<1>3. IsFiniteSet(some \X n) /\ Cardinality(some \X n) = c * Cardinality(n)
  <2> HIDE DEF n
  <2>1. QED
    BY <1>1, FS_Product
<1>4. j \subseteq some \X n
  BY DEF A!Jobs
<1> HIDE DEF n, c, j
<1>5. /\ IsFiniteSet(j) /\ Cardinality(j) <= Cardinality(some \X n)
  BY <1>3, <1>4, FS_Subset
<1>6. Cardinality(j) \in Nat
  BY <1>5, FS_CardinalityType
<1>7. c * Cardinality(n) = MaxRunsPerSession * c /\ MaxRunsPerSession * c \in Nat
  BY <1>1, <1>2
<1>8. QED
  BY <1>3, <1>5, <1>6, <1>7 DEF c, j

(* One more session adds its runs.                                         *)
LEMMA JobsAdd ==
  ASSUME NEW some, IsFiniteSet(some), NEW count, NEW s, s \notin some,
         MaxRunsPerSession \in Nat, count[s] \in 0..MaxRunsPerSession
  PROVE  /\ Cardinality(A!Jobs(some, count)) \in Nat
         /\ Cardinality(A!Jobs(some \cup {s}, count)) = Cardinality(A!Jobs(some, count)) + count[s]
<1> DEFINE n == count[s]
           own == {s} \X (1..n)
           j == A!Jobs(some, count)
<1>1. n \in Nat /\ n <= MaxRunsPerSession
  OBVIOUS
<1>2. A!Jobs(some \cup {s}, count) = j \cup own /\ j \cap own = {}
  <2>1. \A k \in 1..n : k \in 1..MaxRunsPerSession /\ k <= n
    BY <1>1
  <2>2. \A k \in 1..MaxRunsPerSession : k <= n => k \in 1..n
    BY <1>1
  <2>3. ASSUME NEW x \in A!Jobs(some \cup {s}, count) PROVE x \in j \cup own
    <3>1. PICK u \in some \cup {s}, k \in 1..MaxRunsPerSession :
            x = <<u, k>> /\ x[1] = u /\ x[2] = k
      BY DEF A!Jobs
    <3>2. k <= count[u]
      BY <3>1 DEF A!Jobs
    <3>3. CASE u \in some
      BY <3>1, <3>2, <3>3 DEF A!Jobs
    <3>4. CASE u = s
      BY <2>2, <3>1, <3>2, <3>4
    <3>5. QED
      BY <3>3, <3>4
  <2>4. ASSUME NEW x \in own PROVE x \in A!Jobs(some \cup {s}, count) /\ x \notin j
    <3>1. PICK k \in 1..n : x = <<s, k>> /\ x[1] = s /\ x[2] = k
      OBVIOUS
    <3>2. QED
      BY <2>1, <3>1 DEF A!Jobs
  <2>5. j \subseteq A!Jobs(some \cup {s}, count)
    BY DEF A!Jobs
  <2> HIDE DEF j, own
  <2>6. QED
    BY <2>3, <2>4, <2>5
<1>3. IsFiniteSet(own) /\ Cardinality(own) = n
  <2> DEFINE r == 1..n
  <2>1. IsFiniteSet(r) /\ Cardinality(r) = n
    BY <1>1, UptoMany
  <2>2. IsFiniteSet({s}) /\ Cardinality({s}) = 1
    BY FS_Singleton
  <2> HIDE DEF r
  <2>3. IsFiniteSet({s} \X r) /\ Cardinality({s} \X r) = 1 * Cardinality(r)
    BY <2>1, <2>2, FS_Product
  <2>4. QED
    BY <1>1, <2>1, <2>3 DEF r
<1>4. IsFiniteSet(j)
  BY JobsFinite
<1> HIDE DEF n, own, j
<1>5. Cardinality(j \cup own) = Cardinality(j) + Cardinality(own) /\ Cardinality(j) \in Nat
  BY <1>2, <1>3, <1>4, DisjointCount
<1>6. QED
  BY <1>2, <1>3, <1>5 DEF n, j

LEMMA JobsAlike ==
  ASSUME NEW some, NEW count, NEW other, \A s \in some : other[s] = count[s]
  PROVE  A!Jobs(some, other) = A!Jobs(some, count)
<1>1. \A x \in some \X (1..MaxRunsPerSession) : other[x[1]] = count[x[1]]
  OBVIOUS
<1>2. QED
  BY <1>1 DEF A!Jobs

(* The count of one session changes.                                       *)
LEMMA JobsChange ==
  ASSUME NEW some, IsFiniteSet(some), NEW s \in some, MaxRunsPerSession \in Nat,
         NEW count, NEW other, \A u \in some \ {s} : other[u] = count[u],
         count[s] \in 0..MaxRunsPerSession, other[s] \in 0..MaxRunsPerSession
  PROVE  /\ Cardinality(A!Jobs(some, count)) \in Nat
         /\ Cardinality(A!Jobs(some, other)) + count[s] = Cardinality(A!Jobs(some, count)) + other[s]
<1> DEFINE rest == some \ {s}
           a == Cardinality(A!Jobs(rest, count))
           b == Cardinality(A!Jobs(some, count))
           c == Cardinality(A!Jobs(some, other))
           m == count[s]
           n == other[s]
<1>1. IsFiniteSet(rest) /\ s \notin rest /\ rest \cup {s} = some
  BY FS_Subset
<1>2. A!Jobs(rest, other) = A!Jobs(rest, count)
  BY JobsAlike
<1> HIDE DEF rest
<1>3. a \in Nat /\ Cardinality(A!Jobs(rest \cup {s}, count)) = a + m
  BY <1>1, JobsAdd
<1>4. Cardinality(A!Jobs(rest \cup {s}, other)) = Cardinality(A!Jobs(rest, other)) + n
  BY <1>1, JobsAdd
<1>5. b = a + m /\ c = a + n /\ m \in Nat /\ n \in Nat
  <2>1. b = Cardinality(A!Jobs(rest \cup {s}, count))
        /\ c = Cardinality(A!Jobs(rest \cup {s}, other))
    BY <1>1
  <2>2. a = Cardinality(A!Jobs(rest, other))
    BY <1>2
  <2>3. m \in Nat /\ n \in Nat
    OBVIOUS
  <2>4. QED
    BY <1>3, <1>4, <2>1, <2>2, <2>3
<1> HIDE DEF a, b, c, m, n
<1>6. b \in Nat /\ c + m = b + n
  BY <1>3, <1>5
<1>7. QED
  BY <1>6 DEF b, c, m, n

-----------------------------------------------------------------------------
Paid == {s \in Sessions : stage[s] \in {"paid", "queued"}}
UnderWay == {"counted", "admitted", "paid"}

(* The plan pays for what was asked for, if anything is metered.           *)
UsageIsPaid ==
  /\ usage = IF selfHosted THEN 0 ELSE Cardinality(A!Jobs(Paid, request))
  /\ changes = 0 /\ tier # "PYTHIA" => usage <= MaxRunsPerMonth[tier]
  /\ \A s \in Sessions :
       /\ stage[s] \notin {"new", "limited"} => request[s] <= MaxRunsPerSession
       /\ stage[s] # "queued" => waiting[s] = 0

(* Without a race one session at a time is on its way into the queue, and  *)
(* there is room for its runs from the time it is admitted.                *)
OneUnderWay ==
  ~raced =>
    /\ A!Queued <= MaxQueuedRuns
    /\ \A s \in Sessions : stage[s] \in UnderWay =>
         /\ \A u \in Sessions \ {s} : stage[u] \notin UnderWay
         /\ A!Queued <= backlog[s]
         /\ stage[s] # "counted" => A!Queued + request[s] <= MaxQueuedRuns

AdmissionInv == A!TypeOK /\ UsageIsPaid /\ OneUnderWay

LEMMA AdmissionInit == ASSUME AdmissionConstants PROVE A!Init => AdmissionInv
<1>1. SUFFICES ASSUME A!Init PROVE AdmissionInv
  OBVIOUS
<1>2. /\ MaxRunsPerSession \in Nat /\ MaxQueuedRuns \in Nat /\ MaxTierChanges \in Nat
      /\ IsFiniteSet(Sessions) /\ \A t \in DOMAIN MaxRunsPerMonth : MaxRunsPerMonth[t] \in Nat
  BY DEF AdmissionConstants
<1>3. MaxRunsPerSession * Cardinality(Sessions) \in Nat
  <2>1. Cardinality(Sessions) \in Nat
    BY <1>2, FS_CardinalityType
  <2>2. QED
    BY <1>2, <2>1
<1>4. A!TypeOK
  <2>1. /\ 0 \in 0..(MaxRunsPerSession + 1) /\ 0 \in 0..MaxRunsPerSession
        /\ 0 \in 0..(MaxRunsPerSession * Cardinality(Sessions)) /\ 0 \in 0..MaxTierChanges
    BY <1>2, <1>3
  <2>2. QED
    BY <1>1, <2>1, ServerCounts DEF A!Init, A!TypeOK, A!Stages
<1>5. Paid = {}
  BY <1>1 DEF A!Init, Paid
<1>6. \A some : \A count : (\A s \in some : count[s] = 0) => Cardinality(A!Jobs(some, count)) = 0
  <2>1. ASSUME NEW some, NEW count, \A s \in some : count[s] = 0
        PROVE  A!Jobs(some, count) = {}
    BY <2>1 DEF A!Jobs
  <2>2. QED
    BY <2>1, FS_EmptySet
<1>7. Cardinality(A!Jobs(Paid, request)) = 0 /\ A!Queued = 0
  BY <1>1, <1>5, <1>6, ServerCounts DEF A!Init, A!Queued
<1>8. UsageIsPaid
  BY <1>1, <1>2, <1>7 DEF A!Init, UsageIsPaid, A!Tiers
<1>9. OneUnderWay
  BY <1>1, <1>2, <1>7 DEF A!Init, OneUnderWay, UnderWay
<1>10. QED
  BY <1>4, <1>8, <1>9 DEF AdmissionInv

LEMMA AdmissionTypes ==
  ASSUME AdmissionConstants, AdmissionInv, [A!Next]_A!admissionVars PROVE A!TypeOK'
<1>1. A!TypeOK /\ MaxRunsPerSession \in Nat /\ IsFiniteSet(Sessions)
  BY DEF AdmissionInv, AdmissionConstants
<1>2. ASSUME NEW s \in Sessions, NEW runs \in 1..(MaxRunsPerSession + 1), A!Request(s, runs)
      PROVE  A!TypeOK'
  <2>1. runs \in 0..(MaxRunsPerSession + 1)
    BY <1>1
  <2>2. request' \in [Sessions -> 0..(MaxRunsPerSession + 1)]
    BY <1>1, <1>2, <2>1, ServerCounts DEF A!Request, A!TypeOK
  <2>3. stage' \in [Sessions -> A!Stages]
    BY <1>1, <1>2, ServerCounts DEF A!Request, A!At, A!TypeOK, A!Stages
  <2>4. QED
    BY <1>1, <1>2, <2>2, <2>3, ServerCounts DEF A!Request, A!TypeOK
<1>3. ASSUME NEW s \in Sessions, A!Counted(s) PROVE A!TypeOK'
  <2>1. A!Queued \in 0..(MaxRunsPerSession * Cardinality(Sessions))
    BY <1>1, JobsFinite, ServerCounts DEF A!Queued
  <2>2. QED
    BY <1>1, <1>3, <2>1, ServerCounts DEF A!Counted, A!At, A!TypeOK, A!Stages
<1>4. ASSUME NEW s \in Sessions, A!Admit(s) \/ A!Enqueue(s) PROVE A!TypeOK'
  <2>1. stage[s] = "paid" => request[s] \in 0..MaxRunsPerSession
    BY <1>1, ServerCounts DEF AdmissionInv, UsageIsPaid, A!TypeOK
  <2>2. CASE A!Admit(s)
    BY <1>1, <2>2, ServerCounts DEF A!Admit, A!At, A!TypeOK, A!Stages
  <2>3. CASE A!Enqueue(s)
    BY <1>1, <2>1, <2>3, ServerCounts DEF A!Enqueue, A!At, A!TypeOK, A!Stages
  <2>4. QED
    BY <1>4, <2>2, <2>3
<1>5. ASSUME NEW s \in Sessions, A!Consume(s) PROVE A!TypeOK'
  <2>1. usage \in Nat /\ request[s] \in Nat
    BY <1>1, ServerCounts DEF A!TypeOK
  <2>2. usage' \in Nat
    <3>1. usage' = usage + request[s] \/ usage' = usage + 0 \/ usage' = usage
      BY <1>5 DEF A!Consume, A!RecordRun
    <3>2. QED
      BY <2>1, <3>1
  <2>3. QED
    BY <1>1, <1>5, <2>2, ServerCounts DEF A!Consume, A!At, A!TypeOK, A!Stages
<1>6. ASSUME NEW s \in Sessions, A!RunEnds(s) PROVE A!TypeOK'
  <2>1. waiting[s] - 1 \in 0..MaxRunsPerSession
    BY <1>1, <1>6, ServerCounts DEF A!RunEnds, A!TypeOK
  <2>2. waiting' \in [Sessions -> 0..MaxRunsPerSession]
    BY <1>1, <1>6, <2>1, ServerCounts DEF A!RunEnds, A!TypeOK
  <2>3. QED
    BY <1>1, <1>6, <2>2, ServerCounts DEF A!RunEnds, A!TypeOK
<1>7. ASSUME A!ChangeTier PROVE A!TypeOK'
  <2>1. changes' \in 0..MaxTierChanges
    BY <1>1, <1>7, ServerCounts DEF A!ChangeTier, A!TypeOK, AdmissionConstants
  <2>2. QED
    BY <1>1, <1>7, <2>1, ServerCounts DEF A!ChangeTier, A!TypeOK
<1>8. CASE UNCHANGED A!admissionVars
  BY <1>1, <1>8, ServerCounts DEF A!admissionVars, A!TypeOK
<1>9. QED
  BY <1>2, <1>3, <1>4, <1>5, <1>6, <1>7, <1>8 DEF A!Next

LEMMA UsageKeeps ==
  ASSUME AdmissionConstants, AdmissionInv, [A!Next]_A!admissionVars PROVE UsageIsPaid'
<1>1. /\ UsageIsPaid /\ MaxRunsPerSession \in Nat /\ IsFiniteSet(Sessions)
      /\ stage \in [Sessions -> A!Stages] /\ request \in [Sessions -> 0..(MaxRunsPerSession + 1)]
      /\ waiting \in [Sessions -> 0..MaxRunsPerSession] /\ usage \in Nat
      /\ changes \in 0..MaxTierChanges /\ MaxTierChanges \in Nat /\ tier \in A!Tiers
  BY ServerCounts DEF AdmissionInv, AdmissionConstants, A!TypeOK
<1>2. IsFiniteSet(Paid) /\ Paid \subseteq Sessions
  BY <1>1, FS_Subset DEF Paid
<1>3. ASSUME NEW s \in Sessions, NEW runs \in 1..(MaxRunsPerSession + 1), A!Request(s, runs)
      PROVE  UsageIsPaid'
  <2>1. /\ stage[s] = "new" /\ request' = [request EXCEPT ![s] = runs]
        /\ stage' = [stage EXCEPT ![s] = IF runs > MaxRunsPerSession THEN "limited" ELSE "counting"]
        /\ UNCHANGED <<selfHosted, tier, usage, waiting, changes>>
    BY <1>3 DEF A!Request, A!At
  <2>2. /\ \A u \in Sessions \ {s} : stage'[u] = stage[u] /\ request'[u] = request[u]
        /\ request'[s] = runs
        /\ stage'[s] = IF runs > MaxRunsPerSession THEN "limited" ELSE "counting"
    BY <1>1, <2>1
  <2>3. Paid' = Paid /\ s \notin Paid
    BY <2>1, <2>2 DEF Paid
  <2>4. A!Jobs(Paid, request') = A!Jobs(Paid, request)
    BY <1>2, <2>2, <2>3, JobsAlike
  <2>5. stage'[s] # "limited" => runs <= MaxRunsPerSession
    BY <1>1, <2>2
  <2>6. \A u \in Sessions :
          /\ stage'[u] \notin {"new", "limited"} => request'[u] <= MaxRunsPerSession
          /\ stage'[u] # "queued" => waiting[u] = 0
    BY <1>1, <2>1, <2>2, <2>5 DEF UsageIsPaid
  <2>7. Cardinality(A!Jobs(Paid', request')) = Cardinality(A!Jobs(Paid, request))
    BY <2>3, <2>4
  <2>8. QED
    BY <1>1, <2>1, <2>6, <2>7 DEF UsageIsPaid
<1>4. ASSUME NEW s \in Sessions, A!Counted(s) \/ A!Admit(s) \/ A!Enqueue(s) PROVE UsageIsPaid'
  <2>1. PICK to \in A!Stages :
          /\ stage' = [stage EXCEPT ![s] = to] /\ to \notin {"new"}
          /\ UNCHANGED <<selfHosted, tier, usage, request, changes>>
          /\ to \in {"paid", "queued"} <=> stage[s] \in {"paid", "queued"}
          /\ stage[s] \notin {"new", "limited"}
          /\ \/ waiting' = waiting /\ to # "queued" /\ stage[s] # "queued"
             \/ to = "queued" /\ waiting' = [waiting EXCEPT ![s] = request[s]]
    <3>1. CASE A!Counted(s)
      <4>1. "counted" \in A!Stages
        BY DEF A!Stages
      <4>2. QED
        BY <3>1, <4>1 DEF A!Counted, A!At
    <3>2. CASE A!Admit(s)
      <4>1. "limited" \in A!Stages /\ "admitted" \in A!Stages
        BY DEF A!Stages
      <4>2. QED
        BY <3>2, <4>1 DEF A!Admit, A!At
    <3>3. CASE A!Enqueue(s)
      <4>1. "queued" \in A!Stages
        BY DEF A!Stages
      <4>2. QED
        BY <3>3, <4>1 DEF A!Enqueue, A!At
    <3>4. QED
      BY <1>4, <3>1, <3>2, <3>3
  <2>2. stage'[s] = to /\ \A u \in Sessions \ {s} : stage'[u] = stage[u] /\ waiting'[u] = waiting[u]
    BY <1>1, <2>1
  <2>3. Paid' = Paid
    BY <2>1, <2>2 DEF Paid
  <2>4. \A u \in Sessions :
          /\ stage'[u] \notin {"new", "limited"} => request[u] <= MaxRunsPerSession
          /\ stage'[u] # "queued" => waiting'[u] = 0
    BY <1>1, <2>1, <2>2 DEF UsageIsPaid
  <2>5. QED
    BY <1>1, <2>1, <2>3, <2>4 DEF UsageIsPaid
<1>5. ASSUME NEW s \in Sessions, A!Consume(s) PROVE UsageIsPaid'
  <2>1. /\ stage[s] = "admitted" /\ UNCHANGED <<selfHosted, tier, request, waiting, changes>>
        /\ IF A!Affordable(request[s])
             THEN usage' = usage + (IF selfHosted THEN 0 ELSE request[s])
                  /\ stage' = [stage EXCEPT ![s] = "paid"]
             ELSE stage' = [stage EXCEPT ![s] = "payment required"] /\ usage' = usage
    BY <1>5 DEF A!Consume, A!RecordRun, A!At
  <2>2. s \notin Paid /\ request[s] \in 0..MaxRunsPerSession
    <3>1. request[s] \in 0..(MaxRunsPerSession + 1) /\ request[s] <= MaxRunsPerSession
      BY <1>1, <2>1 DEF UsageIsPaid
    <3>2. \A n \in 0..(MaxRunsPerSession + 1) : n <= MaxRunsPerSession => n \in 0..MaxRunsPerSession
      BY <1>1
    <3>3. s \notin Paid
      BY <2>1 DEF Paid
    <3>4. QED
      BY <3>1, <3>2, <3>3
  <2>3. stage'[s] \in {"paid", "payment required"} /\ \A u \in Sessions \ {s} : stage'[u] = stage[u]
    BY <1>1, <2>1
  <2>4. \A u \in Sessions :
          /\ stage'[u] \notin {"new", "limited"} => request[u] <= MaxRunsPerSession
          /\ stage'[u] # "queued" => waiting[u] = 0
    BY <1>1, <2>1, <2>3 DEF UsageIsPaid
  <2>5. CASE A!Affordable(request[s])
    <3>1. stage'[s] = "paid" /\ usage' = usage + (IF selfHosted THEN 0 ELSE request[s])
      BY <1>1, <2>1, <2>5
    <3>2. Paid' = Paid \cup {s}
      BY <2>3, <3>1 DEF Paid
    <3>3. Cardinality(A!Jobs(Paid \cup {s}, request)) = Cardinality(A!Jobs(Paid, request)) + request[s]
      BY <1>1, <1>2, <2>2, JobsAdd
    <3>4. changes = 0 /\ tier # "PYTHIA" => usage' <= MaxRunsPerMonth[tier]
      <4>1. CASE selfHosted
        BY <1>1, <3>1, <4>1 DEF UsageIsPaid
      <4>2. CASE ~selfHosted
        BY <2>5, <3>1, <4>2 DEF A!Affordable
      <4>3. QED
        BY <4>1, <4>2
    <3>5. usage' = IF selfHosted THEN 0 ELSE Cardinality(A!Jobs(Paid', request'))
      <4> DEFINE c == Cardinality(A!Jobs(Paid, request))
                 d == Cardinality(A!Jobs(Paid \cup {s}, request))
      <4>1. d = c + request[s] /\ usage = (IF selfHosted THEN 0 ELSE c)
            /\ Cardinality(A!Jobs(Paid', request')) = d
        BY <1>1, <2>1, <3>2, <3>3 DEF UsageIsPaid
      <4> HIDE DEF c, d
      <4>2. QED
        BY <3>1, <4>1
    <3>6. (changes = 0 /\ tier # "PYTHIA" => usage <= MaxRunsPerMonth[tier])'
      BY <2>1, <3>4
    <3>7. (\A u \in Sessions :
             /\ stage[u] \notin {"new", "limited"} => request[u] <= MaxRunsPerSession
             /\ stage[u] # "queued" => waiting[u] = 0)'
      BY <2>1, <2>4
    <3>8. (usage = IF selfHosted THEN 0 ELSE Cardinality(A!Jobs(Paid, request)))'
      BY <2>1, <3>5
    <3>9. QED
      BY <3>6, <3>7, <3>8 DEF UsageIsPaid
  <2>6. CASE ~A!Affordable(request[s])
    <3>1. stage'[s] = "payment required" /\ usage' = usage
      BY <1>1, <2>1, <2>6
    <3>2. Paid' = Paid
      BY <2>1, <2>2, <2>3, <3>1 DEF Paid
    <3>3. QED
      BY <1>1, <2>1, <2>4, <3>1, <3>2 DEF UsageIsPaid
  <2>7. QED
    BY <2>5, <2>6
<1>6. ASSUME NEW s \in Sessions, A!RunEnds(s) PROVE UsageIsPaid'
  <2>1. /\ waiting[s] > 0 /\ waiting' = [waiting EXCEPT ![s] = @ - 1]
        /\ UNCHANGED <<selfHosted, tier, usage, request, stage, changes>>
    BY <1>6 DEF A!RunEnds
  <2>2. stage[s] = "queued"
    BY <1>1, <2>1 DEF UsageIsPaid
  <2>3. \A u \in Sessions \ {s} : waiting'[u] = waiting[u]
    BY <1>1, <2>1
  <2>4. Paid' = Paid
    BY <2>1 DEF Paid
  <2>5. QED
    BY <1>1, <2>1, <2>2, <2>3, <2>4 DEF UsageIsPaid
<1>7. ASSUME A!ChangeTier PROVE UsageIsPaid'
  <2>1. changes' = changes + 1 /\ UNCHANGED <<selfHosted, usage, request, stage, waiting>>
    BY <1>7 DEF A!ChangeTier
  <2>2. changes' # 0
    BY <1>1, <2>1
  <2>3. Paid' = Paid
    BY <2>1 DEF Paid
  <2>4. QED
    BY <1>1, <2>1, <2>2, <2>3 DEF UsageIsPaid
<1>8. CASE UNCHANGED A!admissionVars
  BY <1>1, <1>8 DEF A!admissionVars, UsageIsPaid, Paid
<1>9. QED
  BY <1>3, <1>4, <1>5, <1>6, <1>7, <1>8 DEF A!Next

LEMMA OneKeeps ==
  ASSUME AdmissionConstants, AdmissionInv, [A!Next]_A!admissionVars PROVE OneUnderWay'
<1>1. /\ UsageIsPaid /\ MaxRunsPerSession \in Nat /\ IsFiniteSet(Sessions)
      /\ stage \in [Sessions -> A!Stages] /\ request \in [Sessions -> 0..(MaxRunsPerSession + 1)]
      /\ waiting \in [Sessions -> 0..MaxRunsPerSession] /\ MaxQueuedRuns \in Nat
      /\ backlog \in [Sessions -> 0..(MaxRunsPerSession * Cardinality(Sessions))]
      /\ OneUnderWay
  BY ServerCounts DEF AdmissionInv, AdmissionConstants, A!TypeOK
<1>2. A!Queued \in Nat /\ \A s \in Sessions : backlog[s] \in Nat /\ request[s] \in Nat
  <2>1. A!Queued \in Nat
    BY <1>1, JobsFinite, FS_CardinalityType, ServerCounts DEF A!Queued
  <2>2. \A k : \A n \in 0..k : n \in Nat
    OBVIOUS
  <2>3. QED
    BY <1>1, <2>1, <2>2
<1>3. ASSUME NEW s \in Sessions, NEW runs \in 1..(MaxRunsPerSession + 1), A!Request(s, runs)
      PROVE  OneUnderWay'
  <2>1. /\ stage[s] = "new" /\ request' = [request EXCEPT ![s] = runs]
        /\ stage' = [stage EXCEPT ![s] = IF runs > MaxRunsPerSession THEN "limited" ELSE "counting"]
        /\ UNCHANGED <<waiting, backlog, raced>>
    BY <1>3 DEF A!Request, A!At
  <2>2. /\ \A u \in Sessions \ {s} : stage'[u] = stage[u] /\ request'[u] = request[u]
        /\ stage'[s] \notin UnderWay
    BY <1>1, <2>1 DEF UnderWay
  <2>3. A!Queued' = A!Queued
    BY <2>1, ServerCounts DEF A!Queued
  <2>4. QED
    BY <1>1, <2>1, <2>2, <2>3 DEF OneUnderWay
<1>4. ASSUME NEW s \in Sessions, A!Counted(s) PROVE OneUnderWay'
  <2>1. /\ backlog' = [backlog EXCEPT ![s] = A!Queued] /\ stage' = [stage EXCEPT ![s] = "counted"]
        /\ raced' = (raced \/ \E u \in Sessions : stage[u] \in UnderWay)
        /\ UNCHANGED <<request, waiting>>
    BY <1>4 DEF A!Counted, A!At, UnderWay
  <2>2. stage'[s] = "counted" /\ \A u \in Sessions \ {s} : stage'[u] = stage[u]
    BY <1>1, <2>1
  <2>3. A!Queued' = A!Queued /\ backlog'[s] = A!Queued
    BY <1>1, <2>1, ServerCounts DEF A!Queued
  <2>4. SUFFICES ASSUME ~raced' PROVE OneUnderWay'
    BY DEF OneUnderWay
  <2>5. ~raced /\ \A u \in Sessions : stage[u] \notin UnderWay
    BY <2>1, <2>4
  <2>6. \A u \in Sessions : stage'[u] \in UnderWay => u = s
    BY <2>2, <2>5
  <2>7. QED
    BY <1>1, <1>2, <2>2, <2>3, <2>5, <2>6 DEF OneUnderWay
<1>5. ASSUME NEW s \in Sessions, A!Admit(s) \/ A!Consume(s) PROVE OneUnderWay'
  <2>1. /\ UNCHANGED <<request, waiting, backlog, raced>> /\ stage[s] \in UnderWay
        /\ \/ stage' = [stage EXCEPT ![s] = "limited"]
           \/ stage' = [stage EXCEPT ![s] = "payment required"]
           \/ /\ stage[s] = "counted" /\ stage' = [stage EXCEPT ![s] = "admitted"]
              /\ ~(backlog[s] + request[s] > MaxQueuedRuns)
           \/ stage[s] = "admitted" /\ stage' = [stage EXCEPT ![s] = "paid"]
    BY <1>5 DEF A!Admit, A!Consume, A!At, UnderWay
  <2>2. \A u \in Sessions \ {s} : stage'[u] = stage[u]
    BY <1>1, <2>1
  <2>3. /\ stage'[s] \in {"limited", "payment required", "admitted", "paid"}
        /\ stage'[s] = "admitted" => ~(backlog[s] + request[s] > MaxQueuedRuns)
        /\ stage'[s] = "paid" => stage[s] = "admitted"
    BY <1>1, <2>1
  <2>4. A!Queued' = A!Queued
    BY <2>1, ServerCounts DEF A!Queued
  <2>5. SUFFICES ASSUME ~raced PROVE OneUnderWay'
    BY <2>1 DEF OneUnderWay
  <2>6. /\ A!Queued <= MaxQueuedRuns /\ \A u \in Sessions \ {s} : stage[u] \notin UnderWay
        /\ A!Queued <= backlog[s]
        /\ stage[s] # "counted" => A!Queued + request[s] <= MaxQueuedRuns
    BY <1>1, <2>1, <2>5 DEF OneUnderWay
  <2>7. stage'[s] \in UnderWay => A!Queued + request[s] <= MaxQueuedRuns
    <3>1. A!Queued \in Nat /\ backlog[s] \in Nat /\ request[s] \in Nat /\ MaxQueuedRuns \in Nat
      BY <1>1, <1>2
    <3>2. ~(backlog[s] + request[s] > MaxQueuedRuns) => A!Queued + request[s] <= MaxQueuedRuns
      BY <2>6, <3>1
    <3>3. QED
      BY <2>3, <2>6, <3>2 DEF UnderWay
  <2>8. QED
    BY <2>1, <2>2, <2>4, <2>6, <2>7 DEF OneUnderWay
<1>6. ASSUME NEW s \in Sessions, A!Enqueue(s) PROVE OneUnderWay'
  <2>1. /\ stage[s] = "paid" /\ stage' = [stage EXCEPT ![s] = "queued"]
        /\ waiting' = [waiting EXCEPT ![s] = request[s]] /\ UNCHANGED <<request, backlog, raced>>
    BY <1>6 DEF A!Enqueue, A!At
  <2>2. stage'[s] = "queued" /\ \A u \in Sessions \ {s} : stage'[u] = stage[u] /\ waiting'[u] = waiting[u]
    BY <1>1, <2>1
  <2>3. waiting[s] = 0 /\ waiting'[s] = request[s] /\ request[s] \in 0..MaxRunsPerSession
    BY <1>1, <2>1 DEF UsageIsPaid
  <2>4. A!Queued' = A!Queued + request[s]
    <3> DEFINE after == waiting'
               n == Cardinality(A!Jobs(Sessions, after))
               r == request[s]
    <3>1. after[s] = r /\ waiting[s] = 0 /\ \A u \in Sessions \ {s} : after[u] = waiting[u]
      BY <2>2, <2>3
    <3>2. 0 \in 0..MaxRunsPerSession /\ r \in 0..MaxRunsPerSession /\ r \in Nat
      BY <1>1, <2>3
    <3> HIDE DEF after, r
    <3>3. /\ A!Queued \in Nat
          /\ Cardinality(A!Jobs(Sessions, after)) + waiting[s] =
               Cardinality(A!Jobs(Sessions, waiting)) + after[s]
      BY <1>1, <1>2, <3>1, <3>2, JobsChange
    <3>4. n + 0 = A!Queued + r /\ n \in Nat
      BY <1>1, <3>1, <3>3, JobsFinite, FS_CardinalityType, ServerCounts DEF A!Queued
    <3>5. A!Queued' = n
      BY ServerCounts DEF A!Queued, after
    <3> HIDE DEF n
    <3>6. n = A!Queued + r
      BY <3>2, <3>3, <3>4
    <3>7. QED
      BY <3>5, <3>6 DEF r
  <2>5. SUFFICES ASSUME ~raced PROVE OneUnderWay'
    BY <2>1 DEF OneUnderWay
  <2>6. A!Queued + request[s] <= MaxQueuedRuns /\ \A u \in Sessions \ {s} : stage[u] \notin UnderWay
    BY <1>1, <2>1, <2>5 DEF OneUnderWay, UnderWay
  <2>7. \A u \in Sessions : stage'[u] \notin UnderWay
    BY <2>2, <2>6 DEF UnderWay
  <2>8. QED
    BY <2>4, <2>6, <2>7 DEF OneUnderWay
<1>7. ASSUME NEW s \in Sessions, A!RunEnds(s) PROVE OneUnderWay'
  <2>1. /\ waiting[s] > 0 /\ waiting' = [waiting EXCEPT ![s] = @ - 1]
        /\ UNCHANGED <<request, stage, backlog, raced>>
    BY <1>7 DEF A!RunEnds
  <2>2. /\ waiting[s] \in 0..MaxRunsPerSession /\ waiting'[s] = waiting[s] - 1
        /\ waiting[s] - 1 \in 0..MaxRunsPerSession
        /\ \A u \in Sessions \ {s} : waiting'[u] = waiting[u]
    BY <1>1, <2>1
  <2>3. A!Queued' \in Nat /\ A!Queued' <= A!Queued
    <3> DEFINE after == waiting'
               n == Cardinality(A!Jobs(Sessions, after))
               w == waiting[s]
    <3>1. after[s] = w - 1 /\ w \in Nat /\ \A u \in Sessions \ {s} : after[u] = waiting[u]
      BY <1>1, <2>2
    <3>2. after[s] \in 0..MaxRunsPerSession /\ waiting[s] \in 0..MaxRunsPerSession
      BY <2>2
    <3> HIDE DEF after
    <3>3. Cardinality(A!Jobs(Sessions, after)) + waiting[s] =
            Cardinality(A!Jobs(Sessions, waiting)) + after[s]
      BY <1>1, <3>1, <3>2, JobsChange
    <3>4. n \in Nat /\ n + w = A!Queued + (w - 1)
      <4>1. n \in Nat
        BY <1>1, JobsFinite, FS_CardinalityType
      <4>2. QED
        BY <3>1, <3>3, <4>1, ServerCounts DEF A!Queued
    <3>5. A!Queued' = n
      BY ServerCounts DEF A!Queued, after
    <3> HIDE DEF n, w
    <3>6. n <= A!Queued
      BY <1>2, <3>1, <3>4
    <3>7. QED
      BY <3>4, <3>5, <3>6
  <2>4. SUFFICES ASSUME ~raced PROVE OneUnderWay'
    BY <2>1 DEF OneUnderWay
  <2>5. A!Queued' <= MaxQueuedRuns
    BY <1>1, <1>2, <2>3, <2>4 DEF OneUnderWay
  <2>6. ASSUME NEW u \in Sessions, stage[u] \in UnderWay
        PROVE  /\ \A v \in Sessions \ {u} : stage[v] \notin UnderWay
               /\ A!Queued' <= backlog[u]
               /\ stage[u] # "counted" => A!Queued' + request[u] <= MaxQueuedRuns
    <3>1. /\ \A v \in Sessions \ {u} : stage[v] \notin UnderWay
          /\ A!Queued <= backlog[u]
          /\ stage[u] # "counted" => A!Queued + request[u] <= MaxQueuedRuns
      BY <1>1, <2>4, <2>6 DEF OneUnderWay
    <3>2. backlog[u] \in Nat /\ request[u] \in Nat /\ MaxQueuedRuns \in Nat
      BY <1>1, <1>2
    <3>3. QED
      BY <1>2, <2>3, <3>1, <3>2
  <2>7. QED
    BY <2>1, <2>5, <2>6 DEF OneUnderWay
<1>8. ASSUME A!ChangeTier \/ UNCHANGED A!admissionVars PROVE OneUnderWay'
  BY <1>1, <1>8, ServerCounts DEF A!ChangeTier, A!admissionVars, OneUnderWay, A!Queued
<1>9. QED
  BY <1>3, <1>4, <1>5, <1>6, <1>7, <1>8 DEF A!Next

LEMMA AdmissionStep ==
  ASSUME AdmissionConstants, AdmissionInv, [A!Next]_A!admissionVars PROVE AdmissionInv'
BY AdmissionTypes, UsageKeeps, OneKeeps DEF AdmissionInv

LEMMA AdmissionGoal == ASSUME AdmissionInv PROVE A!LimitsHold
BY ServerCounts DEF AdmissionInv, UsageIsPaid, OneUnderWay, A!LimitsHold, Paid

-----------------------------------------------------------------------------
(* Verdicts                                                                *)

VerdictConstants ==
  IsFiniteSet(Runs) /\ None \notin {"reproduced", "intermittent", "not reproduced"}

(* The one timeline of a workflow that depends on nothing but the seed and *)
(* met no CLOCK and no PROCESS fault.                                      *)
AsSeeded == [decisions |-> "as seeded", at |-> "none", pid |-> None]

RecordsAreSeeded ==
  \A r \in V!Results :
    /\ records[r].status = "INTERMITTENT" => r \notin DOMAIN seeded
    /\ r \in DOMAIN seeded /\ r \notin clocked \cup killed /\ records[r].schedules =>
         records[r].status = seeded[r] /\ records[r].events \in {None, AsSeeded}

ReplaysAreSeeded ==
  \A r \in Runs :
    /\ replays[r] # None => records[r] # None
    /\ replays[r] \in {"not reproduced", "intermittent"} =>
         r \notin DOMAIN seeded \/ r \in clocked \cup killed \/ ~records[r].schedules

VerdictInv == V!TypeOK /\ RecordsAreSeeded /\ ReplaysAreSeeded

LEMMA VerdictInit == ASSUME VerdictConstants PROVE V!Init => VerdictInv
<1>1. SUFFICES ASSUME V!Init PROVE VerdictInv
  OBVIOUS
<1>2. V!TypeOK
  <2>1. PICK R \in SUBSET Runs : seeded \in [R -> V!Statuses]
    BY <1>1 DEF V!Init
  <2>2. DOMAIN seeded \subseteq Runs /\ \A r \in DOMAIN seeded : seeded[r] \in V!Statuses
    BY <2>1
  <2>3. /\ clocked \subseteq Runs /\ killed \subseteq Runs /\ verdict = None
        /\ records = [r \in Runs |-> None] /\ replays = [r \in Runs |-> None]
    BY <1>1 DEF V!Init
  <2>4. QED
    BY <2>2, <2>3 DEF V!TypeOK
<1>3. RecordsAreSeeded /\ ReplaysAreSeeded
  BY <1>1 DEF V!Init, RecordsAreSeeded, ReplaysAreSeeded, V!Results, VerdictConstants
<1>4. QED
  BY <1>2, <1>3 DEF VerdictInv

(* Executions of a run, what the retries make of them and what is recorded *)
LEMMA ExecutionsTyped ==
  ASSUME NEW r \in Runs, NEW when \in {"search", "retry", "replay"},
         \A q \in DOMAIN seeded : seeded[q] \in V!Statuses,
         NEW x \in V!Executions(r, when)
  PROVE  /\ x \in [status : V!Statuses, events : V!Events]
         /\ r \in DOMAIN seeded => x.status = seeded[r]
         /\ r \in DOMAIN seeded /\ r \notin clocked \cup killed => x.events = AsSeeded
<1> DEFINE at == IF r \in clocked THEN when ELSE "none"
           pid == IF r \in killed THEN Pids ELSE {None}
<1>1. /\ at \in {"search", "retry", "replay", "none"} /\ (r \notin clocked => at = "none")
      /\ pid \subseteq Pids \cup {None} /\ (r \notin killed => pid = {None})
  OBVIOUS
<1>2. ASSUME NEW d \in {"as seeded", "others"}, NEW e \in V!Timelines(r, d, when)
      PROVE  /\ e \in V!Events
             /\ d = "as seeded" /\ r \notin clocked \cup killed => e = AsSeeded
  <2>1. e \in [decisions : {d}, at : {at}, pid : pid]
    BY <1>2 DEF V!Timelines
  <2> HIDE DEF at, pid
  <2>2. /\ e = [decisions |-> e.decisions, at |-> e.at, pid |-> e.pid]
        /\ e.decisions = d /\ e.at = at /\ e.pid \in pid
    BY <2>1
  <2>3. e \in V!Events
    BY <1>1, <2>2 DEF V!Events
  <2>4. d = "as seeded" /\ r \notin clocked \cup killed => e = AsSeeded
    BY <1>1, <2>2 DEF AsSeeded
  <2>5. QED
    BY <2>3, <2>4
<1>3. CASE r \in DOMAIN seeded
  <2>1. x \in [status : {seeded[r]}, events : V!Timelines(r, "as seeded", when)]
    BY <1>3 DEF V!Executions
  <2>2. x = [status |-> x.status, events |-> x.events] /\ x.status = seeded[r]
        /\ x.events \in V!Timelines(r, "as seeded", when)
    BY <2>1
  <2>3. x.events \in V!Events /\ (r \notin clocked \cup killed => x.events = AsSeeded)
    BY <1>2, <2>2
  <2>4. seeded[r] \in V!Statuses
    BY <1>3
  <2>5. QED
    BY <2>2, <2>3, <2>4
<1>4. CASE r \notin DOMAIN seeded
  <2>1. x \in [status : V!Statuses, events : V!Timelines(r, "as seeded", when)
                                               \cup V!Timelines(r, "others", when)]
    BY <1>4 DEF V!Executions
  <2>2. x = [status |-> x.status, events |-> x.events] /\ x.status \in V!Statuses
        /\ x.events \in V!Timelines(r, "as seeded", when) \cup V!Timelines(r, "others", when)
    BY <2>1
  <2>3. x.events \in V!Events
    BY <1>2, <2>2
  <2>4. QED
    BY <1>4, <2>2, <2>3
<1>5. QED
  BY <1>3, <1>4

LEMMA ConfirmedTyped ==
  ASSUME NEW r \in Runs, \A q \in DOMAIN seeded : seeded[q] \in V!Statuses,
         NEW first \in V!Executions(r, "search"), NEW o \in V!Confirmed(r, first)
  PROVE  /\ o \in [status : V!Statuses \cup {"INTERMITTENT"}, events : V!Events]
         /\ r \in DOMAIN seeded => o.status = seeded[r]
         /\ r \in DOMAIN seeded /\ r \notin clocked \cup killed => o.events = AsSeeded
<1>1. /\ first \in [status : V!Statuses, events : V!Events]
      /\ r \in DOMAIN seeded => first.status = seeded[r]
      /\ r \in DOMAIN seeded /\ r \notin clocked \cup killed => first.events = AsSeeded
  BY ExecutionsTyped
<1>2. CASE o = first
  BY <1>1, <1>2
<1>3. CASE o # first
  <2> DEFINE becomes(retry) ==
        CASE retry.status = "COMPLETED" -> {[first EXCEPT !.status = "INTERMITTENT"]}
          [] retry.status = "ERRORED" -> {retry}
          [] retry.status = "FAILED" -> {first}
  <2>1. first.status = "FAILED" /\ o \in UNION {becomes(retry) : retry \in V!Executions(r, "retry")}
    BY <1>3 DEF V!Confirmed
  <2>2. PICK retry \in V!Executions(r, "retry") : o \in becomes(retry)
    BY <2>1
  <2>3. /\ retry \in [status : V!Statuses, events : V!Events]
        /\ r \in DOMAIN seeded => retry.status = seeded[r]
        /\ r \in DOMAIN seeded /\ r \notin clocked \cup killed => retry.events = AsSeeded
    BY ExecutionsTyped
  <2>4. retry.status \in {"COMPLETED", "FAILED", "ERRORED"}
    BY <2>3 DEF V!Statuses
  <2>5. CASE retry.status = "COMPLETED"
    <3>1. becomes(retry) = {[first EXCEPT !.status = "INTERMITTENT"]}
      BY <2>5
    <3>2. o = [first EXCEPT !.status = "INTERMITTENT"]
      BY <2>2, <3>1
    <3>3. r \notin DOMAIN seeded
      BY <1>1, <2>1, <2>3, <2>5
    <3>4. QED
      BY <1>1, <3>2, <3>3
  <2>6. CASE retry.status = "ERRORED"
    <3>1. becomes(retry) = {retry}
      BY <2>6
    <3>2. QED
      BY <2>2, <2>3, <3>1
  <2>7. CASE retry.status = "FAILED"
    <3>1. becomes(retry) = {first}
      BY <2>7
    <3>2. QED
      BY <2>2, <1>3, <3>1
  <2>8. QED
    BY <2>4, <2>5, <2>6, <2>7
<1>4. QED
  BY <1>2, <1>3

(* What is recorded of a run.                                              *)
Records == [status : V!Statuses \cup {"INTERMITTENT"}, schedules : BOOLEAN,
            events : V!Events \cup {None}]

LEMMA RecordRunKeeps ==
  ASSUME VerdictConstants, VerdictInv, NEW r \in Runs, V!RecordRun(r)
  PROVE  VerdictInv'
<1>1. /\ verdict = None /\ records[r] = None
      /\ UNCHANGED <<seeded, clocked, killed, verdict, replays>>
  BY DEF V!RecordRun
<1>2. V!TypeOK /\ \A q \in DOMAIN seeded : seeded[q] \in V!Statuses
  BY DEF VerdictInv, V!TypeOK
<1>3. PICK record : /\ records' = [records EXCEPT ![r] = record]
                    /\ record \in {V!Malformed} \cup {V!Recorded(o) : o \in
                                    UNION {V!Confirmed(r, e) : e \in V!Executions(r, "search")}}
  BY DEF V!RecordRun
<1>4. /\ record \in Records
      /\ record.status = "INTERMITTENT" => r \notin DOMAIN seeded
      /\ r \in DOMAIN seeded /\ r \notin clocked \cup killed /\ record.schedules =>
           record.status = seeded[r] /\ record.events \in {None, AsSeeded}
  <2>1. CASE record = V!Malformed
    <3>1. record = [status |-> "ERRORED", schedules |-> FALSE, events |-> None]
      BY <2>1 DEF V!Malformed
    <3>2. "ERRORED" \in V!Statuses \cup {"INTERMITTENT"} /\ None \in V!Events \cup {None}
      BY DEF V!Statuses
    <3>3. record \in Records
      BY <3>1, <3>2 DEF Records
    <3>4. QED
      BY <3>1, <3>3
  <2>2. CASE record # V!Malformed
    <3>0. PICK first \in V!Executions(r, "search") :
            record \in {V!Recorded(o) : o \in V!Confirmed(r, first)}
      BY <1>3, <2>2
    <3>1. PICK o \in V!Confirmed(r, first) : record = V!Recorded(o)
      BY <3>0
    <3>2. /\ o \in [status : V!Statuses \cup {"INTERMITTENT"}, events : V!Events]
          /\ r \in DOMAIN seeded => o.status = seeded[r]
          /\ r \in DOMAIN seeded /\ r \notin clocked \cup killed => o.events = AsSeeded
      BY <1>2, ConfirmedTyped
    <3> DEFINE former == IF o.status = "COMPLETED" THEN None ELSE o.events
    <3>3. former \in V!Events \cup {None}
          /\ (r \in DOMAIN seeded /\ r \notin clocked \cup killed => former \in {None, AsSeeded})
      BY <3>2
    <3>4. record = [status |-> o.status, schedules |-> TRUE, events |-> former]
      BY <3>1 DEF V!Recorded
    <3> HIDE DEF former
    <3>5. record \in Records
      BY <3>2, <3>3, <3>4 DEF Records
    <3>6. r \in DOMAIN seeded => seeded[r] # "INTERMITTENT"
      BY <1>2 DEF V!Statuses
    <3>7. QED
      BY <3>2, <3>3, <3>4, <3>5, <3>6
  <2>3. QED
    BY <2>1, <2>2
<1>5. records \in [Runs -> Records \cup {None}]
  BY <1>2 DEF V!TypeOK, Records
<1>6. /\ records' \in [Runs -> Records \cup {None}] /\ records'[r] = record
      /\ \A q \in Runs \ {r} : records'[q] = records[q]
  BY <1>3, <1>4, <1>5
<1>7. V!TypeOK'
  BY <1>1, <1>2, <1>6 DEF V!TypeOK, Records
<1>8. RecordsAreSeeded'
  BY <1>1, <1>4, <1>6 DEF VerdictInv, RecordsAreSeeded, V!Results
<1>9. ReplaysAreSeeded'
  <2>1. replays[r] = None
    BY <1>1 DEF VerdictInv, ReplaysAreSeeded
  <2>2. QED
    BY <1>1, <1>6, <2>1 DEF VerdictInv, ReplaysAreSeeded, VerdictConstants
<1>10. QED
  BY <1>7, <1>8, <1>9 DEF VerdictInv

LEMMA ReplayKeeps ==
  ASSUME VerdictConstants, VerdictInv, NEW r \in Runs, V!Replay(r)
  PROVE  VerdictInv'
<1>1. /\ records[r] # None /\ UNCHANGED <<seeded, clocked, killed, records, verdict>>
  BY DEF V!Replay
<1>2. V!TypeOK /\ \A q \in DOMAIN seeded : seeded[q] \in V!Statuses
  BY DEF VerdictInv, V!TypeOK
<1>3. PICK now : /\ now \in IF records[r].schedules THEN V!Executions(r, "replay") ELSE V!NoFaults
                 /\ replays' = [replays EXCEPT ![r] = V!Judged(records[r], now)]
  BY DEF V!Replay
<1>4. V!Judged(records[r], now) \in {"reproduced", "intermittent", "not reproduced"}
  BY DEF V!Judged
<1>5. /\ replays' \in [Runs -> {None, "reproduced", "intermittent", "not reproduced"}]
      /\ replays'[r] = V!Judged(records[r], now)
      /\ \A q \in Runs \ {r} : replays'[q] = replays[q]
  BY <1>2, <1>3, <1>4 DEF V!TypeOK
<1>6. r \in DOMAIN seeded /\ r \notin clocked \cup killed /\ records[r].schedules
        => V!Judged(records[r], now) = "reproduced"
  <2>1. SUFFICES ASSUME r \in DOMAIN seeded, r \notin clocked \cup killed, records[r].schedules
                 PROVE  V!Judged(records[r], now) = "reproduced"
    OBVIOUS
  <2>2. now.status = seeded[r] /\ now.events = AsSeeded
    BY <1>2, <1>3, <2>1, ExecutionsTyped
  <2>3. records[r].status = seeded[r] /\ records[r].events \in {None, AsSeeded}
    BY <1>1, <2>1 DEF VerdictInv, RecordsAreSeeded, V!Results
  <2>4. QED
    BY <2>2, <2>3 DEF V!Judged, V!StatusMatches, V!TimelineDiffers
<1>7. V!TypeOK'
  BY <1>1, <1>2, <1>5 DEF V!TypeOK
<1>8. RecordsAreSeeded'
  BY <1>1 DEF VerdictInv, RecordsAreSeeded, V!Results
<1>9. ReplaysAreSeeded'
  BY <1>1, <1>5, <1>6 DEF VerdictInv, ReplaysAreSeeded
<1>10. QED
  BY <1>7, <1>8, <1>9 DEF VerdictInv

LEMMA VerdictStep ==
  ASSUME VerdictConstants, VerdictInv, [V!Next]_V!verdictVars PROVE VerdictInv'
<1>1. CASE UNCHANGED V!verdictVars
  BY <1>1 DEF V!verdictVars, VerdictInv, V!TypeOK, RecordsAreSeeded, ReplaysAreSeeded, V!Results
<1>2. CASE V!EndSession
  <2>1. verdict' \in {"held", "broken"} /\ UNCHANGED <<seeded, clocked, killed, records, replays>>
    BY <1>2 DEF V!EndSession
  <2>2. QED
    BY <2>1 DEF VerdictInv, V!TypeOK, RecordsAreSeeded, ReplaysAreSeeded, V!Results
<1>3. QED
  BY <1>1, <1>2, RecordRunKeeps, ReplayKeeps DEF V!Next

LEMMA VerdictGoal == ASSUME VerdictConstants, VerdictInv PROVE V!VerdictsAgree
<1> DEFINE f == V!With({"FAILED"})
           c == V!With({"COMPLETED"})
           x == V!With({"ERRORED"})
           t == V!With({"INTERMITTENT"})
           n == V!SessionFailures
<1>1. \A r \in V!Results : records[r].status \in {"FAILED", "COMPLETED", "ERRORED", "INTERMITTENT"}
  BY DEF VerdictInv, V!TypeOK, V!Results, V!Statuses
<1>2. IsFiniteSet(V!Results)
  BY FS_Subset DEF VerdictConstants, V!Results
<1>3. IsFiniteSet(f) /\ IsFiniteSet(c) /\ IsFiniteSet(x) /\ IsFiniteSet(t)
  <2>1. f \subseteq V!Results /\ c \subseteq V!Results /\ x \subseteq V!Results /\ t \subseteq V!Results
    BY DEF V!With
  <2> HIDE DEF f, c, x, t
  <2>2. QED
    BY <1>2, <2>1, FS_Subset
<1>4. /\ f \cap t = {} /\ (f \cup t) \cap x = {} /\ (f \cup t \cup x) \cap c = {}
      /\ V!Results = f \cup t \cup x \cup c
      /\ {r \in V!Results : records[r].status \notin {"ERRORED", "COMPLETED"}} = f \cup t
  BY <1>1 DEF V!With
<1>5. n \in {0, 1}
  BY DEF V!SessionFailures
<1>6. /\ V!Summary.totalRuns = Cardinality(V!Results) /\ V!Summary.failures = Cardinality(f) + n
      /\ V!Summary.passes = Cardinality(c) /\ V!Summary.errored = Cardinality(x)
      /\ V!Summary.intermittent = Cardinality(t)
  BY ServerCounts DEF V!Summary
<1>7. /\ V!JUnit.errors = Cardinality(x)
      /\ V!JUnit.failures = Cardinality(f \cup t) + n
  BY <1>4, ServerCounts DEF V!JUnit
<1>8. /\ V!Bad(FALSE) = V!Summary.failures + V!Summary.errored + V!Summary.intermittent
      /\ V!Bad(TRUE) = V!Summary.failures + V!Summary.errored + 0
  BY DEF V!Bad
<1> HIDE DEF f, c, x, t, n
<1>9. /\ Cardinality(f) \in Nat /\ Cardinality(t) \in Nat
      /\ Cardinality(x) \in Nat /\ Cardinality(c) \in Nat
      /\ Cardinality(f \cup t) = Cardinality(f) + Cardinality(t)
      /\ Cardinality(V!Results) = Cardinality(f) + Cardinality(t) + Cardinality(x) + Cardinality(c)
  <2>1. /\ Cardinality(f) \in Nat /\ Cardinality(t) \in Nat
        /\ Cardinality(x) \in Nat /\ Cardinality(c) \in Nat
        /\ Cardinality(f \cup t) = Cardinality(f) + Cardinality(t)
        /\ Cardinality(f \cup t \cup x \cup c) =
             Cardinality(f) + Cardinality(t) + Cardinality(x) + Cardinality(c)
    <3>1. f \cap t = {} /\ (f \cup t) \cap x = {} /\ (f \cup t \cup x) \cap c = {}
      BY <1>4
    <3>2. /\ IsFiniteSet(f \cup t) /\ Cardinality(f) \in Nat /\ Cardinality(t) \in Nat
          /\ Cardinality(f \cup t) = Cardinality(f) + Cardinality(t)
      BY <1>3, <3>1, DisjointCount
    <3>3. /\ IsFiniteSet(f \cup t \cup x) /\ Cardinality(x) \in Nat
          /\ Cardinality(f \cup t \cup x) = Cardinality(f \cup t) + Cardinality(x)
      BY <1>3, <3>1, <3>2, DisjointCount
    <3>4. /\ Cardinality(c) \in Nat
          /\ Cardinality(f \cup t \cup x \cup c) = Cardinality(f \cup t \cup x) + Cardinality(c)
      BY <1>3, <3>1, <3>3, DisjointCount
    <3>5. QED
      BY <3>2, <3>3, <3>4
  <2>2. QED
    BY <1>4, <2>1
<1>10. /\ V!Bad(FALSE) = V!JUnit.failures + V!JUnit.errors
       /\ V!Bad(TRUE) > 0 => V!JUnit.failures + V!JUnit.errors > 0
       /\ V!Bad(FALSE) = 0 => V!Summary.passes = V!Summary.totalRuns
       /\ V!Summary.totalRuns + n =
            V!Summary.passes + V!Summary.failures + V!Summary.errored + V!Summary.intermittent
  <2> DEFINE nf == Cardinality(f)
             nt == Cardinality(t)
             nx == Cardinality(x)
             nc == Cardinality(c)
             strict == V!Bad(FALSE)
             lenient == V!Bad(TRUE)
  <2>1. nf \in Nat /\ nt \in Nat /\ nx \in Nat /\ nc \in Nat /\ n \in Nat
    BY <1>5, <1>9
  <2>2. /\ V!Summary.totalRuns = nf + nt + nx + nc /\ V!Summary.failures = nf + n
        /\ V!Summary.passes = nc /\ V!Summary.errored = nx /\ V!Summary.intermittent = nt
    BY <1>6, <1>9
  <2>3. V!JUnit.errors = nx /\ V!JUnit.failures = nf + nt + n
    BY <1>7, <1>9
  <2>4. strict = nf + n + nx + nt /\ lenient = nf + n + nx + 0
    BY <1>8, <2>2
  <2> HIDE DEF nf, nt, nx, nc, strict, lenient
  <2>5. strict = V!JUnit.failures + V!JUnit.errors
    BY ONLY <2>1, <2>3, <2>4
  <2>6. lenient > 0 => V!JUnit.failures + V!JUnit.errors > 0
    BY ONLY <2>1, <2>3, <2>4
  <2>7. strict = 0 => V!Summary.passes = V!Summary.totalRuns
    BY ONLY <2>1, <2>2, <2>4
  <2>8. V!Summary.totalRuns + n =
          V!Summary.passes + V!Summary.failures + V!Summary.errored + V!Summary.intermittent
    BY ONLY <2>1, <2>2
  <2>9. QED
    BY <2>5, <2>6, <2>7, <2>8 DEF strict, lenient
<1>11. \A r \in V!Results :
         /\ records[r].status = "INTERMITTENT" => r \notin DOMAIN seeded
         /\ replays[r] \in {"not reproduced", "intermittent"} =>
              r \notin DOMAIN seeded \/ r \in clocked \cup killed \/ ~records[r].schedules
  BY DEF VerdictInv, RecordsAreSeeded, ReplaysAreSeeded, V!Results
<1>12. QED
  BY <1>10, <1>11 DEF V!VerdictsAgree, n

-----------------------------------------------------------------------------
(* The API and its demo data                                               *)

ApiConstants ==
  /\ MaxStarts \in Nat
  /\ \E n \in Nat : Demo = 1..n
  /\ Demo \cap Real = {}

(* Demo sessions are only created in an empty store, one after the other,  *)
(* and none is removed before each has been tried.                         *)
SeedingIsOrderly ==
  /\ phase = "seeding" => /\ isDemoEnv /\ kept \cap Real = {}
                          /\ 1..created \subseteq kept \cup missed
  /\ phase \in {"sweeping", "binding", "listening"} /\ isDemoEnv =>
       Demo \subseteq kept \cup swept \cup missed

ApiInv == S!TypeOK /\ SeedingIsOrderly

LEMMA ApiGoal == ApiInv => S!DemoApart
BY DEF ApiInv, SeedingIsOrderly, S!DemoApart

LEMMA ApiInit == ASSUME ApiConstants PROVE S!Init => ApiInv
<1>1. SUFFICES ASSUME S!Init PROVE ApiInv
  OBVIOUS
<1>2. 0 \in 0..MaxStarts
  BY DEF ApiConstants
<1>3. S!TypeOK
  BY <1>1, <1>2 DEF S!Init, S!TypeOK
<1>4. SeedingIsOrderly
  BY <1>1 DEF S!Init, SeedingIsOrderly
<1>5. QED
  BY <1>3, <1>4 DEF ApiInv

LEMMA ApiTypes == ASSUME ApiConstants PROVE S!TypeOK /\ [S!Next]_S!apiVars => S!TypeOK'
<1>1. SUFFICES ASSUME S!TypeOK, [S!Next]_S!apiVars PROVE S!TypeOK'
  OBVIOUS
<1> USE DEF S!config, S!AfterSeeding
<1>2. CASE UNCHANGED S!apiVars
  BY <1>1, <1>2 DEF S!TypeOK, S!apiVars
<1>3. CASE S!StartServer
  <2>1. starts' \in 0..MaxStarts
    BY <1>1, <1>3 DEF S!TypeOK, S!StartServer, ApiConstants
  <2>2. isDemoEnv' \in BOOLEAN /\ missed' \subseteq Demo
    BY <1>3 DEF S!StartServer, S!ShouldSeedDemo
  <2>3. phase' \in {"down", "seeding", "sweeping", "binding", "listening", "closing"}
    BY <1>3 DEF S!StartServer
  <2>4. QED
    BY <1>1, <1>3, <2>1, <2>2, <2>3 DEF S!TypeOK, S!StartServer
<1>4. CASE S!Seed
  BY <1>1, <1>4 DEF S!TypeOK, S!Seed
<1>5. CASE S!SeedingEnds
  BY <1>1, <1>5 DEF S!TypeOK, S!SeedingEnds
<1>6. CASE S!RunSweep
  BY <1>1, <1>6 DEF S!TypeOK, S!RunSweep
<1>7. CASE S!Listening
  BY <1>1, <1>7 DEF S!TypeOK, S!Listening
<1>8. CASE S!RunDemo
  BY <1>1, <1>8 DEF S!TypeOK, S!RunDemo
<1>9. CASE S!Shutdown
  BY <1>1, <1>9 DEF S!TypeOK, S!Shutdown
<1>10. CASE S!Exit
  BY <1>1, <1>10 DEF S!TypeOK, S!Exit
<1>11. ASSUME NEW s \in Real, S!Upload(s) PROVE S!TypeOK'
  BY <1>1, <1>11 DEF S!TypeOK, S!Upload
<1>12. ASSUME NEW s \in kept, S!Ages(s) PROVE S!TypeOK'
  BY <1>1, <1>12 DEF S!TypeOK, S!Ages
<1>13. QED
  BY <1>1, <1>2, <1>3, <1>4, <1>5, <1>6, <1>7, <1>8, <1>9, <1>10, <1>11, <1>12 DEF S!Next

LEMMA ApiStep == ASSUME ApiConstants PROVE ApiInv /\ [S!Next]_S!apiVars => ApiInv'
<1>1. SUFFICES ASSUME ApiInv, [S!Next]_S!apiVars PROVE SeedingIsOrderly'
  BY ApiTypes DEF ApiInv
<1>2. S!TypeOK /\ SeedingIsOrderly
  BY <1>1 DEF ApiInv
<1> USE DEF S!config, S!AfterSeeding, SeedingIsOrderly
<1>3. CASE UNCHANGED S!apiVars
  BY <1>2, <1>3 DEF S!apiVars
<1>4. CASE S!StartServer
  <2>1. /\ UNCHANGED kept /\ created' = 0
        /\ phase' = "seeding" <=> isDemoEnv'
        /\ isDemoEnv' = S!ShouldSeedDemo(demoMode')
        /\ phase' \in {"seeding", "sweeping", "binding"}
    BY <1>4 DEF S!StartServer
  <2>2. S!ShouldSeedDemo(demoMode') => kept = {}
    BY DEF S!ShouldSeedDemo
  <2>3. 1..created' = {}
    BY <2>1
  <2>4. QED
    BY <1>2, <2>1, <2>2, <2>3
<1>5. CASE S!Seed
  <2>1. created \in Nat /\ created + 1 \in Demo
    BY <1>2, <1>5 DEF S!Seed, S!TypeOK, ApiConstants
  <2>2. 1..(created + 1) = (1..created) \cup {created + 1}
    BY <2>1
  <2>3. created + 1 \notin Real
    BY <2>1 DEF ApiConstants
  <2>4. QED
    BY <1>2, <1>5, <2>1, <2>2, <2>3 DEF S!Seed
<1>6. CASE S!SeedingEnds
  <2>1. PICK n \in Nat : Demo = 1..n
    BY DEF ApiConstants
  <2>2. created \in 0..n /\ created + 1 \notin 1..n
    BY <1>2, <1>6, <2>1 DEF S!TypeOK, S!SeedingEnds, S!AllSeeded
  <2>3. Demo = 1..created
    BY <2>1, <2>2
  <2>4. QED
    BY <1>2, <1>6, <2>3 DEF S!SeedingEnds, S!AllSeeded
<1>7. CASE S!RunSweep
  BY <1>2, <1>7 DEF S!RunSweep
<1>8. CASE S!Listening
  BY <1>2, <1>8 DEF S!Listening
<1>9. CASE S!RunDemo \/ S!Shutdown
  BY <1>2, <1>9 DEF S!RunDemo, S!Shutdown
<1>10. CASE S!Exit
  BY <1>2, <1>10 DEF S!Exit
<1>11. ASSUME NEW s \in Real, S!Upload(s) PROVE SeedingIsOrderly'
  BY <1>2, <1>11 DEF S!Upload, ApiConstants
<1>12. ASSUME NEW s \in kept, S!Ages(s) PROVE SeedingIsOrderly'
  BY <1>2, <1>12 DEF S!Ages
<1>13. QED
  BY <1>1, <1>3, <1>4, <1>5, <1>6, <1>7, <1>8, <1>9, <1>10, <1>11, <1>12 DEF S!Next

-----------------------------------------------------------------------------
(* Promises and their snapshot                                             *)

PromiseConstants == None \notin Evidence /\ None \notin BOOLEAN /\ MaxSessions \in Nat \ {0}

Stops(res) == IF combinator = "allOf" THEN res = "throws" ELSE J!Passes(res) \/ J!Crashes(res)

TwoPromises ==
  /\ combinator \in {"allOf", "anyOf"}
  /\ promises \in {<<"snapshot", "other">>, <<"other", "snapshot">>}

(* None of the results but the last ends the evaluation.                   *)
ResultsFollow ==
  \A r \in Runs :
    /\ Len(results[r]) <= 2
    /\ Len(results[r]) = 2 => ~Stops(results[r][1])
    /\ judged[r] # None => J!Ended(results[r]) /\ judged[r] = J!Combined(results[r])

(* The file holds what the last session that wrote it wrote last, and a    *)
(* session that does not update it compares with what it finds.            *)
SnapshotIsKept ==
  /\ IF written = {} THEN snapFile = None ELSE snapFile \in written
  /\ ~updateSnapshots =>
       \A r \in Runs : \A i \in 1..Len(results[r]) :
         promises[i] = "snapshot" /\ results[r][i] \in {"passes", "fails"} =>
           (results[r][i] = "passes" <=> evidence[r] = snapFile)

PromiseInv == J!TypeOK /\ TwoPromises /\ ResultsFollow /\ SnapshotIsKept

LEMMA PromiseInit == ASSUME PromiseConstants PROVE J!Init => PromiseInv
<1>1. SUFFICES ASSUME J!Init PROVE PromiseInv
  OBVIOUS
<1>2. <<>> \in Seq(J!Given) /\ Len(<<>>) = 0
  OBVIOUS
<1>3. TwoPromises /\ promises \in Seq({"snapshot", "other"})
  <2>1. /\ <<"snapshot", "other">> \in Seq({"snapshot", "other"})
        /\ <<"other", "snapshot">> \in Seq({"snapshot", "other"})
    OBVIOUS
  <2>2. QED
    BY <1>1, <2>1 DEF J!Init, TwoPromises
<1>4. J!TypeOK
  <2>1. /\ judged \in [Runs -> BOOLEAN \cup {None}] /\ updateSnapshots \in BOOLEAN
        /\ results \in [Runs -> Seq(J!Given)] /\ evidence \in [Runs -> Evidence]
    BY <1>1, <1>2 DEF J!Init
  <2>2. session \in 1..MaxSessions /\ writer \in 0..session
    BY <1>1 DEF J!Init, PromiseConstants
  <2>3. QED
    BY <1>1, <1>3, <2>1, <2>2 DEF J!Init, J!TypeOK, TwoPromises
<1>5. ResultsFollow
  BY <1>1, <1>2 DEF J!Init, ResultsFollow
<1>6. SnapshotIsKept
  BY <1>1, <1>2 DEF J!Init, SnapshotIsKept
<1>7. QED
  BY <1>3, <1>4, <1>5, <1>6 DEF PromiseInv

(* What evaluate() appends, and to what.                                   *)
LEMMA EvaluateAppends ==
  ASSUME PromiseInv, NEW r \in Runs, J!Evaluate(r)
  PROVE  LET n == Len(results[r])
         IN /\ n \in 0..1 /\ judged[r] = None /\ (n = 1 => ~Stops(results[r][1]))
            /\ UNCHANGED <<combinator, promises, updateSnapshots, evidence, judged, session>>
            /\ results' \in [Runs -> Seq(J!Given)]
            /\ Len(results'[r]) = n + 1 /\ (n = 1 => results'[r][1] = results[r][1])
            /\ \A q \in Runs \ {r} : results'[q] = results[q]
            /\ \/ UNCHANGED <<snapFile, writer, written>>
               \/ /\ updateSnapshots /\ writer' = session
                  /\ snapFile' \in Evidence \cup {Torn} /\ snapFile' \in written'
                  /\ written' \subseteq Evidence \cup {Torn}
            /\ ~updateSnapshots /\ promises[n + 1] = "snapshot"
                 /\ results'[r][n + 1] \in {"passes", "fails"} =>
                   (results'[r][n + 1] = "passes" <=> evidence[r] = snapFile)
<1> DEFINE s == results[r]
           n == Len(s)
           changed == /\ updateSnapshots /\ writer' = session
                      /\ snapFile' \in Evidence \cup {Torn} /\ snapFile' \in written'
                      /\ written' \subseteq Evidence \cup {Torn}
           compared(x) == ~updateSnapshots /\ promises[n + 1] = "snapshot"
                            /\ x \in {"passes", "fails"} => (x = "passes" <=> evidence[r] = snapFile)
<1>1. /\ s \in Seq(J!Given) /\ n \in Nat /\ n <= 2 /\ results \in [Runs -> Seq(J!Given)]
      /\ Len(promises) = 2
  BY DEF PromiseInv, J!TypeOK, TwoPromises, ResultsFollow
<1>2. /\ judged[r] = None /\ ~J!Ended(s)
      /\ UNCHANGED <<combinator, promises, updateSnapshots, evidence, judged, session>>
  BY DEF J!Evaluate
<1>3. n # 2 /\ (n = 1 => ~Stops(s[1]))
  <2>1. n = 1 => s # <<>>
    OBVIOUS
  <2>2. n # 2
    BY <1>1, <1>2 DEF J!Ended
  <2>3. ~(s # <<>> /\ Stops(s[n]))
    BY <1>2 DEF J!Ended, Stops, J!Last
  <2>4. n = 1 => ~Stops(s[1])
    BY <2>1, <2>3
  <2>5. QED
    BY <2>2, <2>4
<1>4. n \in 0..1
  <2>1. n \in Nat /\ n <= 2 /\ n # 2
    BY <1>1, <1>3
  <2> HIDE DEF n
  <2>2. QED
    BY ONLY <2>1
<1>5. PICK x \in J!Given :
        /\ results' = [results EXCEPT ![r] = Append(@, x)] /\ compared(x)
        /\ UNCHANGED <<snapFile, writer, written>> \/ changed
  <2>1. CASE promises[n + 1] = "snapshot"
    <3>1. J!EvaluateSnapshot(r)
      BY <2>1 DEF J!Evaluate
    <3>2. ASSUME NEW content \in Evidence \cup {Torn}, J!Writes(content), updateSnapshots
          PROVE  changed
      <4>1. written \subseteq Evidence \cup {Torn}
        BY DEF PromiseInv, J!TypeOK
      <4>2. QED
        BY <3>2, <4>1 DEF J!Writes, J!Write
    <3>3. evidence[r] \in Evidence
      BY DEF PromiseInv, J!TypeOK
    <3> HIDE DEF changed
    <3>4. CASE J!Gives(r, "throws") /\ UNCHANGED <<snapFile, writer, written>>
      BY <3>4 DEF J!Gives, J!Given
    <3>5. CASE updateSnapshots /\ J!Gives(r, "throws") /\ J!Writes(Torn)
      BY <3>2, <3>5 DEF J!Gives, J!Given
    <3>6. CASE updateSnapshots /\ J!Gives(r, "passes") /\ J!Writes(evidence[r])
      BY <3>2, <3>3, <3>6 DEF J!Gives, J!Given
    <3>7. CASE /\ ~updateSnapshots /\ UNCHANGED <<snapFile, writer, written>>
               /\ J!Gives(r, IF snapFile = evidence[r] THEN "passes" ELSE "fails")
      <4>1. CASE snapFile = evidence[r]
        BY <3>7, <4>1 DEF J!Gives, J!Given
      <4>2. CASE snapFile # evidence[r]
        BY <3>7, <4>2 DEF J!Gives, J!Given
      <4>3. QED
        BY <4>1, <4>2
    <3>8. QED
      BY <3>1, <3>4, <3>5, <3>6, <3>7 DEF J!EvaluateSnapshot
  <2>2. CASE promises[n + 1] # "snapshot"
    BY <2>2 DEF J!Evaluate, J!EvaluateOther, J!Gives
  <2>3. QED
    BY <2>1, <2>2
<1>6. /\ results'[r] = Append(s, x) /\ \A q \in Runs \ {r} : results'[q] = results[q]
      /\ results' \in [Runs -> Seq(J!Given)]
  BY <1>1, <1>5
<1>7. /\ Len(Append(s, x)) = n + 1 /\ Append(s, x)[n + 1] = x
      /\ (n = 1 => Append(s, x)[1] = s[1])
  BY <1>1
<1> HIDE DEF n
<1>8. QED
  BY <1>2, <1>3, <1>4, <1>5, <1>6, <1>7 DEF n

LEMMA PromiseEvaluates ==
  ASSUME PromiseConstants, PromiseInv, NEW r \in Runs, J!Evaluate(r)
  PROVE  PromiseInv'
<1> DEFINE n == Len(results[r])
<1>1. TwoPromises /\ ResultsFollow /\ SnapshotIsKept /\ J!TypeOK
  BY DEF PromiseInv
<1>2. /\ n \in 0..1 /\ judged[r] = None /\ (n = 1 => ~Stops(results[r][1]))
      /\ UNCHANGED <<combinator, promises, updateSnapshots, evidence, judged, session>>
      /\ results' \in [Runs -> Seq(J!Given)]
      /\ Len(results'[r]) = n + 1 /\ (n = 1 => results'[r][1] = results[r][1])
      /\ \A q \in Runs \ {r} : results'[q] = results[q]
      /\ \/ UNCHANGED <<snapFile, writer, written>>
         \/ /\ updateSnapshots /\ writer' = session
            /\ snapFile' \in Evidence \cup {Torn} /\ snapFile' \in written'
            /\ written' \subseteq Evidence \cup {Torn}
      /\ ~updateSnapshots /\ promises[n + 1] = "snapshot"
           /\ results'[r][n + 1] \in {"passes", "fails"} =>
             (results'[r][n + 1] = "passes" <=> evidence[r] = snapFile)
  BY EvaluateAppends
<1>3. /\ \A i \in 1..(n + 1) : i = n + 1 \/ (i \in 1..n /\ results'[r][i] = results[r][i])
      /\ Len(results'[r]) <= 2 /\ (Len(results'[r]) = 2 => ~Stops(results'[r][1]))
  <2> HIDE DEF n
  <2>1. \A i \in 1..(n + 1) : i = n + 1 \/ (i \in 1..n /\ results'[r][i] = results[r][i])
    BY <1>2
  <2>2. Len(results'[r]) <= 2 /\ (Len(results'[r]) = 2 => n = 1)
    BY <1>2
  <2>3. QED
    BY <1>2, <2>1, <2>2
<1>4. /\ TwoPromises'
      /\ \A x : /\ Stops(x)' <=> Stops(x)
                /\ J!Ended(x)' <=> J!Ended(x)
                /\ J!Combined(x)' = J!Combined(x)
  BY <1>1, <1>2 DEF TwoPromises, Stops, J!Ended, J!Combined
<1> HIDE DEF n
<1>5. J!TypeOK'
  <2>1. session \in 1..MaxSessions
    BY <1>1 DEF J!TypeOK
  <2>2. session \in 0..session
    BY <2>1, PromiseConstants DEF PromiseConstants
  <2>3. QED
    BY <1>1, <1>2, <2>2 DEF J!TypeOK
<1>6. ResultsFollow'
  <2>1. ASSUME NEW q \in Runs
        PROVE  /\ Len(results'[q]) <= 2
               /\ Len(results'[q]) = 2 => ~Stops(results'[q][1])
               /\ judged[q] # None => J!Ended(results'[q]) /\ judged[q] = J!Combined(results'[q])
    <3>1. CASE q # r
      BY <1>1, <1>2, <3>1 DEF ResultsFollow
    <3>2. CASE q = r
      BY <1>2, <1>3, <3>2
    <3>3. QED
      BY <3>1, <3>2
  <2>2. QED
    BY <1>2, <1>4, <2>1 DEF ResultsFollow, Stops, J!Ended, J!Combined
<1>7. SnapshotIsKept'
  <2>1. IF written' = {} THEN snapFile' = None ELSE snapFile' \in written'
    BY <1>1, <1>2 DEF SnapshotIsKept
  <2>2. ASSUME ~updateSnapshots, NEW q \in Runs, NEW i \in 1..Len(results'[q]),
               promises[i] = "snapshot", results'[q][i] \in {"passes", "fails"}
        PROVE  results'[q][i] = "passes" <=> evidence[q] = snapFile
    <3>1. CASE q = r /\ i = n + 1
      BY <1>2, <2>2, <3>1
    <3>2. CASE ~(q = r /\ i = n + 1)
      <4>1. i \in 1..Len(results[q]) /\ results'[q][i] = results[q][i]
        BY <1>2, <1>3, <3>2 DEF n
      <4>2. QED
        BY <1>1, <2>2, <4>1 DEF SnapshotIsKept
    <3>3. QED
      BY <3>1, <3>2
  <2>3. ~updateSnapshots => snapFile' = snapFile
    BY <1>2
  <2>4. QED
    BY <1>2, <2>1, <2>2, <2>3 DEF SnapshotIsKept
<1>8. QED
  BY <1>4, <1>5, <1>6, <1>7 DEF PromiseInv

LEMMA PromiseStep == ASSUME PromiseConstants PROVE PromiseInv /\ [J!Next]_J!promiseVars => PromiseInv'
<1>1. SUFFICES ASSUME PromiseInv, [J!Next]_J!promiseVars PROVE PromiseInv'
  OBVIOUS
<1>2. TwoPromises /\ ResultsFollow /\ SnapshotIsKept /\ J!TypeOK
  BY <1>1 DEF PromiseInv
<1>3. CASE UNCHANGED J!promiseVars
  BY <1>2, <1>3 DEF PromiseInv, TwoPromises, ResultsFollow, SnapshotIsKept, J!promiseVars, Stops,
                    J!Ended, J!Combined, J!TypeOK
<1>4. CASE J!NextSession
  <2>1. /\ UNCHANGED <<combinator, promises, snapFile, writer, written>>
        /\ results' = [r \in Runs |-> <<>>] /\ judged' = [r \in Runs |-> None]
        /\ evidence' \in [Runs -> Evidence] /\ updateSnapshots' \in BOOLEAN
        /\ session < MaxSessions /\ session' = session + 1
    BY <1>4 DEF J!NextSession, J!Fresh
  <2>2. TwoPromises'
    BY <1>2, <2>1 DEF TwoPromises
  <2>3. \A r \in Runs : Len(results'[r]) = 0 /\ judged'[r] = None
    BY <2>1
  <2>4. ResultsFollow' /\ SnapshotIsKept'
    BY <1>2, <2>1, <2>3 DEF ResultsFollow, SnapshotIsKept
  <2>5. session' \in 1..MaxSessions /\ writer' \in 0..session'
    <3>1. session \in 1..MaxSessions /\ writer \in 0..session /\ MaxSessions \in Nat
      BY <1>2 DEF J!TypeOK, PromiseConstants
    <3>2. QED
      BY <2>1, <3>1
  <2>6. <<>> \in Seq(J!Given)
    OBVIOUS
  <2>7. J!TypeOK'
    BY <1>2, <2>1, <2>5, <2>6 DEF J!TypeOK
  <2>8. QED
    BY <2>2, <2>4, <2>7 DEF PromiseInv
<1>5. ASSUME NEW r \in Runs, J!Evaluate(r) PROVE PromiseInv'
  BY <1>1, <1>5, PromiseEvaluates
<1>6. ASSUME NEW r \in Runs, J!Conclude(r) PROVE PromiseInv'
  <2>1. /\ UNCHANGED <<combinator, promises, updateSnapshots, evidence, results, snapFile,
                       writer, written, session>>
        /\ judged' = [judged EXCEPT ![r] = J!Combined(results[r])] /\ J!Ended(results[r])
    BY <1>6 DEF J!Conclude
  <2>2. TwoPromises' /\ SnapshotIsKept'
    BY <1>2, <2>1 DEF TwoPromises, SnapshotIsKept
  <2>3. \A q \in Runs : judged'[q] = IF q = r THEN J!Combined(results[q]) ELSE judged[q]
    BY <1>2, <2>1 DEF J!TypeOK
  <2>4. \A s : /\ Stops(s)' <=> Stops(s)
               /\ J!Ended(s)' <=> J!Ended(s)
               /\ J!Combined(s)' = J!Combined(s)
    BY <2>1 DEF Stops, J!Ended, J!Combined
  <2>5. ResultsFollow'
    BY <1>2, <2>1, <2>3, <2>4 DEF ResultsFollow
  <2>6. J!Combined(results[r]) \in BOOLEAN
    BY DEF J!Combined
  <2>7. J!TypeOK'
    BY <1>2, <2>1, <2>6 DEF J!TypeOK
  <2>8. QED
    BY <2>2, <2>5, <2>7 DEF PromiseInv
<1>7. QED
  BY <1>1, <1>3, <1>4, <1>5, <1>6 DEF J!Next

LEMMA PromiseGoal == ASSUME PromiseConstants PROVE PromiseInv => J!JudgedByItsParts
<1> DEFINE Kept(x) == J!Alone(x) \/ x = "truthy"
<1>1. SUFFICES ASSUME PromiseInv, NEW r \in Runs
      PROVE  /\ judged[r] # None =>
                  IF combinator = "allOf"
                    THEN judged[r] <=> Len(results[r]) = Len(promises)
                                       /\ \A i \in DOMAIN results[r] : Kept(results[r][i])
                    ELSE judged[r] <=> \E i \in DOMAIN results[r] :
                                          /\ Kept(results[r][i])
                                          /\ \A j \in 1..(i - 1) : ~J!Crashes(results[r][j])
             /\ \A i \in DOMAIN results[r] :
                  promises[i] = "snapshot" /\ ~updateSnapshots =>
                    /\ results[r][i] = "passes" => evidence[r] \in written
                    /\ results[r][i] = "fails" => written # {evidence[r]}
  BY DEF J!JudgedByItsParts
<1>2. TwoPromises /\ ResultsFollow /\ SnapshotIsKept /\ J!TypeOK
  BY <1>1 DEF PromiseInv
<1> DEFINE s == results[r]
<1>3. /\ s \in Seq(J!Given) /\ DOMAIN s = 1..Len(s) /\ Len(s) \in Nat /\ Len(s) <= 2
      /\ Len(promises) = 2
      /\ judged[r] \in BOOLEAN \cup {None}
  BY <1>2 DEF J!TypeOK, TwoPromises, ResultsFollow
<1>4. ASSUME NEW x PROVE J!Passes(x) <=> Kept(x)
  BY DEF J!Passes, J!Alone
<1>6. ASSUME judged[r] # None
      PROVE  /\ judged[r] \in BOOLEAN
             /\ judged[r] <=> J!Combined(s)
             /\ \/ Len(s) = 2 /\ ~Stops(s[1])
                \/ Len(s) = 1 /\ Stops(s[1])
  <2>1. judged[r] = J!Combined(s) /\ J!Ended(s) /\ (Len(s) = 2 => ~Stops(s[1]))
    BY <1>2, <1>6 DEF ResultsFollow
  <2>2. Len(s) = 2 \/ (s # <<>> /\ Stops(s[Len(s)]))
    BY <1>3, <2>1 DEF J!Ended, Stops, J!Last
  <2>3. Len(s) = 2 \/ Len(s) = 1
    <3> DEFINE n == Len(s)
    <3>1. n = 2 \/ n # 0
      BY <1>3, <2>2
    <3>2. n \in Nat /\ n <= 2
      BY <1>3
    <3> HIDE DEF n
    <3>3. n = 2 \/ n = 1
      BY ONLY <3>1, <3>2
    <3>4. QED
      BY <3>3 DEF n
  <2>4. judged[r] \in BOOLEAN
    BY <1>3, <1>6
  <2>5. judged[r] <=> J!Combined(s)
    BY <2>1
  <2>6. Len(s) = 1 => Stops(s[1])
    BY <2>2
  <2>7. QED
    BY <2>1, <2>3, <2>4, <2>5, <2>6
<1> HIDE DEF s, Kept
<1>7. \A x : J!Passes(x) => ~J!Crashes(x)
  BY DEF J!Passes, J!Crashes
<1>8. ASSUME judged[r] # None, combinator = "allOf"
      PROVE  judged[r] <=> Len(s) = 2 /\ \A i \in 1..Len(s) : Kept(s[i])
  <2>1. J!Combined(s) <=> \A i \in 1..Len(s) : J!Passes(s[i])
    BY <1>3, <1>7, <1>8 DEF J!Combined
  <2>2. CASE Len(s) = 2
    BY <1>4, <1>6, <1>8, <2>1, <2>2
  <2>3. CASE Len(s) = 1
    <3>1. ~J!Passes(s[1])
      BY <1>6, <1>8, <2>3 DEF Stops, J!Passes
    <3>2. 1 \in 1..Len(s) /\ Len(s) # 2
      BY <2>3
    <3>3. QED
      BY <1>6, <1>8, <2>1, <3>1, <3>2
  <2>4. QED
    BY <1>6, <1>8, <2>2, <2>3
<1>9. ASSUME judged[r] # None, combinator # "allOf"
      PROVE  judged[r] <=> \E i \in 1..Len(s) : Kept(s[i]) /\ \A j \in 1..(i - 1) : ~J!Crashes(s[j])
  <2>1. J!Combined(s) <=> /\ \A i \in 1..Len(s) : ~J!Crashes(s[i])
                        /\ \E i \in 1..Len(s) : J!Passes(s[i])
    BY <1>3, <1>9 DEF J!Combined
  <2>2. ASSUME J!Combined(s)
        PROVE  \E i \in 1..Len(s) : J!Passes(s[i]) /\ \A j \in 1..(i - 1) : ~J!Crashes(s[j])
    <3>1. PICK i \in 1..Len(s) : J!Passes(s[i])
      BY <2>1, <2>2
    <3>2. \A j \in 1..(i - 1) : j \in 1..Len(s)
      BY <1>3
    <3>3. QED
      BY <2>1, <2>2, <3>1, <3>2
  <2>3. ASSUME NEW i \in 1..Len(s), J!Passes(s[i]), \A j \in 1..(i - 1) : ~J!Crashes(s[j])
        PROVE  J!Combined(s)
    <3>1. CASE Len(s) = 1
      <4>1. i = 1
        BY <3>1
      <4>2. \A j \in 1..Len(s) : j = 1
        BY <3>1
      <4>3. QED
        BY <1>7, <2>1, <2>3, <4>1, <4>2
    <3>2. CASE Len(s) = 2
      <4>1. ~J!Passes(s[1]) /\ ~J!Crashes(s[1])
        BY <1>6, <1>9, <3>2 DEF Stops
      <4>2. i = 2
        <5>1. i # 1
          BY <2>3, <4>1
        <5>2. QED
          BY <3>2, <5>1
      <4>3. \A j \in 1..Len(s) : j = 1 \/ j = 2
        BY <3>2
      <4>4. QED
        BY <1>7, <2>1, <2>3, <4>1, <4>2, <4>3
    <3>3. QED
      BY <1>6, <1>9, <3>1, <3>2
  <2>4. judged[r] <=> \E i \in 1..Len(s) : J!Passes(s[i]) /\ \A j \in 1..(i - 1) : ~J!Crashes(s[j])
    BY <1>6, <1>9, <2>2, <2>3
  <2>5. \A i \in 1..Len(s) : J!Passes(s[i]) <=> Kept(s[i])
    BY <1>4
  <2>6. QED
    BY <2>4, <2>5
<1>10. ASSUME NEW i \in 1..Len(s), promises[i] = "snapshot", ~updateSnapshots
       PROVE  /\ s[i] = "passes" => evidence[r] \in written
              /\ s[i] = "fails" => written # {evidence[r]}
  <2>1. s[i] \in {"passes", "fails"} => (s[i] = "passes" <=> evidence[r] = snapFile)
    BY <1>2, <1>10 DEF SnapshotIsKept, s
  <2>2. evidence[r] # None
    BY <1>2 DEF J!TypeOK, PromiseConstants
  <2>3. IF written = {} THEN snapFile = None ELSE snapFile \in written
    BY <1>2 DEF SnapshotIsKept
  <2>4. QED
    BY <2>1, <2>2, <2>3
<1>11. QED
  BY <1>3, <1>8, <1>9, <1>10 DEF s, Kept

-----------------------------------------------------------------------------
(* The run explorer                                                        *)

ExplorerConstants ==
  /\ ListLimit \in Nat /\ MaxReloads \in Nat /\ None \notin Filters
  /\ Matches \in [Filters -> SUBSET RunIds]

(* The numbers of a finite set are counted up one by one.                  *)
Place(some, i) == Cardinality({j \in some : j <= i})

LEMMA Places ==
  ASSUME NEW n \in Nat, NEW some \in SUBSET (1..n)
  PROVE  /\ IsFiniteSet(some) /\ Cardinality(some) \in Nat
         /\ \A i \in some : Place(some, i) \in 1..Cardinality(some)
         /\ \A i, j \in some : Place(some, i) = Place(some, j) => i = j
         /\ \A k \in 1..Cardinality(some) : \E i \in some : Place(some, i) = k
<1> DEFINE upto(i) == {j \in some : j <= i}
           c == Cardinality(some)
           f == [i \in some |-> Place(some, i)]
<1>1. IsFiniteSet(some)
  BY UptoMany, FS_Subset
<1>2. c \in Nat
  BY <1>1, FS_CardinalityType
<1>3. \A i \in some : i \in Nat
  OBVIOUS
<1>4. ASSUME NEW i \in some
      PROVE  /\ IsFiniteSet(upto(i)) /\ Cardinality(upto(i)) \in Nat
             /\ Cardinality(upto(i)) <= c /\ upto(i) # {} /\ Cardinality(upto(i)) # 0
  <2>1. upto(i) \subseteq some /\ i \in upto(i)
    BY <1>3
  <2> HIDE DEF upto
  <2>2. IsFiniteSet(upto(i)) /\ Cardinality(upto(i)) <= c
    BY <1>1, <2>1, FS_Subset
  <2>3. QED
    BY <2>1, <2>2, FS_CardinalityType, FS_EmptySet
<1>5. ASSUME NEW i \in some PROVE Place(some, i) \in 1..c
  <2> HIDE DEF c
  <2>1. Place(some, i) \in Nat /\ Place(some, i) <= c /\ Place(some, i) # 0
    BY <1>4 DEF Place
  <2>2. QED
    BY <1>2, <2>1
<1>6. ASSUME NEW i \in some, NEW j \in some, i < j PROVE Place(some, i) # Place(some, j)
  <2> i \in Nat /\ j \in Nat /\ ~(j <= i)
    BY <1>3, <1>6
  <2>0. \A x \in Nat : x <= i => x <= j
    BY <1>6
  <2>1. upto(i) \subseteq upto(j) /\ j \in upto(j) /\ j \notin upto(i)
    <3>1. j \notin upto(i)
      OBVIOUS
    <3>2. j \in upto(j)
      OBVIOUS
    <3>3. upto(i) \subseteq upto(j)
      BY <1>3, <2>0
    <3>4. QED
      BY <3>1, <3>2, <3>3
  <2>2. IsFiniteSet(upto(i)) /\ IsFiniteSet(upto(j))
    BY <1>4
  <2> DEFINE a == upto(i)
             b == upto(j)
  <2>3. Place(some, i) = Cardinality(a) /\ Place(some, j) = Cardinality(b)
    BY DEF Place
  <2>4. a \subseteq b /\ a # b /\ IsFiniteSet(a) /\ IsFiniteSet(b)
    BY <2>1, <2>2
  <2> HIDE DEF a, b
  <2>5. Cardinality(a) # Cardinality(b)
    BY <2>4, FS_Subset
  <2>6. QED
    BY <2>3, <2>5
<1>7. ASSUME NEW i \in some, NEW j \in some, Place(some, i) = Place(some, j) PROVE i = j
  <2>1. ~(i < j) /\ ~(j < i)
    BY <1>6, <1>7
  <2>2. i \in Nat /\ j \in Nat
    BY <1>3
  <2>3. QED
    BY <2>1, <2>2
<1> HIDE DEF upto, c
<1>8. f \in Injection(some, 1..c)
  BY <1>5, <1>7 DEF Injection, IsInjective
<1>9. f \in Surjection(some, 1..c)
  <2>1. IsFiniteSet(1..c) /\ Cardinality(1..c) = c
    BY <1>2, UptoMany
  <2> HIDE DEF f
  <2>2. Cardinality(some) = Cardinality(1..c) <=> f \in Surjection(some, 1..c)
    BY <1>8, <2>1, FS_Injection
  <2>3. QED
    BY <2>1, <2>2 DEF c
<1>10. \A k \in 1..c : \E i \in some : Place(some, i) = k
  BY <1>9 DEF Surjection
<1>11. QED
  BY <1>1, <1>2, <1>5, <1>7, <1>10 DEF c

(* A page has all runs that match, or as many as it may.                   *)
LEMMA ListedShape ==
  ASSUME ExplorerConstants, stored \in Seq(RunIds), NEW f \in Filters
  PROVE  /\ E!Listed(f) \in Seq(RunIds)
         /\ \/ E!Range(stored) \cap Matches[f] \subseteq E!Range(E!Listed(f))
            \/ Len(E!Listed(f)) = ListLimit
<1> DEFINE matching == {i \in DOMAIN stored : stored[i] \in Matches[f]}
           c == Cardinality(matching)
           many == IF c < ListLimit THEN c ELSE ListLimit
           at(k) == CHOOSE i \in matching : Place(matching, i) = k
           page == [k \in 1..many |-> stored[at(k)]]
<1>1. E!Listed(f) = page
  <2> DEFINE was(k) == CHOOSE i \in matching : E!Cardinality({j \in matching : j <= i}) = k
             m == IF E!Cardinality(matching) < ListLimit THEN E!Cardinality(matching) ELSE ListLimit
  <2>1. E!Listed(f) = [k \in 1..m |-> stored[was(k)]]
    BY ServerCounts DEF E!Listed
  <2> HIDE DEF matching
  <2>2. \A i : E!Cardinality({j \in matching : j <= i}) = Place(matching, i)
    BY ServerCounts DEF Place
  <2>3. \A k : was(k) = at(k)
    BY <2>2
  <2>4. m = many
    BY ServerCounts
  <2> HIDE DEF was, at, m, many
  <2>5. QED
    BY <2>1, <2>3, <2>4
<1>2. Len(stored) \in Nat /\ DOMAIN stored = 1..Len(stored)
  BY LenProperties
<1>3. matching \subseteq 1..Len(stored) /\ \A i \in matching : stored[i] \in RunIds
  BY <1>2
<1>4. E!Range(stored) \cap Matches[f] \subseteq {stored[i] : i \in matching}
  BY DEF E!Range
<1> HIDE DEF matching
<1>5. /\ c \in Nat
      /\ \A i \in matching : Place(matching, i) \in 1..c
      /\ \A i, j \in matching : Place(matching, i) = Place(matching, j) => i = j
      /\ \A k \in 1..c : \E i \in matching : Place(matching, i) = k
  BY <1>2, <1>3, Places
<1>6. ListLimit \in Nat
  BY DEF ExplorerConstants
<1> HIDE DEF c
<1>7. many \in Nat /\ many <= c /\ (many # ListLimit => many = c)
  BY <1>5, <1>6
<1> HIDE DEF many
<1>8. ASSUME NEW k \in 1..many
      PROVE  at(k) \in matching /\ Place(matching, at(k)) = k
  <2>1. k \in 1..c
    BY <1>5, <1>7
  <2>2. \E i \in matching : Place(matching, i) = k
    BY <1>5, <2>1
  <2>3. QED
    BY <2>2
<1>9. page \in [1..many -> RunIds]
  BY <1>3, <1>8
<1>10. page \in Seq(RunIds) /\ Len(page) = many
  <2> HIDE DEF page
  <2>1. QED
    BY <1>7, <1>9, LenProperties
<1>11. ASSUME many = c, NEW i \in matching PROVE stored[i] \in E!Range(page)
  <2>1. PICK k \in 1..many : Place(matching, i) = k
    BY <1>5, <1>11
  <2>2. at(k) = i
    BY <1>5, <1>8, <2>1
  <2>3. page[k] = stored[i] /\ k \in DOMAIN page
    BY <2>2
  <2>4. QED
    BY <2>3 DEF E!Range
<1> HIDE DEF page
<1>12. QED
  BY <1>1, <1>4, <1>7, <1>10, <1>11

Keys == Filters \cup RunIds \cup {None}
Hooks ==
  [attempt : 0..MaxReloads,
   settled : [key : Keys, attempt : 0..(MaxReloads + 1), data : E!Answers, error : BOOLEAN],
   effect : [key : Keys, attempt : 0..MaxReloads],
   request : {"none", "sent", "answered"}, answer : E!Answers]

(* Data is kept under its key, and an answer is for the key asked.         *)
KeyedAlike(hook) ==
  /\ hook.settled.data.key \in {hook.settled.key, None}
  /\ hook.request = "answered" => hook.answer.key = hook.effect.key

(* A page for a filter, and of the runs heard of all that match, or as     *)
(* many as it may.                                                         *)
Covers(data, f) ==
  heard \cap Matches[f] \subseteq E!Range(data.runs) \/ Len(data.runs) = ListLimit

(* What was asked for since the page last heard of runs, or shall be       *)
(* asked again.                                                            *)
PagesCover ==
  /\ list.settled.attempt = list.attempt /\ ~list.settled.error =>
       (list.settled.key \in Filters => Covers(list.settled.data, list.settled.key))
  /\ list.effect.attempt = list.attempt /\ list.request = "answered" =>
       (list.effect.key \in Filters => Covers(list.answer, list.effect.key))

ExplorerInv ==
  /\ E!TypeOK /\ list \in Hooks /\ detail \in Hooks
  /\ KeyedAlike(list) /\ KeyedAlike(detail)
  /\ list.request # "none" => list.effect.key \in Filters
  /\ list.effect.attempt <= list.attempt
  /\ list.settled.attempt \in (0..list.attempt) \cup {MaxReloads + 1}
  /\ heard \subseteq E!Range(stored)
  /\ PagesCover

LEMMA ExplorerInit == ASSUME ExplorerConstants, E!Init PROVE ExplorerInv
<1> USE DEF ExplorerConstants
<1>1. <<>> \in Seq(RunIds) /\ E!Range(<<>>) = {}
  BY DEF E!Range
<1>2. E!Undefined \in E!Answers
  BY <1>1 DEF E!Undefined, E!Answers
<1>3. E!Hook \in Hooks
  BY <1>2 DEF E!Hook, Hooks, Keys
<1>4. list = E!Hook /\ detail = E!Hook
  BY DEF E!Init
<1>5. E!TypeOK
  BY <1>1, <1>2, <1>3, <1>4 DEF E!TypeOK, E!Init, Hooks, Keys
<1>6. KeyedAlike(list) /\ KeyedAlike(detail)
  BY <1>4 DEF KeyedAlike, E!Hook, E!Undefined
<1>7. /\ list.request # "none" => list.effect.key \in Filters
      /\ list.effect.attempt <= list.attempt
      /\ list.settled.attempt \in (0..list.attempt) \cup {MaxReloads + 1}
  BY <1>4 DEF E!Hook
<1>8. heard \subseteq E!Range(stored)
  BY <1>1 DEF E!Init
<1>9. PagesCover
  BY <1>4 DEF PagesCover, E!Hook
<1>10. QED
  BY <1>3, <1>4, <1>5, <1>6, <1>7, <1>8, <1>9 DEF ExplorerInv

LEMMA SettleKeeps ==
  ASSUME ExplorerConstants, NEW hook \in Hooks, KeyedAlike(hook), NEW ok \in E!Outcomes(hook)
  PROVE  /\ E!Settle(hook, ok) \in Hooks /\ KeyedAlike(E!Settle(hook, ok))
         /\ E!Settle(hook, ok).request = "none"
         /\ E!Settle(hook, ok).attempt = hook.attempt
         /\ E!Settle(hook, ok).effect = hook.effect
         /\ E!Settle(hook, ok).settled.key = hook.effect.key
         /\ E!Settle(hook, ok).settled.attempt = hook.effect.attempt
         /\ E!Settle(hook, ok).settled.error = ~ok
         /\ ok => hook.request = "answered" /\ E!Settle(hook, ok).settled.data = hook.answer
<1> DEFINE former == IF hook.settled.key = hook.effect.key THEN hook.settled.data ELSE E!Undefined
           data == IF ok THEN hook.answer ELSE former
           settled == [key |-> hook.effect.key, attempt |-> hook.effect.attempt,
                       data |-> data, error |-> ~ok]
           next == [hook EXCEPT !.settled = settled, !.request = "none", !.answer = E!Undefined]
<1>1. E!Settle(hook, ok) = next
  BY DEF E!Settle
<1>2. ok \in BOOLEAN /\ (ok => hook.request = "answered")
  BY DEF E!Outcomes
<1>3. E!Undefined \in E!Answers /\ E!Undefined.key = None
  <2>1. <<>> \in Seq(RunIds)
    OBVIOUS
  <2>2. QED
    BY <2>1 DEF E!Undefined, E!Answers
<1>4. data \in E!Answers
  BY <1>3 DEF Hooks
<1>5. data.key \in {hook.effect.key, None}
  BY <1>2, <1>3 DEF KeyedAlike
<1> HIDE DEF data
<1>6. hook.effect.key \in Keys /\ hook.effect.attempt \in 0..(MaxReloads + 1)
  BY DEF Hooks, ExplorerConstants
<1>7. settled \in [key : Keys, attempt : 0..(MaxReloads + 1), data : E!Answers, error : BOOLEAN]
  BY <1>2, <1>4, <1>6
<1>8. /\ settled.key = hook.effect.key /\ settled.attempt = hook.effect.attempt
      /\ settled.error = ~ok /\ settled.data = data
  OBVIOUS
<1> HIDE DEF settled
<1>9. next \in Hooks
  BY <1>3, <1>7 DEF Hooks
<1>10. /\ next.settled = settled /\ next.request = "none" /\ next.attempt = hook.attempt
       /\ next.effect = hook.effect
  BY DEF Hooks
<1> HIDE DEF next
<1>11. KeyedAlike(next)
  BY <1>5, <1>8, <1>10 DEF KeyedAlike
<1>12. ok => data = hook.answer
  BY DEF data
<1>13. QED
  BY <1>1, <1>2, <1>8, <1>9, <1>10, <1>11, <1>12

LEMMA FetchingKeeps ==
  ASSUME ExplorerConstants, NEW hook \in Hooks, KeyedAlike(hook), NEW key \in Keys
  PROVE  /\ E!Fetching(hook, key) \in Hooks /\ KeyedAlike(E!Fetching(hook, key))
         /\ E!Fetching(hook, key).request \in {"none", "sent"}
         /\ E!Fetching(hook, key).request = "sent" => key # None
         /\ E!Fetching(hook, key).attempt = hook.attempt
         /\ E!Fetching(hook, key).settled = hook.settled
         /\ E!Fetching(hook, key).effect = [key |-> key, attempt |-> hook.attempt]
<1> DEFINE status == IF key = None THEN "none" ELSE "sent"
           effect == [key |-> key, attempt |-> hook.attempt]
           next == [hook EXCEPT !.effect = effect, !.request = status, !.answer = E!Undefined]
<1>1. E!Fetching(hook, key) = next
  BY DEF E!Fetching
<1>2. E!Undefined \in E!Answers
  <2>1. <<>> \in Seq(RunIds)
    OBVIOUS
  <2>2. QED
    BY <2>1 DEF E!Undefined, E!Answers
<1>3. status \in {"none", "sent"} /\ (status = "sent" => key # None)
  OBVIOUS
<1>4. effect \in [key : Keys, attempt : 0..MaxReloads]
  BY DEF Hooks
<1> HIDE DEF status, effect
<1>5. /\ next \in Hooks /\ next.request = status /\ next.attempt = hook.attempt
      /\ next.settled = hook.settled /\ next.effect = effect
  BY <1>2, <1>3, <1>4 DEF Hooks
<1> HIDE DEF next
<1>6. KeyedAlike(next)
  BY <1>3, <1>5 DEF KeyedAlike
<1>7. QED
  BY <1>1, <1>3, <1>5, <1>6 DEF effect

Answered(hook, runs) ==
  [hook EXCEPT !.request = "answered", !.answer = [key |-> hook.effect.key, runs |-> runs]]

LEMMA AnsweredKeeps ==
  ASSUME ExplorerConstants, NEW hook \in Hooks, KeyedAlike(hook), NEW runs \in Seq(RunIds)
  PROVE  /\ Answered(hook, runs) \in Hooks /\ KeyedAlike(Answered(hook, runs))
         /\ Answered(hook, runs).attempt = hook.attempt
         /\ Answered(hook, runs).settled = hook.settled
         /\ Answered(hook, runs).effect = hook.effect
         /\ Answered(hook, runs).request = "answered"
         /\ Answered(hook, runs).answer.runs = runs
<1> DEFINE answer == [key |-> hook.effect.key, runs |-> runs]
           next == Answered(hook, runs)
<1>1. answer \in E!Answers /\ answer.key = hook.effect.key /\ answer.runs = runs
  BY DEF Hooks, E!Answers, Keys
<1> HIDE DEF answer
<1>2. next = [hook EXCEPT !.request = "answered", !.answer = answer]
  BY DEF answer, Answered
<1> HIDE DEF next
<1>3. /\ next \in Hooks /\ next.attempt = hook.attempt /\ next.settled = hook.settled
      /\ next.effect = hook.effect /\ next.request = "answered" /\ next.answer = answer
  BY <1>1, <1>2 DEF Hooks
<1>4. KeyedAlike(next)
  BY <1>1, <1>3 DEF KeyedAlike
<1>5. QED
  BY <1>1, <1>3, <1>4 DEF next

LEMMA ReloadedKeeps ==
  ASSUME ExplorerConstants, NEW hook \in Hooks, KeyedAlike(hook), hook.attempt < MaxReloads
  PROVE  /\ E!Reloaded(hook) \in Hooks /\ KeyedAlike(E!Reloaded(hook))
         /\ E!Reloaded(hook).attempt = hook.attempt + 1
         /\ E!Reloaded(hook).settled = hook.settled /\ E!Reloaded(hook).effect = hook.effect
         /\ E!Reloaded(hook).request = hook.request
<1>1. hook.attempt \in 0..MaxReloads /\ MaxReloads \in Nat
  BY DEF Hooks, ExplorerConstants
<1>2. hook.attempt + 1 \in 0..MaxReloads
  BY <1>1
<1> DEFINE next == [hook EXCEPT !.attempt = hook.attempt + 1]
<1>3. E!Reloaded(hook) = next
  BY DEF E!Reloaded
<1>4. /\ next \in Hooks /\ next.attempt = hook.attempt + 1 /\ next.settled = hook.settled
      /\ next.effect = hook.effect /\ next.request = hook.request /\ next.answer = hook.answer
  BY <1>2 DEF Hooks
<1> HIDE DEF next
<1>5. QED
  BY <1>3, <1>4 DEF KeyedAlike

(* The run that is selected.                                               *)
LEMMA SelectedTyped ==
  ASSUME ExplorerConstants, ExplorerInv
  PROVE  E!Feed \in Seq(RunIds) /\ E!SelectedRunId \in RunIds \cup {None}
<1>1. E!Data(list, filter).runs \in Seq(RunIds)
  <2>1. E!Undefined.runs = <<>> /\ <<>> \in Seq(RunIds)
    BY DEF E!Undefined
  <2>2. list.settled.data.runs \in Seq(RunIds)
    BY DEF ExplorerInv, Hooks, E!Answers
  <2>3. QED
    BY <2>1, <2>2 DEF E!Data
<1>2. E!Feed \in Seq(RunIds)
  BY <1>1 DEF E!Feed
<1> DEFINE feed == E!Feed
<1>3. feed # <<>> => Head(feed) \in RunIds
  BY <1>2, HeadTailProperties
<1>4. chosen \in RunIds \cup {None}
  BY DEF ExplorerInv, E!TypeOK
<1>5. QED
  BY <1>2, <1>3, <1>4 DEF E!SelectedRunId

LEMMA ListStep ==
  ASSUME ExplorerConstants, ExplorerInv, E!SessionCompleted \/ E!ListEffect \/ E!ListAnswered \/ E!ListSettles
  PROVE  ExplorerInv'
<1> USE DEF ExplorerConstants
<1>1. /\ list \in Hooks /\ detail \in Hooks /\ KeyedAlike(list) /\ KeyedAlike(detail)
      /\ filter \in Filters /\ stored \in Seq(RunIds) /\ E!TypeOK
  BY DEF ExplorerInv, E!TypeOK
<1>2. list.attempt \in 0..MaxReloads /\ list.effect.attempt \in 0..MaxReloads
  BY <1>1 DEF Hooks
<1>3. /\ list' \in Hooks /\ KeyedAlike(list)'
      /\ (list.request # "none" => list.effect.key \in Filters)'
      /\ (list.effect.attempt <= list.attempt)'
      /\ (list.settled.attempt \in (0..list.attempt) \cup {MaxReloads + 1})'
      /\ (heard \subseteq E!Range(stored))' /\ heard' \subseteq RunIds
      /\ PagesCover'
  <2>1. CASE E!SessionCompleted
    <3>1. list' = E!Reloaded(list) /\ list.attempt < MaxReloads
      BY <2>1 DEF E!SessionCompleted
    <3>2. /\ list' \in Hooks /\ KeyedAlike(list') /\ list'.attempt = list.attempt + 1
          /\ list'.settled = list.settled /\ list'.effect = list.effect
          /\ list'.request = list.request
      BY <1>1, <3>1, ReloadedKeeps
    <3>3. heard' = E!Range(stored) /\ stored' = stored
      BY <2>1 DEF E!SessionCompleted
    <3>4. heard' \subseteq RunIds
      BY <1>1, <3>3, LenProperties DEF E!Range
    <3>5. list'.settled.attempt # list'.attempt /\ list'.effect.attempt # list'.attempt
      BY <1>2, <3>1, <3>2 DEF ExplorerInv
    <3>6. PagesCover'
      BY <3>5 DEF PagesCover
    <3>7. /\ list'.request # "none" => list'.effect.key \in Filters
          /\ list'.effect.attempt <= list'.attempt
          /\ list'.settled.attempt \in (0..list'.attempt) \cup {MaxReloads + 1}
      BY <1>2, <3>2 DEF ExplorerInv
    <3>8. KeyedAlike(list)'
      BY <3>2 DEF KeyedAlike
    <3>9. QED
      BY <3>2, <3>3, <3>4, <3>6, <3>7, <3>8
  <2>2. CASE E!ListEffect
    <3>1. list' = E!Fetching(list, filter) /\ heard' = heard /\ stored' = stored
      BY <2>2 DEF E!ListEffect
    <3>2. filter \in Keys
      BY <1>1 DEF Keys
    <3>3. /\ list' \in Hooks /\ KeyedAlike(list') /\ list'.attempt = list.attempt
          /\ list'.settled = list.settled /\ list'.request \in {"none", "sent"}
          /\ list'.effect = [key |-> filter, attempt |-> list.attempt]
      BY <1>1, <3>1, <3>2, FetchingKeeps
    <3>4. list'.effect.key \in Filters /\ list'.effect.attempt = list.attempt
      BY <1>1, <3>3
    <3>5. PagesCover'
      BY <3>1, <3>3 DEF PagesCover, Covers, ExplorerInv
    <3>6. /\ list'.effect.attempt <= list'.attempt
          /\ list'.settled.attempt \in (0..list'.attempt) \cup {MaxReloads + 1}
      BY <1>2, <3>3, <3>4 DEF ExplorerInv
    <3>7. (heard \subseteq E!Range(stored))' /\ heard' \subseteq RunIds
      BY <3>1 DEF ExplorerInv, E!TypeOK
    <3>8. KeyedAlike(list)'
      BY <3>3 DEF KeyedAlike
    <3>9. QED
      BY <3>3, <3>4, <3>5, <3>6, <3>7, <3>8
  <2>3. CASE E!ListAnswered
    <3> DEFINE key == list.effect.key
               page == E!Listed(key)
    <3>1. /\ list.request = "sent" /\ heard' = heard /\ stored' = stored
          /\ list' = Answered(list, page)
      BY <2>3 DEF E!ListAnswered, Answered
    <3>2. key \in Filters
      BY <3>1 DEF ExplorerInv
    <3>3. /\ page \in Seq(RunIds)
          /\ E!Range(stored) \cap Matches[key] \subseteq E!Range(page) \/ Len(page) = ListLimit
      <4> HIDE DEF key
      <4>1. QED
        BY <1>1, <3>2, ListedShape
    <3> HIDE DEF page
    <3>4. /\ list' \in Hooks /\ KeyedAlike(list') /\ list'.attempt = list.attempt
          /\ list'.settled = list.settled /\ list'.effect = list.effect
          /\ list'.request = "answered" /\ list'.answer.runs = page
      BY <1>1, <3>1, <3>3, AnsweredKeeps
    <3>5. heard' \cap Matches[key] \subseteq E!Range(list'.answer.runs)
            \/ Len(list'.answer.runs) = ListLimit
      BY <3>1, <3>3, <3>4 DEF ExplorerInv
    <3>6. PagesCover'
      BY <3>1, <3>4, <3>5 DEF PagesCover, Covers, ExplorerInv
    <3>7. /\ list'.effect.key \in Filters /\ list'.effect.attempt <= list'.attempt
          /\ list'.settled.attempt \in (0..list'.attempt) \cup {MaxReloads + 1}
      BY <3>2, <3>4 DEF ExplorerInv
    <3>8. (heard \subseteq E!Range(stored))' /\ heard' \subseteq RunIds
      BY <3>1 DEF ExplorerInv, E!TypeOK
    <3>9. KeyedAlike(list)'
      BY <3>4 DEF KeyedAlike
    <3>10. QED
      BY <3>4, <3>6, <3>7, <3>8, <3>9
  <2>4. CASE E!ListSettles
    <3>1. PICK ok \in E!Outcomes(list) : list' = E!Settle(list, ok)
      BY <2>4 DEF E!ListSettles
    <3>2. heard' = heard /\ stored' = stored
      BY <2>4 DEF E!ListSettles
    <3>3. /\ list' \in Hooks /\ KeyedAlike(list') /\ list'.attempt = list.attempt
          /\ list'.effect = list.effect /\ list'.request = "none"
          /\ list'.settled.key = list.effect.key
          /\ list'.settled.attempt = list.effect.attempt
          /\ list'.settled.error = ~ok
          /\ ok => list.request = "answered" /\ list'.settled.data = list.answer
      BY <1>1, <3>1, SettleKeeps
    <3>4. PagesCover'
      BY <3>2, <3>3 DEF PagesCover, Covers, ExplorerInv
    <3>5. /\ list'.effect.attempt <= list'.attempt
          /\ list'.settled.attempt \in (0..list'.attempt) \cup {MaxReloads + 1}
      BY <1>2, <3>3 DEF ExplorerInv
    <3>6. (heard \subseteq E!Range(stored))' /\ heard' \subseteq RunIds
      BY <3>2 DEF ExplorerInv, E!TypeOK
    <3>7. KeyedAlike(list)'
      BY <3>3 DEF KeyedAlike
    <3>8. QED
      BY <3>3, <3>4, <3>5, <3>6, <3>7
  <2>5. QED
    BY <2>1, <2>2, <2>3, <2>4
<1>4. UNCHANGED <<stored, filter, chosen, detail>>
  BY DEF E!SessionCompleted, E!ListEffect, E!ListAnswered, E!ListSettles
<1>5. KeyedAlike(detail)'
  BY <1>1, <1>4 DEF KeyedAlike
<1>6. E!TypeOK'
  BY <1>1, <1>3, <1>4 DEF E!TypeOK, Hooks, Keys
<1>7. QED
  BY <1>1, <1>3, <1>4, <1>5, <1>6 DEF ExplorerInv

LEMMA DetailStep ==
  ASSUME ExplorerConstants, ExplorerInv, E!ReloadDetail \/ E!DetailEffect \/ E!DetailSettles
  PROVE  ExplorerInv'
<1> USE DEF ExplorerConstants
<1>1. /\ list \in Hooks /\ detail \in Hooks /\ KeyedAlike(list) /\ KeyedAlike(detail) /\ E!TypeOK
  BY DEF ExplorerInv
<1>2. detail' \in Hooks /\ KeyedAlike(detail')
  <2>1. CASE E!ReloadDetail
    BY <1>1, <2>1, ReloadedKeeps DEF E!ReloadDetail
  <2>2. CASE E!DetailEffect
    <3> DEFINE key == E!SelectedRunId
               hook == E!Fetching(detail, key)
               next == [hook EXCEPT !.request = "answered",
                                    !.answer = [key |-> key, runs |-> <<>>]]
    <3>1. detail' = IF key = None THEN E!Fetching(detail, None) ELSE next
      BY <2>2 DEF E!DetailEffect
    <3>2. key \in Keys
      BY SelectedTyped DEF Keys
    <3> HIDE DEF key
    <3>3. hook \in Hooks /\ KeyedAlike(hook) /\ hook.effect.key = key
      <4>1. /\ hook \in Hooks /\ KeyedAlike(hook)
            /\ hook.effect = [key |-> key, attempt |-> detail.attempt]
        BY <1>1, <3>2, FetchingKeeps
      <4> HIDE DEF hook
      <4>2. QED
        BY <4>1
    <3>9. E!Fetching(detail, None) \in Hooks /\ KeyedAlike(E!Fetching(detail, None))
      <4>1. None \in Keys
        BY DEF Keys
      <4>2. QED
        BY <1>1, <4>1, FetchingKeeps
    <3> HIDE DEF hook
    <3>4. <<>> \in Seq(RunIds)
      OBVIOUS
    <3>5. next \in Hooks /\ KeyedAlike(next)
      <4>1. next = Answered(hook, <<>>)
        BY <3>3 DEF Answered
      <4> HIDE DEF next
      <4>2. QED
        BY <3>3, <3>4, <4>1, AnsweredKeeps
    <3>6. QED
      BY <3>1, <3>5, <3>9
  <2>3. CASE E!DetailSettles
    <3>1. PICK ok \in E!Outcomes(detail) : detail' = E!Settle(detail, ok)
      BY <2>3 DEF E!DetailSettles
    <3>2. QED
      BY <1>1, <3>1, SettleKeeps
  <2>4. QED
    BY <2>1, <2>2, <2>3
<1>3. UNCHANGED <<stored, filter, chosen, list, heard>>
  BY DEF E!ReloadDetail, E!DetailEffect, E!DetailSettles
<1>4. KeyedAlike(list)' /\ KeyedAlike(detail)'
  BY <1>1, <1>2, <1>3 DEF KeyedAlike
<1>5. E!TypeOK'
  BY <1>1, <1>2, <1>3 DEF E!TypeOK, Hooks, Keys
<1>6. PagesCover'
  BY <1>3 DEF ExplorerInv, PagesCover, Covers
<1>7. QED
  BY <1>1, <1>2, <1>3, <1>4, <1>5, <1>6 DEF ExplorerInv

LEMMA ExplorerStep ==
  ASSUME ExplorerConstants, ExplorerInv, [E!Next]_E!explorerVars PROVE ExplorerInv'
<1>1. ASSUME NEW r \in RunIds, E!RunStored(r) PROVE ExplorerInv'
  <2>1. stored' = <<r>> \o stored /\ UNCHANGED <<filter, chosen, list, detail, heard>>
    BY <1>1 DEF E!RunStored
  <2>2. stored \in Seq(RunIds) /\ <<r>> \in Seq(RunIds)
    BY DEF ExplorerInv, E!TypeOK
  <2>3. stored' \in Seq(RunIds)
    BY <2>1, <2>2, ConcatProperties
  <2>4. E!Range(stored) \subseteq E!Range(stored')
    <3>1. ASSUME NEW i \in DOMAIN stored
          PROVE i + 1 \in DOMAIN stored' /\ stored'[i + 1] = stored[i]
      <4>1. Len(<<r>>) = 1 /\ i \in 1..Len(stored) /\ Len(stored) \in Nat
        BY <2>2, LenProperties
      <4>2. Len(stored') = 1 + Len(stored) /\ DOMAIN stored' = 1..Len(stored')
        BY <2>1, <2>2, <2>3, <4>1, ConcatProperties, LenProperties
      <4>3. i + 1 \in 1..(Len(<<r>>) + Len(stored)) /\ ~(i + 1 <= Len(<<r>>)) /\ i + 1 - 1 = i
        BY <4>1
      <4>4. (<<r>> \o stored)[i + 1] = stored[i + 1 - Len(<<r>>)]
        BY <2>2, <4>3, ConcatProperties
      <4>5. QED
        BY <2>1, <4>1, <4>2, <4>3, <4>4
    <3>2. QED
      BY <3>1 DEF E!Range
  <2>5. QED
    BY <2>1, <2>3, <2>4 DEF ExplorerInv, E!TypeOK, KeyedAlike, PagesCover, Covers
<1>2. ASSUME NEW r \in RunIds, E!OnSelectRun(r) PROVE ExplorerInv'
  BY <1>2 DEF E!OnSelectRun, ExplorerInv, E!TypeOK, KeyedAlike, PagesCover, Covers
<1>3. ASSUME NEW f \in Filters, E!SetFilter(f) PROVE ExplorerInv'
  BY <1>3 DEF E!SetFilter, ExplorerInv, E!TypeOK, KeyedAlike, PagesCover, Covers
<1>4. CASE UNCHANGED E!explorerVars
  BY <1>4 DEF E!explorerVars, ExplorerInv, E!TypeOK, KeyedAlike, PagesCover, Covers
<1>5. QED
  BY <1>1, <1>2, <1>3, <1>4, ListStep, DetailStep DEF E!Next

LEMMA ExplorerGoal == ASSUME ExplorerConstants, ExplorerInv PROVE E!ShowsWhatWasAsked
<1> DEFINE shown == E!Data(list, filter)
           read == E!Data(detail, E!SelectedRunId)
<1>1. shown.key \in {filter, None}
  BY DEF ExplorerInv, KeyedAlike, E!Data, E!SameKey, E!Undefined
<1>2. read.key \in {E!SelectedRunId, None}
  BY DEF ExplorerInv, KeyedAlike, E!Data, E!SameKey, E!Undefined
<1>3. ASSUME ~E!IsLoading(list, filter), ~E!Error(list, filter)
      PROVE  heard \cap Matches[filter] \subseteq E!Range(shown.runs) \/ Len(shown.runs) = ListLimit
  <2>1. filter \in Filters /\ filter # None
    BY DEF ExplorerInv, E!TypeOK, ExplorerConstants
  <2>2. E!SameKey(list, filter) /\ list.settled.attempt = list.attempt /\ ~list.settled.error
    BY <1>3, <2>1 DEF E!IsLoading, E!Error
  <2>3. list.settled.key = filter /\ shown = list.settled.data
    BY <2>2 DEF E!SameKey, E!Data
  <2>4. QED
    BY <2>1, <2>2, <2>3 DEF ExplorerInv, PagesCover, Covers
<1>4. QED
  BY <1>1, <1>2, <1>3 DEF E!ShowsWhatWasAsked

-----------------------------------------------------------------------------
(* Single sign-on                                                          *)

SignInConstants == MaxCallbacks \in Nat /\ None \notin Tenants

Redeemed(s) == callbacks[s] \cup {p[2] : p \in {q \in profiles : q[1] = s}}

(* An entry is for the tenant the state was issued for, and nothing was    *)
(* redeemed while it is there.                                             *)
EntryIsFresh(s) ==
  pendingStates[s] # None => issued[s].tenant = pendingStates[s] /\ Redeemed(s) = {}

AtMostOne(s) ==
  /\ \A c, e \in Redeemed(s) : c = e
  /\ \A c \in Redeemed(s) : c[2] = issued[s].tenant
  /\ Redeemed(s) # {} => issued[s].tenant # None

SignInInv ==
  /\ I!TypeOK
  /\ \A s \in States : EntryIsFresh(s) /\ AtMostOne(s)

(* Types, which need no more than themselves.                              *)
LEMMA SignInInitTypes == ASSUME SignInConstants PROVE I!Init => I!TypeOK
<1>1. SUFFICES ASSUME I!Init PROVE I!TypeOK
  OBVIOUS
<1>2. called \in 0..MaxCallbacks
  BY <1>1 DEF I!Init, SignInConstants
<1>3. issued \in [States -> [tenant : Tenants \cup {None}, returned : BOOLEAN]]
  BY <1>1 DEF I!Init, I!Unissued
<1>4. callbacks \in [States -> SUBSET I!Calls] /\ pendingStates \in [States -> Tenants \cup {None}]
  BY <1>1 DEF I!Init
<1>5. QED
  BY <1>1, <1>2, <1>3, <1>4 DEF I!Init, I!TypeOK

LEMMA SignInInit == ASSUME SignInConstants PROVE I!Init => SignInInv
<1>1. SUFFICES ASSUME I!Init PROVE SignInInv
  OBVIOUS
<1>2. I!TypeOK
  BY <1>1, SignInInitTypes
<1>3. ASSUME NEW s \in States PROVE Redeemed(s) = {} /\ pendingStates[s] = None
  BY <1>1, <1>3 DEF I!Init, Redeemed
<1>4. QED
  BY <1>2, <1>3 DEF SignInInv, EntryIsFresh, AtMostOne

LEMMA SignInTypeStep == ASSUME SignInConstants PROVE I!TypeOK /\ [I!Next]_I!signInVars => I!TypeOK'
<1>1. SUFFICES ASSUME I!TypeOK, [I!Next]_I!signInVars PROVE I!TypeOK'
  OBVIOUS
<1> USE DEF I!Calls
<1>2. CASE UNCHANGED I!signInVars
  BY <1>1, <1>2 DEF I!TypeOK, I!signInVars
<1>3. CASE I!InitService
  BY <1>1, <1>3 DEF I!TypeOK, I!InitService
<1>4. ASSUME NEW s \in States, I!AuthorizeReturns(s) PROVE I!TypeOK'
  BY <1>1, <1>4 DEF I!TypeOK, I!AuthorizeReturns
<1>5. ASSUME NEW s \in States, I!Expires(s) PROVE I!TypeOK'
  BY <1>1, <1>5 DEF I!TypeOK, I!Expires
<1>6. ASSUME NEW s \in States, I!Exchanged(s) PROVE I!TypeOK'
  <2>1. PICK c \in callbacks[s] :
          /\ callbacks' = [callbacks EXCEPT ![s] = @ \ {c}]
          /\ profiles' = profiles \cup {<<s, c>>} \/ UNCHANGED profiles
    BY <1>6 DEF I!Exchanged
  <2>2. UNCHANGED <<oauthController, pendingStates, expired, issued, called>>
    BY <1>6 DEF I!Exchanged
  <2>3. c \in I!Calls
    BY <1>1 DEF I!TypeOK
  <2>4. callbacks' \in [States -> SUBSET I!Calls] /\ profiles' \subseteq States \X I!Calls
    BY <1>1, <2>1, <2>3 DEF I!TypeOK
  <2>5. QED
    BY <1>1, <2>2, <2>4 DEF I!TypeOK
<1>7. ASSUME NEW s \in States, NEW tenant \in Tenants, I!Authorize(s, tenant) PROVE I!TypeOK'
  BY <1>1, <1>7 DEF I!TypeOK, I!Authorize
<1>8. ASSUME NEW s \in States, NEW tenant \in Tenants, I!Callback(s, tenant) PROVE I!TypeOK'
  <2>1. called \in 0..(MaxCallbacks - 1) /\ called' = called + 1 /\ called' \in 0..MaxCallbacks
    BY <1>1, <1>8 DEF I!TypeOK, I!Callback, SignInConstants
  <2>2. callbacks' \in [States -> SUBSET I!Calls]
    BY <1>1, <1>8, <2>1 DEF I!TypeOK, I!Callback
  <2>3. pendingStates' \in [States -> Tenants \cup {None}]
    BY <1>1, <1>8 DEF I!TypeOK, I!Callback, I!Delete
  <2>4. UNCHANGED <<oauthController, expired, issued, profiles>>
    BY <1>8 DEF I!Callback
  <2>5. QED
    BY <1>1, <2>1, <2>2, <2>3, <2>4 DEF I!TypeOK
<1>9. QED
  BY <1>1, <1>2, <1>3, <1>4, <1>5, <1>6, <1>7, <1>8 DEF I!Next

(* What is redeemed for a state changes in callback() only, and there by   *)
(* no more than the callback itself.                                       *)
LEMMA RedeemedStep ==
  ASSUME SignInInv, [I!Next]_I!signInVars, NEW s \in States
  PROVE  \/ Redeemed(s)' \subseteq Redeemed(s)
         \/ \E tenant \in Tenants :
              /\ I!Callback(s, tenant) /\ I!Redeemable(s, tenant)
              /\ Redeemed(s)' \subseteq Redeemed(s) \cup {<<called, tenant>>}
<1> USE DEF SignInInv, I!TypeOK
<1>1. CASE UNCHANGED <<callbacks, profiles>>
  BY <1>1 DEF Redeemed
<1>2. ASSUME NEW t \in States, I!Exchanged(t) PROVE Redeemed(s)' \subseteq Redeemed(s)
  BY <1>2 DEF I!Exchanged, Redeemed
<1>3. ASSUME NEW t \in States, NEW tenant \in Tenants, I!Callback(t, tenant),
             ~(t = s /\ I!Redeemable(t, tenant))
      PROVE  Redeemed(s)' \subseteq Redeemed(s)
  BY <1>3 DEF I!Callback, Redeemed
<1>4. ASSUME NEW tenant \in Tenants, I!Callback(s, tenant), I!Redeemable(s, tenant)
      PROVE  Redeemed(s)' \subseteq Redeemed(s) \cup {<<called, tenant>>}
  BY <1>4 DEF I!Callback, Redeemed
<1>5. QED
  BY <1>1, <1>2, <1>3, <1>4
     DEF I!Next, I!signInVars, I!InitService, I!AuthorizeReturns, I!Expires, I!Authorize

(* An entry appears with its state, and the tenant of a state is set once. *)
LEMMA EntryStep ==
  ASSUME SignInConstants, SignInInv, [I!Next]_I!signInVars, NEW s \in States
  PROVE  /\ issued[s].tenant # None => issued'[s].tenant = issued[s].tenant
         /\ pendingStates'[s] \notin {None, pendingStates[s]} =>
              issued[s].tenant = None /\ issued'[s].tenant = pendingStates'[s]
<1> USE DEF SignInInv, I!TypeOK
<1>1. CASE UNCHANGED <<issued, pendingStates>>
  BY <1>1
<1>2. ASSUME NEW t \in States, NEW tenant \in Tenants, I!Authorize(t, tenant)
      PROVE  /\ issued[s].tenant # None => issued'[s].tenant = issued[s].tenant
             /\ pendingStates'[s] \notin {None, pendingStates[s]} =>
                  issued[s].tenant = None /\ issued'[s].tenant = pendingStates'[s]
  BY <1>2 DEF I!Authorize, I!Unissued
<1>3. ASSUME NEW t \in States, NEW tenant \in Tenants, I!Callback(t, tenant)
      PROVE  issued' = issued /\ pendingStates'[s] \in {None, pendingStates[s]}
  BY <1>3 DEF I!Callback, I!Delete
<1>4. ASSUME NEW t \in States, I!AuthorizeReturns(t)
      PROVE  issued'[s].tenant = issued[s].tenant /\ pendingStates' = pendingStates
  BY <1>4 DEF I!AuthorizeReturns
<1>5. QED
  BY <1>1, <1>2, <1>3, <1>4 DEF I!Next, I!signInVars, I!InitService, I!Expires, I!Exchanged

LEMMA SignInStep == ASSUME SignInConstants PROVE SignInInv /\ [I!Next]_I!signInVars => SignInInv'
<1>1. SUFFICES ASSUME SignInInv, [I!Next]_I!signInVars, NEW s \in States
               PROVE  (EntryIsFresh(s) /\ AtMostOne(s))'
  BY SignInTypeStep DEF SignInInv
<1>2. EntryIsFresh(s) /\ AtMostOne(s)
  BY <1>1 DEF SignInInv
<1>3. CASE Redeemed(s)' \subseteq Redeemed(s)
  <2>1. /\ issued[s].tenant # None => issued'[s].tenant = issued[s].tenant
        /\ pendingStates'[s] \notin {None, pendingStates[s]} =>
             issued[s].tenant = None /\ issued'[s].tenant = pendingStates'[s]
    BY <1>1, EntryStep
  <2>2. issued[s].tenant = None => Redeemed(s) = {}
    BY <1>2 DEF AtMostOne
  <2>3. EntryIsFresh(s)'
    BY <1>2, <1>3, <2>1, <2>2 DEF EntryIsFresh
  <2>4. AtMostOne(s)'
    BY <1>2, <1>3, <2>1, <2>2 DEF AtMostOne
  <2>5. QED
    BY <2>3, <2>4
<1>4. ASSUME NEW tenant \in Tenants, I!Callback(s, tenant), I!Redeemable(s, tenant),
             Redeemed(s)' \subseteq Redeemed(s) \cup {<<called, tenant>>}
      PROVE  (EntryIsFresh(s) /\ AtMostOne(s))'
  <2>1. Redeemed(s) = {} /\ issued[s].tenant = tenant /\ tenant # None
    BY <1>2, <1>4 DEF EntryIsFresh, I!Redeemable, SignInConstants
  <2>2. issued' = issued /\ pendingStates'[s] = None
    BY <1>1, <1>4 DEF I!Callback, I!Delete, SignInInv, I!TypeOK
  <2>3. QED
    BY <1>4, <2>1, <2>2 DEF EntryIsFresh, AtMostOne
<1>5. QED
  BY <1>1, <1>3, <1>4, RedeemedStep

LEMMA SignInGoal == ASSUME SignInConstants, SignInInv PROVE I!RedeemedOnce
<1>1. SUFFICES ASSUME NEW s \in States
               PROVE  /\ Cardinality(Redeemed(s)) <= 1
                      /\ \A c \in Redeemed(s) : c[2] = issued[s].tenant
                      /\ Redeemed(s) # {} => pendingStates[s] = None
  BY ServerCounts DEF I!RedeemedOnce, Redeemed
<1>2. EntryIsFresh(s) /\ AtMostOne(s)
  BY DEF SignInInv
<1>3. Cardinality(Redeemed(s)) <= 1
  <2>1. CASE Redeemed(s) = {}
    BY <2>1, FS_EmptySet
  <2>2. CASE Redeemed(s) # {}
    <3>1. PICK c : c \in Redeemed(s)
      BY <2>2
    <3>2. Redeemed(s) = {c}
      BY <1>2, <3>1 DEF AtMostOne
    <3>3. Cardinality({c}) = 1
      BY FS_Singleton
    <3>4. QED
      BY <3>2, <3>3
  <2>3. QED
    BY <2>1, <2>2
<1>4. QED
  BY <1>2, <1>3 DEF EntryIsFresh, AtMostOne

-----------------------------------------------------------------------------
(* All parts, of which one takes steps.                                    *)

ServerInv ==
  AdmissionInv /\ VerdictInv /\ ApiInv /\ PromiseInv /\ ExplorerInv /\ SignInInv

LEMMA ServerConstantsHold ==
  /\ AdmissionConstants /\ VerdictConstants /\ ApiConstants
  /\ PromiseConstants /\ ExplorerConstants /\ SignInConstants
<1> USE ComponentsAssumption DEF ComponentsAssumption
<1>1. AdmissionConstants /\ VerdictConstants
  BY DEF AdmissionConstants, VerdictConstants
<1>2. ApiConstants
  <2> DEFINE n == Cardinality(Demo)
  <2>1. n \in Nat
    BY FS_CardinalityType
  <2>2. Demo = 1..n
    OBVIOUS
  <2> HIDE DEF n
  <2>3. QED
    BY <2>1, <2>2 DEF ApiConstants
<1>3. PromiseConstants /\ ExplorerConstants /\ SignInConstants
  BY DEF PromiseConstants, ExplorerConstants, SignInConstants
<1>4. QED
  BY <1>1, <1>2, <1>3

LEMMA ServerInit == Init => ServerInv
<1>1. SUFFICES ASSUME Init PROVE ServerInv
  OBVIOUS
<1>2. A!Init /\ V!Init /\ S!Init /\ J!Init /\ E!Init /\ I!Init
  BY <1>1 DEF Init
<1>3. AdmissionInv /\ VerdictInv /\ ApiInv
  BY <1>2, ServerConstantsHold, AdmissionInit, VerdictInit, ApiInit
<1>4. PromiseInv /\ ExplorerInv /\ SignInInv
  BY <1>2, ServerConstantsHold, PromiseInit, ExplorerInit, SignInInit
<1>5. QED
  BY <1>3, <1>4 DEF ServerInv

(* A step is one of a part, or leaves the part alone.                      *)
LEMMA ServerAlone ==
  ASSUME [Next]_vars
  PROVE  /\ [A!Next]_A!admissionVars /\ [V!Next]_V!verdictVars /\ [S!Next]_S!apiVars
         /\ [J!Next]_J!promiseVars /\ [E!Next]_E!explorerVars /\ [I!Next]_I!signInVars
<1> USE DEF Search, FaultDrivers, Judging, Python, Server, serverVars, verdictsVars
<1>1. A!Next \/ UNCHANGED admissionVars
  BY DEF Next, vars
<1>2. V!Next \/ UNCHANGED verdictVars
  BY DEF Next, vars
<1>3. S!Next \/ UNCHANGED apiVars
  BY DEF Next, vars
<1>4. J!Next \/ UNCHANGED promiseVars
  BY DEF Next, vars
<1>5. E!Next \/ UNCHANGED explorerVars
  BY DEF Next, vars
<1>6. I!Next \/ UNCHANGED signInVars
  BY DEF Next, vars
<1>7. [A!Next]_A!admissionVars /\ [V!Next]_V!verdictVars /\ [S!Next]_S!apiVars
  BY <1>1, <1>2, <1>3
     DEF admissionVars, A!admissionVars, verdictVars, V!verdictVars, apiVars, S!apiVars
<1>8. [J!Next]_J!promiseVars /\ [E!Next]_E!explorerVars /\ [I!Next]_I!signInVars
  BY <1>4, <1>5, <1>6
     DEF promiseVars, J!promiseVars, explorerVars, E!explorerVars, signInVars, I!signInVars
<1>9. QED
  BY <1>7, <1>8

LEMMA ServerStep == ServerInv /\ [Next]_vars => ServerInv'
<1>1. SUFFICES ASSUME ServerInv, [Next]_vars PROVE ServerInv'
  OBVIOUS
<1>2. /\ [A!Next]_A!admissionVars /\ [V!Next]_V!verdictVars /\ [S!Next]_S!apiVars
      /\ [J!Next]_J!promiseVars /\ [E!Next]_E!explorerVars /\ [I!Next]_I!signInVars
  BY <1>1, ServerAlone
<1>3. AdmissionInv' /\ VerdictInv'
  BY <1>1, <1>2, ServerConstantsHold, AdmissionStep, VerdictStep DEF ServerInv
<1>4. ApiInv' /\ PromiseInv'
  BY <1>1, <1>2, ServerConstantsHold, ApiStep, PromiseStep DEF ServerInv
<1>5. ExplorerInv' /\ SignInInv'
  BY <1>1, <1>2, ServerConstantsHold, ExplorerStep, SignInStep DEF ServerInv
<1>6. QED
  BY <1>3, <1>4, <1>5 DEF ServerInv

LEMMA ServerInvariant == Spec => []ServerInv
BY ServerInit, ServerStep, PTL DEF Spec

(* For any finite number of sessions and any limits: the plan pays for     *)
(* every run that is queued and for no more than it allows, a self-hosted  *)
(* organization for none, and the queue exceeds its limit only if the      *)
(* backlog was counted while another session was on its way into it        *)
(* (enforcement.ts:34, metering.ts:26, limits.ts:42).                      *)
THEOREM LimitsAreKept == Spec => []LimitsHold
<1>1. ServerInv => LimitsHold
  BY AdmissionGoal DEF ServerInv, LimitsHold
<1>2. QED
  BY <1>1, ServerInvariant, PTL

(* For any finite number of runs: the summary, the exit code, the JUnit    *)
(* report and the verdict of a replay agree with the records of the runs   *)
(* (cli/src/index.ts:141); a replay blames a workflow that depends on      *)
(* nothing but its seed only for a CLOCK fault, whose times are real, for  *)
(* a PROCESS fault, whose pid is, or for a malformed schedule.             *)
THEOREM VerdictsNeverDiffer == Spec => []VerdictsAgree
<1>1. ServerInv => VerdictsAgree
  BY ServerConstantsHold, VerdictGoal DEF ServerInv, VerdictsAgree
<1>2. QED
  BY <1>1, ServerInvariant, PTL

(* For any number of demo sessions, uploads and starts, each in an         *)
(* environment of its own: demo sessions are created among no others, and  *)
(* each was tried before the first request: it is there, was swept, or its *)
(* creation failed and was ignored (server.ts:45, demo-seed.ts:158).       *)
THEOREM DemoStaysApart == Spec => []DemoApart
<1>1. ServerInv => DemoApart
  BY ApiGoal DEF ServerInv, DemoApart
<1>2. QED
  BY <1>1, ServerInvariant, PTL

(* For any runs, evidence and number of sessions, whatever the other       *)
(* sub-promise gives each run and though the file may fail: allOf and      *)
(* anyOf judge a run as its parts would by themselves, and a snapshot      *)
(* fails only if some run of the last session that wrote it had other      *)
(* evidence, or a write of the file failed (promise.ts:95-179).            *)
THEOREM PromisesAreJudged == Spec => []JudgedByItsParts
<1>1. ServerInv => JudgedByItsParts
  BY ServerConstantsHold, PromiseGoal DEF ServerInv, JudgedByItsParts
<1>2. QED
  BY <1>1, ServerInvariant, PTL

(* For any runs, filters, page size and number of reloads: what the        *)
(* explorer shows is the answer to its present filter and selection, and a *)
(* list that has settled has all runs heard of that fit on the page        *)
(* (useApiQuery.ts:66).                                                    *)
THEOREM ExplorerShowsAnswers == Spec => []ShowsWhatWasAsked
<1>1. ServerInv => ShowsWhatWasAsked
  BY ServerConstantsHold, ExplorerGoal DEF ServerInv, ShowsWhatWasAsked
<1>2. QED
  BY <1>1, ServerInvariant, PTL

(* For any number of states, tenants and callbacks: a state is redeemed    *)
(* once, for the tenant it was issued for (sso.ts:107-117).                *)
THEOREM StatesAreRedeemedOnce == Spec => []RedeemedOnce
<1>1. ServerInv => RedeemedOnce
  BY ServerConstantsHold, SignInGoal DEF ServerInv, RedeemedOnce
<1>2. QED
  BY <1>1, ServerInvariant, PTL

-----------------------------------------------------------------------------
(* Types                                                                   *)

LEMMA PartStays == Spec => [](part \in Parts)
<1>1. Init => part \in Parts
  BY DEF Init
<1>2. part \in Parts /\ [Next]_vars => (part \in Parts)'
  BY DEF Next, Search, FaultDrivers, Judging, Python, Server, vars
<1>3. QED
  BY <1>1, <1>2, PTL DEF Spec

(* For all values of the constants: every variable of the part that runs   *)
(* holds what the code can put there.                                      *)
THEOREM TypesHold == Spec => []TypeOK
<1>1. ASSUME FaultsInv, ServerInv, part \in Parts PROVE TypeOK
  <2>1. UcbTypeOK
    BY <1>1 DEF FaultsInv, UcbInv
  <2>2. M!TypeOK /\ B!TypeOK
    BY <1>1, ConstantsHold, MctsGoal, BayesGoal DEF FaultsInv
  <2>3. P!TypeOK
    BY <1>1 DEF FaultsInv, PressureInv, Sound, Pressures, P!TypeOK
  <2>4. Q!TypeOK /\ G!TypeOK
    BY <1>1 DEF FaultsInv, QueryInv, MessageInv
  <2>5. F!TypeOK /\ Y!TypeOK
    BY <1>1 DEF FaultsInv, RoutingInv, PythonInv
  <2>6. V!TypeOK /\ A!TypeOK /\ S!TypeOK
    BY <1>1 DEF ServerInv, VerdictInv, AdmissionInv, ApiInv
  <2>7. E!TypeOK /\ I!TypeOK /\ J!TypeOK
    BY <1>1 DEF ServerInv, ExplorerInv, SignInInv, PromiseInv
  <2>8. QED
    BY <1>1, <2>1, <2>2, <2>3, <2>4, <2>5, <2>6, <2>7 DEF TypeOK, Parts
<1>2. QED
  BY <1>1, FaultsInvariant, ServerInvariant, PartStays, PTL

=============================================================================
