---------------------------- MODULE FaultsProofs ----------------------------
(***************************************************************************)
(* The safety of the fault drivers, of the clock of the Python SDK and of  *)
(* the shrinking of UCB1, for any number of drivers, messages, runs, tasks *)
(* and templates: each part has an inductive invariant, and the steps of   *)
(* the others leave its variables alone.                                   *)
(***************************************************************************)
EXTENDS MCComponents, FiniteSetTheorems, SequenceTheorems, TLAPS

(* Every instance counts alike.                                            *)
LEMMA CountsAlike ==
  \A some : /\ P!Cardinality(some) = Cardinality(some)
            /\ Q!Cardinality(some) = Cardinality(some)
            /\ F!Cardinality(some) = Cardinality(some)
            /\ K!Cardinality(some) = Cardinality(some)
            /\ M!Cardinality(some) = Cardinality(some)
            /\ B!Cardinality(some) = Cardinality(some)
            /\ Y!Cardinality(some) = Cardinality(some)
BY DEF P!Cardinality, Q!Cardinality, F!Cardinality, K!Cardinality, M!Cardinality,
       B!Cardinality, Y!Cardinality, Cardinality

LEMMA UptoMany == ASSUME NEW k \in Nat PROVE IsFiniteSet(1..k) /\ Cardinality(1..k) = k
BY FS_Interval

-----------------------------------------------------------------------------
(* Shrinking                                                               *)

UcbConstants == None \notin Seq(Ids) /\ None \notin Nat

(* What is left of a batch without one of its faults.                      *)
LEMMA PrunedShape ==
  ASSUME NEW batch \in Seq(Ids)
  PROVE  /\ \A i \in DOMAIN batch : /\ RemoveAt(batch, i) \in Seq(Ids)
                                    /\ Len(RemoveAt(batch, i)) + 1 = Len(batch)
         /\ Pruned(batch) \in Seq(Seq(Ids))
         /\ DOMAIN Pruned(batch) = DOMAIN batch
         /\ \A i \in DOMAIN batch : Pruned(batch)[i] = RemoveAt(batch, i)
<1>1. Len(batch) \in Nat /\ DOMAIN batch = 1..Len(batch)
  BY LenProperties
<1>2. ASSUME NEW i \in DOMAIN batch
      PROVE  RemoveAt(batch, i) \in Seq(Ids) /\ Len(RemoveAt(batch, i)) + 1 = Len(batch)
  <2> DEFINE before == SubSeq(batch, 1, i - 1)
             after == SubSeq(batch, i + 1, Len(batch))
  <2>1. /\ before \in Seq(Ids) /\ Len(before) = i - 1
        /\ after \in Seq(Ids) /\ Len(after) = Len(batch) - i
    BY <1>1, <1>2
  <2>2. RemoveAt(batch, i) = before \o after
    BY DEF RemoveAt
  <2> HIDE DEF before, after
  <2>3. before \o after \in Seq(Ids) /\ Len(before \o after) = Len(before) + Len(after)
    BY <2>1, ConcatProperties
  <2>4. Len(before \o after) = (i - 1) + (Len(batch) - i)
    BY <2>1, <2>3
  <2> DEFINE n == Len(batch)
             k == Len(before \o after)
  <2>5. i \in Nat /\ n \in Nat /\ k = (i - 1) + (n - i)
    BY <1>1, <2>4
  <2> HIDE DEF n, k
  <2>6. k + 1 = n
    BY ONLY <2>5
  <2>7. QED
    BY <2>2, <2>3, <2>6 DEF n, k
<1>3. Pruned(batch) \in [1..Len(batch) -> Seq(Ids)]
  BY <1>1, <1>2 DEF Pruned
<1>4. Pruned(batch) \in Seq(Seq(Ids))
  BY <1>1, <1>3, IsASeq
<1>5. QED
  BY <1>1, <1>2, <1>3, <1>4 DEF Pruned

(* The methods of the strategy.                                            *)
SameShrinking(s, t) ==
  /\ s.shrinkMode = t.shrinkMode /\ s.shrinkAnchor = t.shrinkAnchor
  /\ s.shrinkQueue = t.shrinkQueue /\ s.minimalFailing = t.minimalFailing

LEMMA CoverKeeps ==
  ASSUME NEW s \in Strategies, NEW batch, NEW passed \in BOOLEAN
  PROVE  Cover(s, batch, passed) \in Strategies /\ SameShrinking(Cover(s, batch, passed), s)
<1> DEFINE hit == {Bucket(s, batch[i]) : i \in DOMAIN batch}
           p == [b \in Buckets |-> IF b \in hit /\ s.pending[b] > 0 THEN s.pending[b] - 1
                                   ELSE s.pending[b]]
           v == [b \in Buckets |-> IF b \in hit THEN s.visits[b] + 1 ELSE s.visits[b]]
           f == [b \in Buckets |-> IF b \in hit /\ ~passed THEN s.failures[b] + 1
                                   ELSE s.failures[b]]
<1>1. /\ s.pending \in [Buckets -> Nat] /\ s.visits \in [Buckets -> Nat]
      /\ s.failures \in [Buckets -> Nat]
  BY DEF Strategies
<1>2. p \in [Buckets -> Nat] /\ v \in [Buckets -> Nat] /\ f \in [Buckets -> Nat]
  <2> HIDE DEF hit
  <2>1. QED
    BY <1>1
<1>3. Cover(s, batch, passed) = [s EXCEPT !.pending = p, !.visits = v, !.failures = f]
  BY DEF Cover
<1> HIDE DEF p, v, f
<1>4. QED
  BY <1>2, <1>3 DEF Strategies, SameShrinking

LEMMA IssueKeeps ==
  ASSUME NEW s \in Strategies, NEW pick \in [Templates -> TemplateSpace]
  PROVE  /\ Issue(s, pick) \in Strategies /\ ~Issue(s, pick).shrinkMode
         /\ Issue(s, pick).shrinkAnchor = s.shrinkAnchor
         /\ Issue(s, pick).shrinkQueue = s.shrinkQueue
         /\ Issue(s, pick).minimalFailing = s.minimalFailing
<1> DEFINE p == [b \in Buckets |-> s.pending[b] + IF pick[b[1]] = b[2] THEN 1 ELSE 0]
           n == Append(s.issued, pick)
<1>1. p \in [Buckets -> Nat]
  BY DEF Strategies
<1>2. n \in Seq([Templates -> TemplateSpace])
  BY DEF Strategies
<1>3. Issue(s, pick) = [s EXCEPT !.shrinkMode = FALSE, !.issued = n, !.pending = p]
  BY DEF Issue
<1> HIDE DEF p, n
<1>4. QED
  BY <1>1, <1>2, <1>3 DEF Strategies

LEMMA FreshTyped ==
  ASSUME NEW s \in Strategies PROVE Fresh(s) \in Seq(Ids) /\ Len(Fresh(s)) = NumTemplates
<1> DEFINE n == Len(s.issued) + 1
           fresh == [t \in 1..NumTemplates |-> <<n, t>>]
<1>1. n \in Nat \ {0}
  <2>1. s.issued \in Seq([Templates -> TemplateSpace])
    BY DEF Strategies
  <2>2. Len(s.issued) \in Nat
    BY <2>1, LenProperties
  <2>3. QED
    BY <2>2
<1>2. NumTemplates \in Nat
  BY UcbAssumption
<1>3. Fresh(s) = fresh
  BY DEF Fresh, Templates
<1> HIDE DEF n
<1>4. fresh \in [1..NumTemplates -> Ids]
  BY <1>1 DEF Ids, Templates
<1>5. QED
  BY <1>2, <1>3, <1>4

LEMMA AdoptSets ==
  ASSUME NEW s \in Strategies, NEW batch \in Seq(Ids)
  PROVE  /\ Adopt(s, batch) \in Strategies /\ Adopt(s, batch).shrinkMode
         /\ Adopt(s, batch).shrinkAnchor = batch
         /\ Adopt(s, batch).shrinkQueue = Pruned(batch)
         /\ Adopt(s, batch).minimalFailing =
              IF s.minimalFailing = None \/ Len(batch) < Len(s.minimalFailing) THEN batch
              ELSE s.minimalFailing
<1> DEFINE q == Pruned(batch)
           m == IF s.minimalFailing = None \/ Len(batch) < Len(s.minimalFailing) THEN batch
                ELSE s.minimalFailing
<1>1. q \in Seq(Seq(Ids))
  BY PrunedShape
<1>2. m \in Seq(Ids) \cup {None}
  BY DEF Strategies
<1>3. Adopt(s, batch) = [s EXCEPT !.shrinkMode = TRUE, !.shrinkAnchor = batch,
                                  !.shrinkQueue = q, !.minimalFailing = m]
  BY DEF Adopt
<1> HIDE DEF q, m
<1>4. QED
  BY <1>1, <1>2, <1>3 DEF Strategies, q, m

LEMMA FeedbackKeeps ==
  ASSUME NEW s \in Strategies, NEW batch \in Seq(Ids), NEW passed \in BOOLEAN
  PROVE  /\ Feedback(s, batch, passed) \in Strategies
         /\ Adopts(s, batch, passed) =>
              SameShrinking(Feedback(s, batch, passed), Adopt(s, batch))
         /\ ~Adopts(s, batch, passed) => SameShrinking(Feedback(s, batch, passed), s)
<1>1. Adopt(s, batch) \in Strategies
  BY AdoptSets
<1>2. CASE Adopts(s, batch, passed)
  <2>1. Feedback(s, batch, passed) = Cover(Adopt(s, batch), batch, passed)
    BY <1>2 DEF Feedback
  <2>2. QED
    BY <1>1, <1>2, <2>1, CoverKeeps
<1>3. CASE ~Adopts(s, batch, passed)
  <2>1. Feedback(s, batch, passed) = Cover(s, batch, passed)
    BY <1>3 DEF Feedback
  <2>2. QED
    BY <1>3, <2>1, CoverKeeps
<1>4. QED
  BY <1>2, <1>3

LEMMA ExportedKeeps ==
  ASSUME NEW s \in Strategies
  PROVE  /\ Exported(s) \in Strategies /\ Exported(s).minimalFailing = None
         /\ Exported(s).shrinkMode = s.shrinkMode /\ Exported(s).shrinkAnchor = s.shrinkAnchor
         /\ Exported(s).shrinkQueue = s.shrinkQueue
<1>1. Zero \in [Buckets -> Nat]
  BY DEF Zero
<1>2. QED
  BY <1>1 DEF Exported, Strategies

(* Without shrinking nothing is queued; what is queued is one fault        *)
(* smaller than the anchor, and the smallest failure is no larger.         *)
Orderly(s) ==
  /\ s.shrinkMode => s.shrinkAnchor # None
  /\ ~s.shrinkMode => s.shrinkQueue = <<>>
  /\ \A j \in DOMAIN s.shrinkQueue :
       s.shrinkAnchor # None /\ Len(s.shrinkQueue[j]) + 1 = Len(s.shrinkAnchor)
  /\ s.minimalFailing # None =>
       s.shrinkAnchor # None /\ Len(s.minimalFailing) <= Len(s.shrinkAnchor)

LEMMA OrderlyAlike ==
  ASSUME NEW s, NEW t, SameShrinking(t, s), Orderly(s) PROVE Orderly(t)
BY DEF SameShrinking, Orderly

LEMMA AdoptIsOrderly ==
  ASSUME UcbConstants, NEW s \in Strategies, NEW batch \in Seq(Ids)
  PROVE  /\ Orderly(Adopt(s, batch)) /\ Adopt(s, batch).minimalFailing # None
         /\ Len(Adopt(s, batch).minimalFailing) =
              IF s.minimalFailing = None \/ Len(batch) < Len(s.minimalFailing) THEN Len(batch)
              ELSE Len(s.minimalFailing)
<1> DEFINE t == Adopt(s, batch)
<1>1. /\ t.shrinkMode /\ t.shrinkAnchor = batch /\ t.shrinkQueue = Pruned(batch)
      /\ t.minimalFailing = IF s.minimalFailing = None \/ Len(batch) < Len(s.minimalFailing)
                              THEN batch ELSE s.minimalFailing
  BY AdoptSets
<1>2. batch # None /\ Len(batch) \in Nat
  BY LenProperties DEF UcbConstants
<1>3. s.minimalFailing # None => s.minimalFailing \in Seq(Ids) /\ Len(s.minimalFailing) \in Nat
  <2>1. s.minimalFailing \in Seq(Ids) \cup {None}
    BY DEF Strategies
  <2>2. QED
    BY <2>1, LenProperties
<1>4. \A j \in DOMAIN Pruned(batch) : Len(Pruned(batch)[j]) + 1 = Len(batch)
  BY PrunedShape
<1>5. t.minimalFailing # None /\ Len(t.minimalFailing) <= Len(batch)
  BY <1>1, <1>2, <1>3
<1> HIDE DEF t
<1>6. Orderly(t)
  BY <1>1, <1>2, <1>4, <1>5 DEF Orderly
<1>7. QED
  BY <1>1, <1>2, <1>3, <1>5, <1>6 DEF t

-----------------------------------------------------------------------------
(* Every set one fault smaller than the smallest failure passed, is under  *)
(* way or is queued.                                                       *)
PrunedIsTried ==
  ucb.minimalFailing # None =>
    \A i \in DOMAIN ucb.minimalFailing :
      LET pruned == RemoveAt(ucb.minimalFailing, i)
      IN \/ pruned \in cleared
         \/ \E w \in Workers : held[w] = pruned
         \/ \E j \in DOMAIN ucb.shrinkQueue : ucb.shrinkQueue[j] = pruned

UcbInv ==
  /\ UcbTypeOK /\ resumes \in Nat
  /\ Orderly(ucb)
  /\ snapshot # None => Orderly(snapshot) /\ snapshot.minimalFailing = None
  /\ resumes = 0 /\ ucb.shrinkMode => ucb.minimalFailing # None
  /\ MinimalIsSmallest
  /\ PrunedIsTried

LEMMA UcbStarts == ASSUME UcbConstants PROVE UcbInit => UcbInv
<1>1. SUFFICES ASSUME UcbInit PROVE UcbInv
  OBVIOUS
<1>2. Zero \in [Buckets -> Nat]
  BY DEF Zero
<1>3. /\ New \in Strategies /\ New.shrinkMode = FALSE /\ New.shrinkQueue = <<>>
      /\ New.minimalFailing = None
  <2>1. /\ <<>> \in Seq([Templates -> TemplateSpace]) /\ <<>> \in Seq(Seq(Ids))
    BY EmptySeq
  <2>2. QED
    BY <1>2, <2>1 DEF New, Strategies
<1>4. UcbTypeOK /\ resumes = 0
  BY <1>1, <1>3 DEF UcbInit, UcbTypeOK
<1>5. Orderly(New)
  BY <1>3 DEF Orderly
<1>6. QED
  BY <1>1, <1>3, <1>4, <1>5 DEF UcbInit, UcbInv, MinimalIsSmallest, PrunedIsTried

LEMMA UcbTypes ==
  ASSUME UcbTypeOK, UcbNext PROVE UcbTypeOK'
<1>1. /\ ucb \in Strategies /\ held \in [Workers -> Seq(Ids) \cup {None}]
      /\ snapshot \in Strategies \cup {None} /\ smallest \in Nat \cup {None}
      /\ cleared \subseteq Seq(Ids)
  BY DEF UcbTypeOK
<1>2. ASSUME NEW w \in Workers, TakePruned(w) PROVE UcbTypeOK'
  <2>1. ucb.shrinkQueue \in Seq(Seq(Ids)) /\ ucb.shrinkQueue # <<>>
    BY <1>1, <1>2 DEF TakePruned, Shrinking, Strategies
  <2>2. Head(ucb.shrinkQueue) \in Seq(Ids) /\ Tail(ucb.shrinkQueue) \in Seq(Seq(Ids))
    BY <2>1, HeadTailProperties
  <2>3. /\ ucb' = [ucb EXCEPT !.shrinkQueue = Tail(@)]
        /\ held' = [held EXCEPT ![w] = Head(ucb.shrinkQueue)]
        /\ UNCHANGED <<snapshot, resumes, smallest, cleared>>
    BY <1>2 DEF TakePruned
  <2>4. ucb' \in Strategies
    BY <1>1, <2>2, <2>3 DEF Strategies
  <2>5. held' \in [Workers -> Seq(Ids) \cup {None}]
    BY <1>1, <2>2, <2>3
  <2>6. QED
    BY <1>1, <2>3, <2>4, <2>5 DEF UcbTypeOK
<1>3. ASSUME NEW w \in Workers, Explore(w) PROVE UcbTypeOK'
  <2>1. PICK pick \in [Templates -> TemplateSpace] :
          /\ ucb' = Issue(ucb, pick) /\ held' = [held EXCEPT ![w] = Fresh(ucb)]
          /\ UNCHANGED <<snapshot, resumes, smallest, cleared>>
    BY <1>3 DEF Explore
  <2>2. Fresh(ucb) \in Seq(Ids)
    BY <1>1, FreshTyped
  <2>3. QED
    BY <1>1, <2>1, <2>2, IssueKeeps DEF UcbTypeOK
<1>4. ASSUME NEW w \in Workers, ExploreMalformed(w) PROVE UcbTypeOK'
  <2>1. PICK pick \in [Templates -> TemplateSpace] :
          /\ ucb' = Feedback(Issue(ucb, pick), <<>>, FALSE) /\ smallest' = 0
          /\ UNCHANGED <<held, snapshot, resumes, cleared>>
    BY <1>4 DEF ExploreMalformed
  <2>2. <<>> \in Seq(Ids) /\ Issue(ucb, pick) \in Strategies
    BY <1>1, EmptySeq, IssueKeeps
  <2>3. ucb' \in Strategies
    BY <2>1, <2>2, FeedbackKeeps
  <2>4. QED
    BY <1>1, <2>1, <2>3 DEF UcbTypeOK
<1>5. ASSUME NEW w \in Workers, Report(w) PROVE UcbTypeOK'
  <2>1. PICK passed \in BOOLEAN :
          /\ held[w] # None /\ ucb' = Feedback(ucb, held[w], passed)
          /\ held' = [held EXCEPT ![w] = None]
          /\ smallest' = IF passed THEN smallest ELSE Smaller(Len(held[w]))
          /\ cleared' = IF passed THEN cleared \cup {held[w]} ELSE cleared
          /\ UNCHANGED <<snapshot, resumes>>
    BY <1>5 DEF Report
  <2>2. held[w] \in Seq(Ids)
    BY <1>1, <2>1
  <2>3. Len(held[w]) \in Nat
    BY <2>2, LenProperties
  <2>4. ucb' \in Strategies
    BY <1>1, <2>1, <2>2, FeedbackKeeps
  <2>5. smallest' \in Nat \cup {None}
    BY <1>1, <2>1, <2>3 DEF Smaller
  <2>6. QED
    BY <1>1, <2>1, <2>2, <2>4, <2>5 DEF UcbTypeOK
<1>6. ASSUME ExportStrategy PROVE UcbTypeOK'
  BY <1>1, <1>6, ExportedKeeps DEF ExportStrategy, UcbTypeOK
<1>7. ASSUME ResumeStrategy PROVE UcbTypeOK'
  BY <1>1, <1>7 DEF ResumeStrategy, UcbTypeOK
<1>8. QED
  BY <1>2, <1>3, <1>4, <1>5, <1>6, <1>7 DEF UcbNext

(* A worker is given something to execute, and nothing else changes for    *)
(* the smallest failure.                                                   *)
LEMMA TakeKeeps ==
  ASSUME UcbConstants, UcbInv, NEW w \in Workers, TakePruned(w)
  PROVE  Orderly(ucb)' /\ PrunedIsTried' /\ SameShrinking([ucb' EXCEPT !.shrinkQueue = ucb.shrinkQueue], ucb)
<1> DEFINE q == ucb.shrinkQueue
           m == ucb.minimalFailing
<1>1. /\ ucb \in Strategies /\ held \in [Workers -> Seq(Ids) \cup {None}] /\ held[w] = None
      /\ ucb' = [ucb EXCEPT !.shrinkQueue = Tail(q)]
      /\ held' = [held EXCEPT ![w] = Head(q)] /\ cleared' = cleared
      /\ ucb.shrinkMode
  BY DEF UcbInv, UcbTypeOK, TakePruned, Shrinking
<1>2. q \in Seq(Seq(Ids)) /\ q # <<>>
  BY <1>1 DEF TakePruned, Shrinking, Strategies
<1>3. /\ ucb'.shrinkQueue = Tail(q) /\ ucb'.minimalFailing = m
      /\ ucb'.shrinkMode = ucb.shrinkMode /\ ucb'.shrinkAnchor = ucb.shrinkAnchor
      /\ ucb' \in Strategies
  BY <1>1, <1>2, HeadTailProperties DEF Strategies
<1> DEFINE n == Len(q)
           r == Tail(q)
<1>4. /\ n \in Nat \ {0} /\ DOMAIN q = 1..n /\ Head(q) = q[1]
      /\ r \in Seq(Seq(Ids)) /\ Len(r) = n - 1 /\ DOMAIN r = 1..(n - 1)
      /\ \A j \in 1..(n - 1) : r[j] = q[j + 1]
  <2>1. n \in Nat \ {0} /\ DOMAIN q = 1..n
    BY <1>2, EmptySeq, LenProperties
  <2>2. r \in Seq(Seq(Ids)) /\ Len(r) = n - 1 /\ \A j \in 1..Len(r) : r[j] = q[j + 1]
    BY <1>2, HeadTailProperties
  <2>3. DOMAIN r = 1..Len(r)
    BY <2>2, LenProperties
  <2>4. QED
    BY <1>2, <2>1, <2>2, <2>3
<1>5. Orderly(ucb)
  BY DEF UcbInv
<1> HIDE DEF q, n, r, m
<1>6. \A j \in 1..(n - 1) : j + 1 \in 1..n
  <2>1. n \in Nat
    BY <1>4
  <2>2. \A k \in Nat : \A j \in 1..(k - 1) : j + 1 \in 1..k
    BY ONLY TRUE
  <2>3. QED
    BY ONLY <2>1, <2>2
<1>7. \A j \in DOMAIN r : ucb.shrinkAnchor # None /\ Len(r[j]) + 1 = Len(ucb.shrinkAnchor)
  <2>1. \A j \in 1..n : ucb.shrinkAnchor # None /\ Len(q[j]) + 1 = Len(ucb.shrinkAnchor)
    BY <1>4, <1>5 DEF Orderly, q
  <2>2. QED
    BY <1>4, <1>6, <2>1
<1>8. Orderly(ucb')
  BY <1>1, <1>3, <1>5, <1>7 DEF Orderly, m, r
<1>9. PrunedIsTried'
  <2>1. SUFFICES ASSUME m # None, NEW i \in DOMAIN m
                 PROVE  \/ RemoveAt(m, i) \in cleared
                        \/ \E v \in Workers : held'[v] = RemoveAt(m, i)
                        \/ \E j \in DOMAIN r : r[j] = RemoveAt(m, i)
    BY <1>1, <1>3 DEF PrunedIsTried, r
  <2>2. \/ RemoveAt(m, i) \in cleared
        \/ \E v \in Workers : held[v] = RemoveAt(m, i)
        \/ \E j \in DOMAIN q : q[j] = RemoveAt(m, i)
    BY <2>1 DEF UcbInv, PrunedIsTried, m, q
  <2>3. RemoveAt(m, i) # None
    <3>1. m \in Seq(Ids)
      BY <1>1, <2>1 DEF m, Strategies
    <3>2. QED
      BY <2>1, <3>1, PrunedShape DEF UcbConstants
  <2>4. ASSUME NEW v \in Workers, held[v] = RemoveAt(m, i) PROVE held'[v] = RemoveAt(m, i)
    BY <1>1, <2>3, <2>4
  <2>5. ASSUME NEW j \in DOMAIN q, q[j] = RemoveAt(m, i)
        PROVE  held'[w] = RemoveAt(m, i) \/ \E k \in DOMAIN r : r[k] = RemoveAt(m, i)
    <3>1. CASE j = 1
      BY <1>1, <1>4, <2>5, <3>1
    <3>2. CASE j # 1
      <4>1. j - 1 \in 1..(n - 1) /\ (j - 1) + 1 = j
        BY <1>4, <3>2
      <4>2. r[j - 1] = q[j]
        BY <1>4, <4>1
      <4>3. QED
        BY <1>4, <2>5, <4>1, <4>2
    <3>3. QED
      BY <3>1, <3>2
  <2>6. QED
    BY <2>2, <2>4, <2>5
<1>10. QED
  BY <1>3, <1>8, <1>9 DEF SameShrinking, Strategies, q, m

LEMMA ReportKeeps ==
  ASSUME UcbConstants, UcbInv, NEW w \in Workers, Report(w)
  PROVE  UcbInv'
<1> DEFINE batch == held[w]
           m == ucb.minimalFailing
           a == ucb.shrinkAnchor
           n == Len(batch)
<1>1. /\ UcbTypeOK /\ ucb \in Strategies /\ held \in [Workers -> Seq(Ids) \cup {None}]
      /\ smallest \in Nat \cup {None} /\ Orderly(ucb) /\ PrunedIsTried /\ MinimalIsSmallest
      /\ resumes = 0 /\ ucb.shrinkMode => m # None
  BY DEF UcbInv, UcbTypeOK
<1>2. PICK passed \in BOOLEAN :
        /\ batch # None /\ ucb' = Feedback(ucb, batch, passed)
        /\ held' = [held EXCEPT ![w] = None]
        /\ smallest' = IF passed THEN smallest ELSE Smaller(n)
        /\ cleared' = IF passed THEN cleared \cup {batch} ELSE cleared
        /\ UNCHANGED <<snapshot, resumes>>
  BY DEF Report
<1>3. UcbTypeOK'
  BY <1>1, UcbTypes DEF UcbNext
<1>4. batch \in Seq(Ids) /\ n \in Nat
  <2>1. batch \in Seq(Ids)
    BY <1>1, <1>2
  <2>2. QED
    BY <2>1, LenProperties
<1>5. m # None => m \in Seq(Ids) /\ Len(m) \in Nat /\ a \in Seq(Ids) /\ Len(a) \in Nat
                  /\ Len(m) <= Len(a)
  <2>1. SUFFICES ASSUME m # None
                 PROVE  m \in Seq(Ids) /\ Len(m) \in Nat /\ a \in Seq(Ids) /\ Len(a) \in Nat
                        /\ Len(m) <= Len(a)
    OBVIOUS
  <2>2. m \in Seq(Ids) /\ a \in Seq(Ids) /\ Len(m) <= Len(a)
    BY <1>1, <2>1 DEF Orderly, Strategies
  <2>3. QED
    BY <2>2, LenProperties
<1>6. \A i \in DOMAIN m : m # None => RemoveAt(m, i) # None /\ Len(RemoveAt(m, i)) + 1 = Len(m)
  BY <1>5, PrunedShape DEF UcbConstants
<1> HIDE DEF batch, m, a, n
<1>7. CASE Adopts(ucb, batch, passed)
  <2> DEFINE t == Adopt(ucb, batch)
             p == Pruned(batch)
  <2>1. SameShrinking(ucb', t) /\ ~passed
    BY <1>1, <1>2, <1>4, <1>7, FeedbackKeeps DEF Adopts
  <2>2. /\ Orderly(t) /\ t.minimalFailing # None
        /\ Len(t.minimalFailing) = IF m = None \/ n < Len(m) THEN n ELSE Len(m)
    BY <1>1, <1>4, AdoptIsOrderly DEF m, n
  <2>3. /\ t.shrinkQueue = p /\ t.minimalFailing = IF m = None \/ n < Len(m) THEN batch ELSE m
    BY <1>1, <1>4, AdoptSets DEF m, n
  <2>4. /\ DOMAIN p = DOMAIN batch /\ \A i \in DOMAIN batch : p[i] = RemoveAt(batch, i)
    BY <1>4, PrunedShape
  <2>5. Orderly(ucb')
    BY <2>1, <2>2, OrderlyAlike
  <2> HIDE DEF t, p
  <2>6. /\ ucb'.minimalFailing = (IF m = None \/ n < Len(m) THEN batch ELSE m)
        /\ ucb'.minimalFailing # None /\ ucb'.shrinkQueue = p
        /\ Len(ucb'.minimalFailing) = (IF m = None \/ n < Len(m) THEN n ELSE Len(m))
    BY <2>1, <2>2, <2>3 DEF SameShrinking
  <2>7. MinimalIsSmallest'
    <3>1. SUFFICES ASSUME resumes = 0 PROVE smallest' = Len(ucb'.minimalFailing)
      BY <1>2, <2>6 DEF MinimalIsSmallest
    <3>2. smallest = IF m = None THEN None ELSE Len(m)
      BY <1>1, <3>1 DEF MinimalIsSmallest, m
    <3>3. smallest' = IF smallest = None \/ n < smallest THEN n ELSE smallest
      BY <1>2, <2>1 DEF Smaller
    <3>4. m # None => Len(m) # None
      BY <1>5 DEF UcbConstants
    <3>5. QED
      BY <2>6, <3>2, <3>3, <3>4
  <2>8. PrunedIsTried'
    <3>1. CASE m = None \/ n < Len(m)
      <4>1. ucb'.minimalFailing = batch
        BY <2>6, <3>1
      <4>2. \A i \in DOMAIN batch : \E j \in DOMAIN p : p[j] = RemoveAt(batch, i)
        BY <2>4
      <4>3. QED
        BY <2>6, <4>1, <4>2 DEF PrunedIsTried
    <3>2. CASE m # None /\ ~(n < Len(m))
      <4>1. ucb'.minimalFailing = m
        BY <2>6, <3>2
      <4>2. ASSUME NEW i \in DOMAIN m
            PROVE  RemoveAt(m, i) \in cleared' \/ \E v \in Workers : held'[v] = RemoveAt(m, i)
        <5>1. RemoveAt(m, i) # None /\ Len(RemoveAt(m, i)) + 1 = Len(m)
          BY <1>6, <3>2
        <5>2. RemoveAt(m, i) # batch
          BY <1>4, <1>5, <3>2, <5>1 DEF n
        <5>3. ~\E j \in DOMAIN ucb.shrinkQueue : ucb.shrinkQueue[j] = RemoveAt(m, i)
          <6>1. SUFFICES ASSUME NEW j \in DOMAIN ucb.shrinkQueue,
                                ucb.shrinkQueue[j] = RemoveAt(m, i)
                         PROVE  FALSE
            OBVIOUS
          <6>2. ucb.shrinkMode
            BY <1>1, <6>1 DEF Orderly
          <6>3. Len(RemoveAt(m, i)) + 1 = Len(a)
            BY <1>1, <6>1 DEF Orderly, a
          <6>4. n < Len(a)
            BY <1>7, <6>2 DEF Adopts, a, n
          <6>5. QED
            BY <1>4, <1>5, <3>2, <5>1, <6>3, <6>4
        <5>4. RemoveAt(m, i) \in cleared \/ \E v \in Workers : held[v] = RemoveAt(m, i)
          BY <1>1, <3>2, <5>3 DEF PrunedIsTried, m
        <5>5. \A v \in Workers : held[v] = RemoveAt(m, i) => held'[v] = RemoveAt(m, i)
          BY <1>1, <1>2, <5>2 DEF batch
        <5>6. QED
          BY <1>2, <2>1, <5>4, <5>5
      <4>3. QED
        BY <4>1, <4>2 DEF PrunedIsTried
    <3>3. QED
      BY <3>1, <3>2
  <2>9. QED
    BY <1>2, <1>3, <2>5, <2>6, <2>7, <2>8 DEF UcbInv
<1>8. CASE ~Adopts(ucb, batch, passed)
  <2>1. SameShrinking(ucb', ucb)
    BY <1>1, <1>2, <1>4, <1>8, FeedbackKeeps
  <2>2. Orderly(ucb')
    BY <1>1, <2>1, OrderlyAlike
  <2>3. ucb'.minimalFailing = m /\ ucb'.shrinkMode = ucb.shrinkMode
        /\ ucb'.shrinkQueue = ucb.shrinkQueue
    BY <2>1 DEF SameShrinking, m
  <2>4. ~passed => ucb.shrinkMode /\ a # None /\ ~(n < Len(a))
    BY <1>1, <1>8 DEF Adopts, Orderly, a, n
  <2>5. MinimalIsSmallest'
    <3>1. SUFFICES ASSUME resumes = 0, ~passed PROVE smallest' = smallest
      BY <1>1, <1>2, <2>3 DEF MinimalIsSmallest, m
    <3>2. m # None
      BY <1>1, <2>4, <3>1
    <3>3. smallest = Len(m) /\ ~(n < Len(m))
      BY <1>1, <1>4, <1>5, <2>4, <3>1, <3>2 DEF MinimalIsSmallest, m
    <3>4. Len(m) # None
      BY <1>5, <3>2 DEF UcbConstants
    <3>5. QED
      BY <1>2, <3>1, <3>3, <3>4 DEF Smaller
  <2>6. PrunedIsTried'
    <3>1. SUFFICES ASSUME m # None, NEW i \in DOMAIN m
                   PROVE  \/ RemoveAt(m, i) \in cleared'
                          \/ \E v \in Workers : held'[v] = RemoveAt(m, i)
                          \/ \E j \in DOMAIN ucb.shrinkQueue : ucb.shrinkQueue[j] = RemoveAt(m, i)
      BY <2>3 DEF PrunedIsTried
    <3>2. \/ RemoveAt(m, i) \in cleared
          \/ \E v \in Workers : held[v] = RemoveAt(m, i)
          \/ \E j \in DOMAIN ucb.shrinkQueue : ucb.shrinkQueue[j] = RemoveAt(m, i)
      BY <1>1, <3>1 DEF PrunedIsTried, m
    <3>3. RemoveAt(m, i) # None /\ Len(RemoveAt(m, i)) + 1 = Len(m)
      BY <1>6, <3>1
    <3>4. ~passed => RemoveAt(m, i) # batch
      <4>1. SUFFICES ASSUME ~passed, RemoveAt(m, i) = batch PROVE FALSE
        OBVIOUS
      <4>2. n + 1 = Len(m) /\ ~(n < Len(a))
        BY <2>4, <3>3, <4>1 DEF n
      <4>3. QED
        BY <1>4, <1>5, <3>1, <4>2
    <3>5. passed => batch \in cleared'
      BY <1>2
    <3>6. cleared \subseteq cleared' /\ \A v \in Workers \ {w} : held'[v] = held[v]
      BY <1>1, <1>2
    <3>7. ASSUME NEW v \in Workers, held[v] = RemoveAt(m, i)
          PROVE  RemoveAt(m, i) \in cleared' \/ held'[v] = RemoveAt(m, i)
      BY <3>4, <3>5, <3>6, <3>7 DEF batch
    <3>8. QED
      BY <3>2, <3>6, <3>7
  <2>7. QED
    BY <1>1, <1>2, <1>3, <2>2, <2>3, <2>5, <2>6 DEF UcbInv
<1>9. QED
  BY <1>7, <1>8

LEMMA MalformedKeeps ==
  ASSUME UcbConstants, UcbInv, NEW w \in Workers, ExploreMalformed(w)
  PROVE  UcbInv'
<1>1. UcbTypeOK /\ ucb \in Strategies /\ smallest \in Nat \cup {None} /\ MinimalIsSmallest
  BY DEF UcbInv, UcbTypeOK
<1>2. PICK pick \in [Templates -> TemplateSpace] :
        /\ ucb' = Feedback(Issue(ucb, pick), <<>>, FALSE) /\ smallest' = 0
        /\ UNCHANGED <<held, snapshot, resumes, cleared>>
  BY DEF ExploreMalformed
<1>3. UcbTypeOK'
  BY <1>1, UcbTypes DEF UcbNext
<1> DEFINE s == Issue(ucb, pick)
           t == Adopt(s, <<>>)
<1>4. /\ s \in Strategies /\ ~s.shrinkMode /\ s.minimalFailing = ucb.minimalFailing
      /\ <<>> \in Seq(Ids) /\ Len(<<>>) = 0
  BY <1>1, IssueKeeps, EmptySeq
<1>5. Adopts(s, <<>>, FALSE)
  BY <1>4 DEF Adopts
<1>6. SameShrinking(ucb', t)
  <2> HIDE DEF s
  <2>1. SameShrinking(Feedback(s, <<>>, FALSE), t)
    BY <1>4, <1>5, FeedbackKeeps
  <2>2. QED
    BY <1>2, <2>1 DEF s
<1>7. /\ Orderly(t) /\ t.minimalFailing # None
      /\ Len(t.minimalFailing) = IF s.minimalFailing = None \/ Len(<<>>) < Len(s.minimalFailing)
                                   THEN Len(<<>>) ELSE Len(s.minimalFailing)
      /\ t \in Strategies
  <2> HIDE DEF s
  <2>1. QED
    BY <1>4, AdoptIsOrderly, AdoptSets
<1> HIDE DEF s, t
<1>8. s.minimalFailing # None => Len(s.minimalFailing) \in Nat
  <2>1. s.minimalFailing \in Seq(Ids) \cup {None}
    BY <1>4 DEF Strategies
  <2>2. QED
    BY <2>1, LenProperties
<1>9. Len(t.minimalFailing) = 0 /\ t.minimalFailing \in Seq(Ids)
  <2>1. t.minimalFailing \in Seq(Ids) \cup {None}
    BY <1>7 DEF Strategies
  <2>2. QED
    BY <1>4, <1>7, <1>8, <2>1
<1>10. ucb'.minimalFailing = t.minimalFailing /\ Orderly(ucb')
  BY <1>6, <1>7, OrderlyAlike DEF SameShrinking
<1>11. MinimalIsSmallest'
  BY <1>2, <1>7, <1>9, <1>10 DEF MinimalIsSmallest
<1>12. DOMAIN t.minimalFailing = {}
  <2>1. DOMAIN t.minimalFailing = 1..0
    BY <1>9, LenProperties
  <2>2. QED
    BY <2>1
<1>13. PrunedIsTried'
  BY <1>10, <1>12 DEF PrunedIsTried
<1>14. QED
  BY <1>2, <1>3, <1>7, <1>10, <1>11, <1>13 DEF UcbInv

LEMMA UcbStep ==
  ASSUME UcbConstants, UcbInv, [UcbNext]_ucbVars PROVE UcbInv'
<1>1. CASE UNCHANGED ucbVars
  BY <1>1 DEF ucbVars, UcbInv, UcbTypeOK, MinimalIsSmallest, PrunedIsTried
<1>2. ASSUME NEW w \in Workers, TakePruned(w) PROVE UcbInv'
  <2>1. UcbTypeOK'
    BY <1>2, UcbTypes DEF UcbInv, UcbNext
  <2>2. /\ Orderly(ucb)' /\ PrunedIsTried'
        /\ SameShrinking([ucb' EXCEPT !.shrinkQueue = ucb.shrinkQueue], ucb)
    BY <1>2, TakeKeeps
  <2>3. /\ ucb'.minimalFailing = ucb.minimalFailing /\ ucb'.shrinkMode = ucb.shrinkMode
    BY <1>2 DEF TakePruned, UcbInv, UcbTypeOK, Strategies
  <2>4. UNCHANGED <<snapshot, resumes, smallest, cleared>>
    BY <1>2 DEF TakePruned
  <2>5. QED
    BY <2>1, <2>2, <2>3, <2>4 DEF UcbInv, MinimalIsSmallest
<1>3. ASSUME NEW w \in Workers, Explore(w) PROVE UcbInv'
  <2>1. UcbTypeOK'
    BY <1>3, UcbTypes DEF UcbInv, UcbNext
  <2>2. PICK pick \in [Templates -> TemplateSpace] :
          /\ Exploring(w, pick) /\ ucb' = Issue(ucb, pick)
          /\ held' = [held EXCEPT ![w] = Fresh(ucb)]
          /\ UNCHANGED <<snapshot, resumes, smallest, cleared>>
    BY <1>3 DEF Explore
  <2>3. ucb \in Strategies /\ Orderly(ucb) /\ ucb.shrinkQueue \in Seq(Seq(Ids))
        /\ held \in [Workers -> Seq(Ids) \cup {None}]
    BY DEF UcbInv, UcbTypeOK, Strategies
  <2>4. /\ ~ucb'.shrinkMode /\ ucb'.shrinkAnchor = ucb.shrinkAnchor
        /\ ucb'.shrinkQueue = ucb.shrinkQueue /\ ucb'.minimalFailing = ucb.minimalFailing
    BY <2>2, <2>3, IssueKeeps
  <2>5. held[w] = None /\ ucb.shrinkQueue = <<>>
    BY <2>2, <2>3 DEF Exploring, Shrinking, Orderly
  <2>6. Orderly(ucb')
    BY <2>3, <2>4, <2>5 DEF Orderly
  <2>7. PrunedIsTried'
    <3>1. SUFFICES ASSUME ucb.minimalFailing # None, NEW i \in DOMAIN ucb.minimalFailing
                   PROVE  \/ RemoveAt(ucb.minimalFailing, i) \in cleared
                          \/ \E v \in Workers : held'[v] = RemoveAt(ucb.minimalFailing, i)
      BY <2>2, <2>4 DEF PrunedIsTried
    <3>2. \/ RemoveAt(ucb.minimalFailing, i) \in cleared
          \/ \E v \in Workers : held[v] = RemoveAt(ucb.minimalFailing, i)
      BY <2>5, <3>1 DEF UcbInv, PrunedIsTried
    <3>3. RemoveAt(ucb.minimalFailing, i) # None
      <4>1. ucb.minimalFailing \in Seq(Ids)
        BY <2>3, <3>1 DEF Strategies
      <4>2. QED
        BY <3>1, <4>1, PrunedShape DEF UcbConstants
    <3>4. \A v \in Workers \ {w} : held'[v] = held[v]
      BY <2>2, <2>3
    <3>5. QED
      BY <2>5, <3>2, <3>3, <3>4
  <2>8. QED
    BY <2>1, <2>2, <2>4, <2>6, <2>7 DEF UcbInv, MinimalIsSmallest
<1>4. ASSUME ExportStrategy PROVE UcbInv'
  <2>1. UcbTypeOK'
    BY <1>4, UcbTypes DEF UcbInv, UcbNext
  <2>2. snapshot' = Exported(ucb) /\ UNCHANGED <<ucb, held, resumes, smallest, cleared>>
    BY <1>4 DEF ExportStrategy
  <2>3. ucb \in Strategies /\ Orderly(ucb)
    BY DEF UcbInv, UcbTypeOK
  <2>4. Orderly(Exported(ucb)) /\ Exported(ucb).minimalFailing = None
    BY <2>3, ExportedKeeps DEF Orderly
  <2>5. QED
    BY <2>1, <2>2, <2>4 DEF UcbInv, MinimalIsSmallest, PrunedIsTried
<1>5. ASSUME ResumeStrategy PROVE UcbInv'
  <2>1. UcbTypeOK'
    BY <1>5, UcbTypes DEF UcbInv, UcbNext
  <2>2. snapshot # None /\ ucb' = snapshot /\ resumes' = resumes + 1 /\ UNCHANGED snapshot
    BY <1>5 DEF ResumeStrategy
  <2>3. Orderly(snapshot) /\ snapshot.minimalFailing = None /\ resumes \in Nat
    BY <2>2 DEF UcbInv
  <2>4. resumes' \in Nat /\ resumes' # 0
    BY <2>2, <2>3
  <2>5. QED
    BY <2>1, <2>2, <2>3, <2>4 DEF UcbInv, MinimalIsSmallest, PrunedIsTried
<1>6. QED
  BY <1>1, <1>2, <1>3, <1>4, <1>5, ReportKeeps, MalformedKeeps DEF UcbNext

LEMMA UcbGoal == ASSUME UcbConstants, UcbInv PROVE MinimalIsSmallest /\ MinimalWasPruned
<1>1. ASSUME ucb.minimalFailing # None, ucb.shrinkQueue = <<>>,
             \A w \in Workers : held[w] = None, NEW i \in DOMAIN ucb.minimalFailing
      PROVE  RemoveAt(ucb.minimalFailing, i) \in cleared
  <2>1. ucb.minimalFailing \in Seq(Ids)
    BY <1>1 DEF UcbInv, UcbTypeOK, Strategies
  <2>2. RemoveAt(ucb.minimalFailing, i) # None
    BY <1>1, <2>1, PrunedShape DEF UcbConstants
  <2>3. DOMAIN ucb.shrinkQueue = {}
    BY <1>1
  <2>4. QED
    BY <1>1, <2>2, <2>3 DEF UcbInv, PrunedIsTried
<1>2. QED
  BY <1>1 DEF UcbInv, MinimalWasPruned

-----------------------------------------------------------------------------
(* Sharing of buckets by the workers of UCB1                               *)

(* What a pruned set is queued for is one fault smaller than a set of      *)
(* schedules.                                                              *)
ShorterQueue(s) == \A j \in DOMAIN s.shrinkQueue : Len(s.shrinkQueue[j]) < NumTemplates

Held(s, batch) ==
  /\ \E n \in 1..Len(s.issued) : \A t \in Templates : batch[t] = <<n, t>>
  /\ \A t \in Templates : EffectiveVisits(s, Bucket(s, batch[t])) # 0

(* A full set that is held is that of an issue, whose buckets are counted  *)
(* as visited, at least for as long.                                       *)
FullAreIssued ==
  \A w \in Workers : held[w] # None =>
    Len(held[w]) <= NumTemplates /\ (Len(held[w]) = NumTemplates => Held(ucb, held[w]))

SharedInv ==
  /\ ShorterQueue(ucb) /\ (snapshot # None => ShorterQueue(snapshot))
  /\ FullAreIssued /\ UnvisitedShared

(* Within a process nothing that was issued or visited is forgotten.       *)
Grows(s, t) ==
  /\ Len(s.issued) <= Len(t.issued)
  /\ \A n \in 1..Len(s.issued) : t.issued[n] = s.issued[n]
  /\ \A b \in Buckets : EffectiveVisits(s, b) <= EffectiveVisits(t, b)

LEMMA IssuedTyped ==
  ASSUME NEW s \in Strategies
  PROVE  /\ Len(s.issued) \in Nat /\ s.issued \in Seq([Templates -> TemplateSpace])
         /\ \A n \in 1..Len(s.issued) : s.issued[n] \in [Templates -> TemplateSpace]
         /\ \A b \in Buckets : /\ s.visits[b] \in Nat /\ s.pending[b] \in Nat
                               /\ EffectiveVisits(s, b) \in Nat
<1>1. s.issued \in Seq([Templates -> TemplateSpace])
  BY DEF Strategies
<1>2. Len(s.issued) \in Nat /\ \A n \in 1..Len(s.issued) : s.issued[n] \in [Templates -> TemplateSpace]
  BY <1>1, LenProperties
<1>3. \A b \in Buckets : s.visits[b] \in Nat /\ s.pending[b] \in Nat
  BY DEF Strategies
<1>4. QED
  BY <1>1, <1>2, <1>3 DEF EffectiveVisits

LEMMA GrowsOn ==
  ASSUME NEW s \in Strategies, NEW r \in Strategies, NEW t \in Strategies,
         Grows(s, r), Grows(r, t)
  PROVE  Grows(s, t)
<1>1. Len(s.issued) \in Nat /\ Len(r.issued) \in Nat /\ Len(t.issued) \in Nat
  BY IssuedTyped
<1>2. \A b \in Buckets : EffectiveVisits(s, b) <= EffectiveVisits(t, b)
  <2>1. SUFFICES ASSUME NEW b \in Buckets PROVE EffectiveVisits(s, b) <= EffectiveVisits(t, b)
    OBVIOUS
  <2> DEFINE i == EffectiveVisits(s, b)
             j == EffectiveVisits(r, b)
             k == EffectiveVisits(t, b)
  <2>2. i \in Nat /\ j \in Nat /\ k \in Nat /\ i <= j /\ j <= k
    BY IssuedTyped DEF Grows
  <2> HIDE DEF i, j, k
  <2>3. i <= k
    BY <2>2
  <2>4. QED
    BY <2>3 DEF i, k
<1>3. QED
  BY <1>1, <1>2 DEF Grows

LEMMA GrownBuckets ==
  ASSUME NEW s \in Strategies, NEW t \in Strategies, Grows(s, t), NEW n \in 1..Len(s.issued),
         NEW k \in Templates
  PROVE  /\ Bucket(s, <<n, k>>) \in Buckets /\ Bucket(s, <<n, k>>) = <<k, s.issued[n][k]>>
         /\ Bucket(t, <<n, k>>) = Bucket(s, <<n, k>>)
         /\ EffectiveVisits(s, Bucket(s, <<n, k>>)) # 0 =>
              EffectiveVisits(t, Bucket(t, <<n, k>>)) # 0
<1>1. s.issued[n] \in [Templates -> TemplateSpace] /\ t.issued[n] = s.issued[n]
  BY IssuedTyped DEF Grows
<1>2. /\ Bucket(s, <<n, k>>) \in Buckets /\ Bucket(t, <<n, k>>) = Bucket(s, <<n, k>>)
      /\ Bucket(s, <<n, k>>) = <<k, s.issued[n][k]>>
  BY <1>1 DEF Bucket, Buckets
<1> DEFINE b == Bucket(s, <<n, k>>)
           i == EffectiveVisits(s, b)
           j == EffectiveVisits(t, b)
<1> HIDE DEF b
<1>3. i \in Nat /\ j \in Nat /\ i <= j
  BY <1>2, IssuedTyped DEF Grows, b
<1> HIDE DEF i, j
<1>4. i # 0 => j # 0
  BY <1>3
<1>5. QED
  BY <1>2, <1>4 DEF b, i, j

LEMMA StillVisited ==
  ASSUME NEW s \in Strategies, NEW t \in Strategies, Grows(s, t), NEW k \in Templates,
         Unvisited(s, k) = {}
  PROVE  Unvisited(t, k) = {}
<1>1. SUFFICES ASSUME NEW j \in TemplateSpace, EffectiveVisits(t, <<k, j>>) = 0 PROVE FALSE
  BY DEF Unvisited
<1> DEFINE b == <<k, j>>
           u == EffectiveVisits(s, b)
           v == EffectiveVisits(t, b)
<1>2. b \in Buckets
  BY DEF Buckets
<1>3. u # 0 /\ v = 0
  BY <1>1 DEF Unvisited
<1> HIDE DEF b
<1>4. u \in Nat /\ v \in Nat /\ u <= v
  BY <1>2, IssuedTyped DEF Grows
<1> HIDE DEF u, v
<1>5. QED
  BY <1>3, <1>4

LEMMA CoverGrows ==
  ASSUME NEW s \in Strategies, NEW batch, NEW passed \in BOOLEAN
  PROVE  Grows(s, Cover(s, batch, passed))
<1> DEFINE hit == {Bucket(s, batch[i]) : i \in DOMAIN batch}
           t == Cover(s, batch, passed)
           p == [b \in Buckets |-> IF b \in hit /\ s.pending[b] > 0 THEN s.pending[b] - 1
                                   ELSE s.pending[b]]
           v == [b \in Buckets |-> IF b \in hit THEN s.visits[b] + 1 ELSE s.visits[b]]
           f == [b \in Buckets |-> IF b \in hit /\ ~passed THEN s.failures[b] + 1
                                   ELSE s.failures[b]]
<1>1. t = [s EXCEPT !.pending = p, !.visits = v, !.failures = f]
  BY DEF Cover
<1>2. ASSUME NEW b \in Buckets
      PROVE  EffectiveVisits(s, b) = s.visits[b] + s.pending[b] /\ v[b] + p[b] >= s.visits[b] + s.pending[b]
  <2> HIDE DEF hit
  <2>1. s.visits[b] \in Nat /\ s.pending[b] \in Nat
    BY IssuedTyped
  <2>2. QED
    BY <2>1 DEF EffectiveVisits
<1> HIDE DEF p, v, f
<1>3. t.issued = s.issued /\ t.pending = p /\ t.visits = v
  BY <1>1 DEF Strategies
<1>4. Len(s.issued) \in Nat
  BY IssuedTyped
<1> HIDE DEF t
<1>5. \A b \in Buckets : EffectiveVisits(t, b) = v[b] + p[b]
  BY <1>3 DEF EffectiveVisits
<1>6. ASSUME NEW b \in Buckets PROVE EffectiveVisits(s, b) <= EffectiveVisits(t, b)
  <2>1. t \in Strategies
    BY CoverKeeps DEF t
  <2>2. EffectiveVisits(s, b) \in Nat /\ EffectiveVisits(t, b) \in Nat
    BY <2>1, IssuedTyped
  <2>3. EffectiveVisits(t, b) >= EffectiveVisits(s, b)
    BY <1>2, <1>5
  <2>4. QED
    BY <2>2, <2>3
<1>7. QED
  BY <1>3, <1>4, <1>6 DEF Grows, t

LEMMA AdoptGrows ==
  ASSUME NEW s \in Strategies, NEW batch \in Seq(Ids) PROVE Grows(s, Adopt(s, batch))
<1>1. /\ Adopt(s, batch).issued = s.issued /\ Adopt(s, batch).visits = s.visits
      /\ Adopt(s, batch).pending = s.pending
  BY DEF Adopt, Strategies
<1>2. \A b \in Buckets : EffectiveVisits(Adopt(s, batch), b) = EffectiveVisits(s, b)
  BY <1>1 DEF EffectiveVisits
<1>3. Len(s.issued) \in Nat /\ \A b \in Buckets : EffectiveVisits(s, b) \in Nat
  BY IssuedTyped
<1>4. QED
  BY <1>1, <1>2, <1>3 DEF Grows

LEMMA FeedbackGrows ==
  ASSUME NEW s \in Strategies, NEW batch \in Seq(Ids), NEW passed \in BOOLEAN,
         Len(batch) <= NumTemplates, ShorterQueue(s)
  PROVE  Grows(s, Feedback(s, batch, passed)) /\ ShorterQueue(Feedback(s, batch, passed))
<1>1. CASE Adopts(s, batch, passed)
  <2> DEFINE r == Adopt(s, batch)
  <2>1. r \in Strategies /\ Grows(s, r) /\ r.shrinkQueue = Pruned(batch)
    BY AdoptSets, AdoptGrows
  <2> HIDE DEF r
  <2>2. Feedback(s, batch, passed) = Cover(r, batch, passed)
    BY <1>1 DEF Feedback, r
  <2>3. /\ Cover(r, batch, passed) \in Strategies /\ Grows(r, Cover(r, batch, passed))
        /\ Cover(r, batch, passed).shrinkQueue = Pruned(batch)
    BY <2>1, CoverKeeps, CoverGrows DEF SameShrinking
  <2>4. Grows(s, Cover(r, batch, passed))
    BY <2>1, <2>3, GrowsOn
  <2>5. ASSUME NEW j \in DOMAIN Pruned(batch) PROVE Len(Pruned(batch)[j]) < NumTemplates
    <3>1. Pruned(batch)[j] \in Seq(Ids) /\ Len(Pruned(batch)[j]) + 1 = Len(batch)
      BY PrunedShape
    <3>2. Len(Pruned(batch)[j]) \in Nat /\ Len(batch) \in Nat /\ NumTemplates \in Nat
      BY <3>1, LenProperties, UcbAssumption
    <3>3. QED
      BY <3>1, <3>2
  <2>6. QED
    BY <2>2, <2>3, <2>4, <2>5 DEF ShorterQueue
<1>2. CASE ~Adopts(s, batch, passed)
  <2>1. Feedback(s, batch, passed) = Cover(s, batch, passed)
    BY <1>2 DEF Feedback
  <2>2. QED
    BY <2>1, CoverKeeps, CoverGrows DEF SameShrinking, ShorterQueue
<1>3. QED
  BY <1>1, <1>2

LEMMA IssueGrows ==
  ASSUME NEW s \in Strategies, NEW pick \in [Templates -> TemplateSpace]
  PROVE  /\ Grows(s, Issue(s, pick))
         /\ Len(Issue(s, pick).issued) = Len(s.issued) + 1
         /\ Issue(s, pick).issued[Len(s.issued) + 1] = pick
         /\ \A k \in Templates : EffectiveVisits(Issue(s, pick), <<k, pick[k]>>) # 0
<1> DEFINE t == Issue(s, pick)
           p == [b \in Buckets |-> s.pending[b] + IF pick[b[1]] = b[2] THEN 1 ELSE 0]
           n == Append(s.issued, pick)
<1>1. s.issued \in Seq([Templates -> TemplateSpace]) /\ Len(s.issued) \in Nat
  BY IssuedTyped
<1>2. /\ Len(n) = Len(s.issued) + 1 /\ n[Len(s.issued) + 1] = pick
      /\ \A i \in 1..Len(s.issued) : n[i] = s.issued[i]
  BY <1>1, AppendProperties
<1>3. t = [s EXCEPT !.shrinkMode = FALSE, !.issued = n, !.pending = p]
  BY DEF Issue
<1>4. ASSUME NEW b \in Buckets
      PROVE  /\ s.visits[b] \in Nat /\ s.pending[b] \in Nat
             /\ p[b] = s.pending[b] + IF pick[b[1]] = b[2] THEN 1 ELSE 0
             /\ EffectiveVisits(s, b) = s.visits[b] + s.pending[b]
  BY IssuedTyped DEF EffectiveVisits
<1> HIDE DEF p, n
<1>5. t.issued = n /\ t.pending = p /\ t.visits = s.visits
  BY <1>3 DEF Strategies
<1> HIDE DEF t
<1>6. \A b \in Buckets : EffectiveVisits(t, b) = s.visits[b] + p[b]
  BY <1>5 DEF EffectiveVisits
<1>7. ASSUME NEW b \in Buckets PROVE EffectiveVisits(s, b) <= EffectiveVisits(t, b)
  <2> DEFINE x == s.visits[b]
             y == s.pending[b]
             z == p[b]
  <2>1. x \in Nat /\ y \in Nat /\ z = y + (IF pick[b[1]] = b[2] THEN 1 ELSE 0)
    BY <1>4
  <2>2. EffectiveVisits(s, b) = x + y /\ EffectiveVisits(t, b) = x + z
    BY <1>4, <1>6
  <2> HIDE DEF x, y, z
  <2>3. x + y <= x + z
    BY <2>1
  <2>4. QED
    BY <2>2, <2>3
<1>8. ASSUME NEW k \in Templates PROVE EffectiveVisits(t, <<k, pick[k]>>) # 0
  <2> DEFINE b == <<k, pick[k]>>
  <2>1. b \in Buckets /\ b[1] = k /\ b[2] = pick[k]
    BY DEF Buckets
  <2> HIDE DEF b
  <2> DEFINE x == s.visits[b]
             y == s.pending[b]
             z == p[b]
  <2>2. x \in Nat /\ y \in Nat /\ z = y + 1
    BY <1>4, <2>1
  <2>3. EffectiveVisits(t, b) = x + z
    BY <1>6, <2>1
  <2> HIDE DEF x, y, z
  <2>4. x + z # 0
    BY <2>2
  <2>5. QED
    BY <2>3, <2>4 DEF b
<1>9. QED
  BY <1>1, <1>2, <1>5, <1>7, <1>8 DEF Grows, t

-----------------------------------------------------------------------------
(* A full set that is held stays an issued one while the strategy grows.   *)
LEMMA HeldStays ==
  ASSUME NEW s \in Strategies, NEW t \in Strategies, Grows(s, t), NEW batch, Held(s, batch)
  PROVE  /\ Held(t, batch)
         /\ \A k \in Templates : /\ Bucket(t, batch[k]) = Bucket(s, batch[k])
                                 /\ \E j \in TemplateSpace : Bucket(s, batch[k]) = <<k, j>>
<1>1. PICK n \in 1..Len(s.issued) : \A k \in Templates : batch[k] = <<n, k>>
  BY DEF Held
<1>2. Len(s.issued) \in Nat /\ Len(t.issued) \in Nat /\ Len(s.issued) <= Len(t.issued)
  BY IssuedTyped DEF Grows
<1>3. n \in 1..Len(t.issued)
  BY <1>2
<1>4. ASSUME NEW k \in Templates
      PROVE  /\ Bucket(t, batch[k]) = Bucket(s, batch[k])
             /\ EffectiveVisits(t, Bucket(t, batch[k])) # 0
             /\ \E j \in TemplateSpace : Bucket(s, batch[k]) = <<k, j>>
  <2>1. batch[k] = <<n, k>> /\ EffectiveVisits(s, Bucket(s, batch[k])) # 0
    BY <1>1 DEF Held
  <2>2. s.issued[n][k] \in TemplateSpace
    BY IssuedTyped
  <2>3. QED
    BY <2>1, <2>2, GrownBuckets
<1>5. QED
  BY <1>1, <1>3, <1>4 DEF Held

LEMMA OthersStay ==
  ASSUME UcbTypeOK, SharedInv, ucb' \in Strategies, Grows(ucb, ucb'),
         \A v \in Workers : \/ held'[v] = held[v] \/ held'[v] = None
                            \/ Len(held'[v]) < NumTemplates
  PROVE  FullAreIssued' /\ UnvisitedShared'
<1>1. ucb \in Strategies /\ NumTemplates \in Nat /\ FullAreIssued /\ UnvisitedShared
  BY UcbAssumption DEF UcbTypeOK, SharedInv
<1>2. ASSUME NEW v \in Workers, held'[v] # None
      PROVE  \/ held'[v] = held[v] /\ Len(held[v]) <= NumTemplates
                /\ (Len(held[v]) = NumTemplates => Held(ucb, held[v]))
             \/ Len(held'[v]) < NumTemplates
  BY <1>1, <1>2 DEF FullAreIssued
<1>3. ASSUME NEW v \in Workers, held'[v] # None
      PROVE  /\ Len(held'[v]) <= NumTemplates
             /\ Len(held'[v]) = NumTemplates => held'[v] = held[v] /\ Held(ucb, held[v])
                                                /\ Held(ucb', held[v])
  <2>1. CASE held'[v] = held[v] /\ Len(held[v]) <= NumTemplates
             /\ (Len(held[v]) = NumTemplates => Held(ucb, held[v]))
    BY <1>1, <2>1, HeldStays
  <2>2. CASE Len(held'[v]) < NumTemplates
    <3>1. Len(held'[v]) # NumTemplates /\ Len(held'[v]) <= NumTemplates
      BY <1>1, <2>2
    <3>2. QED
      BY <3>1
  <2>3. QED
    BY <1>2, <1>3, <2>1, <2>2
<1>4. FullAreIssued'
  BY <1>3 DEF FullAreIssued
<1>5. ASSUME NEW v \in Workers, NEW w \in Workers, v # w, IsFresh(held'[v]), IsFresh(held'[w]),
             NEW k \in Templates, Bucket(ucb', held'[v][k]) = Bucket(ucb', held'[w][k])
      PROVE  Unvisited(ucb', k) = {}
  <2>1. /\ held'[v] = held[v] /\ Held(ucb, held[v]) /\ held'[w] = held[w] /\ Held(ucb, held[w])
    BY <1>3, <1>5 DEF IsFresh
  <2>2. Bucket(ucb, held[v][k]) = Bucket(ucb, held[w][k])
    BY <1>1, <1>5, <2>1, HeldStays
  <2>3. Unvisited(ucb, k) = {}
    BY <1>1, <1>5, <2>1, <2>2 DEF UnvisitedShared
  <2>4. QED
    BY <1>1, <2>3, StillVisited
<1>6. QED
  BY <1>4, <1>5 DEF UnvisitedShared

LEMMA SharedStarts == ASSUME UcbConstants PROVE UcbInit => SharedInv
<1>1. SUFFICES ASSUME UcbInit PROVE SharedInv
  OBVIOUS
<1>2. New.shrinkQueue = <<>> /\ DOMAIN <<>> = {}
  BY DEF New
<1>3. ucb = New /\ snapshot = None /\ \A w \in Workers : held[w] = None
  BY <1>1 DEF UcbInit
<1>4. QED
  BY <1>2, <1>3 DEF SharedInv, ShorterQueue, FullAreIssued, UnvisitedShared, IsFresh

LEMMA ExploreShares ==
  ASSUME UcbConstants, UcbTypeOK, SharedInv, NEW w \in Workers, Explore(w)
  PROVE  SharedInv'
<1>1. PICK pick \in [Templates -> TemplateSpace] :
        /\ \A k \in Templates : Best(ucb, k, pick[k])
        /\ ucb' = Issue(ucb, pick) /\ held' = [held EXCEPT ![w] = Fresh(ucb)]
        /\ UNCHANGED <<snapshot, resumes, smallest, cleared>>
  BY DEF Explore, Exploring
<1>2. /\ ucb \in Strategies /\ NumTemplates \in Nat /\ ShorterQueue(ucb)
      /\ (snapshot # None => ShorterQueue(snapshot)) /\ FullAreIssued /\ UnvisitedShared
      /\ DOMAIN held = Workers
  BY UcbAssumption DEF UcbTypeOK, SharedInv
<1> DEFINE m == Len(ucb.issued) + 1
<1>3. /\ ucb' \in Strategies /\ ucb'.shrinkQueue = ucb.shrinkQueue /\ Grows(ucb, ucb')
      /\ Len(ucb'.issued) = m /\ ucb'.issued[m] = pick
      /\ \A k \in Templates : EffectiveVisits(ucb', <<k, pick[k]>>) # 0
  BY <1>1, <1>2, IssueKeeps, IssueGrows
<1>4. /\ held'[w] = Fresh(ucb) /\ Len(Fresh(ucb)) = NumTemplates
      /\ \A k \in Templates : Fresh(ucb)[k] = <<m, k>>
      /\ \A v \in Workers : v # w => held'[v] = held[v]
  BY <1>1, <1>2, FreshTyped DEF Fresh
<1>5. m \in 1..m
  BY <1>2, IssuedTyped
<1> HIDE DEF m
<1>6. \A k \in Templates : Bucket(ucb', <<m, k>>) = <<k, pick[k]>>
  BY <1>3 DEF Bucket
<1>7. Held(ucb', held'[w])
  <2>1. \A k \in Templates : held'[w][k] = <<m, k>>
    BY <1>4
  <2>2. ASSUME NEW k \in Templates PROVE EffectiveVisits(ucb', Bucket(ucb', held'[w][k])) # 0
    <3>1. Bucket(ucb', held'[w][k]) = <<k, pick[k]>>
      BY <1>6, <2>1
    <3>2. EffectiveVisits(ucb', <<k, pick[k]>>) # 0
      BY <1>3
    <3>3. QED
      BY <3>1, <3>2
  <2>3. QED
    BY <1>3, <1>5, <2>1, <2>2 DEF Held
<1>8. ASSUME NEW v \in Workers, v # w, held'[v] # None
      PROVE  /\ held'[v] = held[v] /\ Len(held[v]) <= NumTemplates
             /\ Len(held[v]) = NumTemplates => Held(ucb, held[v]) /\ Held(ucb', held[v])
  BY <1>2, <1>3, <1>4, <1>8, HeldStays DEF FullAreIssued
<1>9. FullAreIssued'
  BY <1>2, <1>4, <1>7, <1>8 DEF FullAreIssued
<1>10. ASSUME NEW v \in Workers, v # w, IsFresh(held'[v]), NEW k \in Templates,
              Bucket(ucb', held'[v][k]) = Bucket(ucb', held'[w][k])
       PROVE  Unvisited(ucb', k) = {}
  <2>1. held'[v] = held[v] /\ Held(ucb, held[v])
    BY <1>8, <1>10 DEF IsFresh
  <2>2. Bucket(ucb, held[v][k]) = <<k, pick[k]>>
    <3>1. Bucket(ucb', held[v][k]) = Bucket(ucb, held[v][k])
      BY <1>2, <1>3, <2>1, HeldStays
    <3>2. QED
      BY <1>4, <1>6, <1>10, <2>1, <3>1
  <2>3. EffectiveVisits(ucb, <<k, pick[k]>>) # 0
    BY <2>1, <2>2 DEF Held
  <2>4. Unvisited(ucb, k) = {}
    BY <1>1, <2>3 DEF Best, Unvisited
  <2>5. QED
    BY <1>2, <1>3, <2>4, StillVisited
<1>11. ASSUME NEW u \in Workers, NEW v \in Workers, u # v, u # w, v # w, IsFresh(held'[u]),
              IsFresh(held'[v]), NEW k \in Templates,
              Bucket(ucb', held'[u][k]) = Bucket(ucb', held'[v][k])
       PROVE  Unvisited(ucb', k) = {}
  <2>1. held'[u] = held[u] /\ Held(ucb, held[u]) /\ held'[v] = held[v] /\ Held(ucb, held[v])
    BY <1>8, <1>11 DEF IsFresh
  <2>2. Bucket(ucb, held[u][k]) = Bucket(ucb, held[v][k])
    BY <1>2, <1>3, <1>11, <2>1, HeldStays
  <2>3. Unvisited(ucb, k) = {}
    BY <1>2, <1>11, <2>1, <2>2 DEF UnvisitedShared
  <2>4. QED
    BY <1>2, <1>3, <2>3, StillVisited
<1>12. UnvisitedShared'
  BY <1>10, <1>11 DEF UnvisitedShared
<1>13. QED
  BY <1>1, <1>2, <1>3, <1>9, <1>12 DEF SharedInv, ShorterQueue

LEMMA SharedStep ==
  ASSUME UcbConstants, UcbTypeOK, SharedInv, [UcbNext]_ucbVars PROVE SharedInv'
<1>1. /\ ucb \in Strategies /\ held \in [Workers -> Seq(Ids) \cup {None}]
      /\ NumTemplates \in Nat /\ ShorterQueue(ucb)
      /\ (snapshot # None => ShorterQueue(snapshot)) /\ FullAreIssued /\ UnvisitedShared
  BY UcbAssumption DEF UcbTypeOK, SharedInv
<1>2. CASE UNCHANGED ucbVars
  BY <1>2 DEF ucbVars, SharedInv, FullAreIssued, UnvisitedShared
<1>3. ASSUME NEW w \in Workers, TakePruned(w) PROVE SharedInv'
  <2> DEFINE q == ucb.shrinkQueue
             r == Tail(q)
  <2>1. /\ q \in Seq(Seq(Ids)) /\ q # <<>> /\ ucb' = [ucb EXCEPT !.shrinkQueue = r]
        /\ held' = [held EXCEPT ![w] = Head(q)] /\ snapshot' = snapshot
    BY <1>1, <1>3 DEF TakePruned, Shrinking, Strategies
  <2>2. ucb'.issued = ucb.issued /\ ucb'.visits = ucb.visits /\ ucb'.pending = ucb.pending
        /\ ucb'.shrinkQueue = r
    BY <1>1, <2>1 DEF Strategies
  <2>3. /\ Len(q) \in Nat \ {0} /\ Head(q) = q[1] /\ Len(r) = Len(q) - 1
        /\ DOMAIN r = 1..(Len(q) - 1) /\ \A j \in DOMAIN r : r[j] = q[j + 1]
        /\ DOMAIN q = 1..Len(q)
    <3>1. /\ Len(q) \in Nat \ {0} /\ DOMAIN q = 1..Len(q) /\ Head(q) = q[1]
          /\ r \in Seq(Seq(Ids)) /\ Len(r) = Len(q) - 1
          /\ \A j \in 1..Len(r) : r[j] = q[j + 1]
      BY <2>1, EmptySeq, LenProperties, HeadTailProperties
    <3>2. DOMAIN r = 1..Len(r)
      BY <3>1, LenProperties
    <3>3. QED
      BY <3>1, <3>2
  <2> HIDE DEF q, r
  <2>4. Len(q[1]) < NumTemplates /\ \A j \in DOMAIN r : Len(r[j]) < NumTemplates
    <3>1. \A j \in 1..Len(q) : Len(q[j]) < NumTemplates
      BY <1>1, <2>3 DEF ShorterQueue, q
    <3>2. \A j \in DOMAIN r : j + 1 \in 1..Len(q)
      BY <2>3
    <3>3. 1 \in 1..Len(q)
      BY <2>3
    <3>4. QED
      BY <2>3, <3>1, <3>2, <3>3
  <2>5. ucb' \in Strategies
    BY <1>3, UcbTypes DEF UcbTypeOK, UcbNext
  <2>6. Grows(ucb, ucb')
    <3>1. Len(ucb.issued) \in Nat /\ \A b \in Buckets : EffectiveVisits(ucb, b) \in Nat
      BY <1>1, IssuedTyped
    <3>2. \A b \in Buckets : EffectiveVisits(ucb', b) = EffectiveVisits(ucb, b)
      BY <2>2 DEF EffectiveVisits
    <3>3. QED
      BY <2>2, <3>1, <3>2 DEF Grows
  <2>7. \A v \in Workers : held'[v] = held[v] \/ held'[v] = None \/ Len(held'[v]) < NumTemplates
    BY <1>1, <2>1, <2>3, <2>4
  <2>8. FullAreIssued' /\ UnvisitedShared'
    BY <2>5, <2>6, <2>7, OthersStay
  <2>9. QED
    BY <1>1, <2>1, <2>2, <2>4, <2>8 DEF SharedInv, ShorterQueue
<1>4. ASSUME NEW w \in Workers, ExploreMalformed(w) PROVE SharedInv'
  <2>1. PICK pick \in [Templates -> TemplateSpace] :
          /\ ucb' = Feedback(Issue(ucb, pick), <<>>, FALSE)
          /\ UNCHANGED <<held, snapshot, resumes, cleared>>
    BY <1>4 DEF ExploreMalformed
  <2> DEFINE s == Issue(ucb, pick)
  <2>2. s \in Strategies /\ s.shrinkQueue = ucb.shrinkQueue /\ Grows(ucb, s)
    BY <1>1, IssueKeeps, IssueGrows
  <2> HIDE DEF s
  <2>3. <<>> \in Seq(Ids) /\ Len(<<>>) <= NumTemplates /\ ShorterQueue(s)
    BY <1>1, <2>2, EmptySeq DEF ShorterQueue
  <2>4. ucb' = Feedback(s, <<>>, FALSE)
    BY <2>1 DEF s
  <2>5. ucb' \in Strategies /\ Grows(s, ucb') /\ ShorterQueue(ucb')
    BY <2>2, <2>3, <2>4, FeedbackKeeps, FeedbackGrows
  <2>6. Grows(ucb, ucb')
    BY <1>1, <2>2, <2>5, GrowsOn
  <2>7. FullAreIssued' /\ UnvisitedShared'
    BY <2>1, <2>5, <2>6, OthersStay
  <2>8. QED
    BY <1>1, <2>1, <2>5, <2>7 DEF SharedInv, ShorterQueue
<1>5. ASSUME NEW w \in Workers, Report(w) PROVE SharedInv'
  <2>1. PICK passed \in BOOLEAN :
          /\ held[w] # None /\ ucb' = Feedback(ucb, held[w], passed)
          /\ held' = [held EXCEPT ![w] = None] /\ snapshot' = snapshot
    BY <1>5 DEF Report
  <2>2. held[w] \in Seq(Ids) /\ Len(held[w]) <= NumTemplates
    BY <1>1, <2>1 DEF FullAreIssued
  <2>3. ucb' \in Strategies /\ Grows(ucb, ucb') /\ ShorterQueue(ucb')
    BY <1>1, <2>1, <2>2, FeedbackKeeps, FeedbackGrows
  <2>4. \A v \in Workers : held'[v] = held[v] \/ held'[v] = None \/ Len(held'[v]) < NumTemplates
    BY <1>1, <2>1
  <2>5. FullAreIssued' /\ UnvisitedShared'
    BY <2>3, <2>4, OthersStay
  <2>6. QED
    BY <1>1, <2>1, <2>3, <2>5 DEF SharedInv, ShorterQueue
<1>6. ASSUME ExportStrategy PROVE SharedInv'
  <2>1. /\ snapshot' = Exported(ucb) /\ ucb' = ucb /\ held' = held
        /\ Exported(ucb).shrinkQueue = ucb.shrinkQueue
    BY <1>1, <1>6, ExportedKeeps DEF ExportStrategy
  <2>2. ShorterQueue(ucb)' /\ ShorterQueue(snapshot)'
    BY <1>1, <2>1 DEF ShorterQueue
  <2>3. FullAreIssued' /\ UnvisitedShared'
    BY <1>1, <2>1 DEF FullAreIssued, UnvisitedShared
  <2>4. QED
    BY <2>2, <2>3 DEF SharedInv
<1>7. ASSUME ResumeStrategy PROVE SharedInv'
  <2>1. ucb' = snapshot /\ snapshot' = snapshot /\ snapshot # None /\ \A w \in Workers : held'[w] = None
    BY <1>7 DEF ResumeStrategy
  <2>2. FullAreIssued' /\ UnvisitedShared'
    BY <2>1 DEF FullAreIssued, UnvisitedShared, IsFresh
  <2>3. QED
    BY <1>1, <2>1, <2>2 DEF SharedInv, ShorterQueue
<1>8. QED
  BY <1>2, <1>3, <1>4, <1>5, <1>6, <1>7, ExploreShares DEF UcbNext

-----------------------------------------------------------------------------
(* The tree of MCTS                                                        *)

MctsConstants ==
  /\ NumTemplates \in Nat \ {0} /\ NumBuckets \in Nat \ {0}
  /\ MaxSets \in Nat /\ None \notin M!Paths

(* Runs counted together.                                                  *)
LEMMA RunsAlike ==
  ASSUME NEW nodes, NEW f, NEW g, \A x \in nodes : g[x] = f[x]
  PROVE  M!RunsOf(g, nodes) = M!RunsOf(f, nodes)
BY DEF M!RunsOf

LEMMA RunsWithin ==
  ASSUME NEW some, NEW nodes, some \subseteq nodes, NEW f, NEW g, \A x \in some : g[x] = f[x],
         IsFiniteSet(M!RunsOf(f, nodes))
  PROVE  IsFiniteSet(M!RunsOf(g, some)) /\ Cardinality(M!RunsOf(g, some)) \in Nat
<1>1. M!RunsOf(g, some) \subseteq M!RunsOf(f, nodes)
  BY DEF M!RunsOf
<1>2. IsFiniteSet(M!RunsOf(g, some))
  BY <1>1, FS_Subset
<1>3. QED
  BY <1>2, FS_CardinalityType

LEMMA OneMoreRun ==
  ASSUME NEW nodes, NEW f, NEW g, NEW x \in nodes, f[x] \in Nat, g[x] = f[x] + 1,
         \A y \in nodes \ {x} : g[y] = f[y], IsFiniteSet(M!RunsOf(f, nodes))
  PROVE  /\ IsFiniteSet(M!RunsOf(g, nodes)) /\ Cardinality(M!RunsOf(f, nodes)) \in Nat
         /\ Cardinality(M!RunsOf(g, nodes)) = Cardinality(M!RunsOf(f, nodes)) + 1
<1> DEFINE new == <<x, f[x] + 1>>
<1>1. M!RunsOf(g, nodes) = M!RunsOf(f, nodes) \cup {new}
  <2>1. 1..g[x] = (1..f[x]) \cup {f[x] + 1}
    OBVIOUS
  <2>2. ASSUME NEW y \in nodes
        PROVE  {y} \X (1..g[y]) = ({y} \X (1..f[y])) \cup IF y = x THEN {new} ELSE {}
    BY <2>1, <2>2
  <2>3. QED
    BY <2>2 DEF M!RunsOf
<1>2. new \notin M!RunsOf(f, nodes)
  BY DEF M!RunsOf
<1> HIDE DEF new
<1>3. IsFiniteSet(M!RunsOf(g, nodes)) /\ Cardinality(M!RunsOf(g, nodes)) = Cardinality(M!RunsOf(f, nodes)) + 1
  BY <1>1, <1>2, FS_AddElement
<1>4. QED
  BY <1>3, FS_CardinalityType

LEMMA OneMoreNode ==
  ASSUME NEW nodes, NEW f, NEW g, NEW x, g[x] = 0, \A y \in nodes : g[y] = f[y]
  PROVE  M!RunsOf(g, nodes \cup {x}) = M!RunsOf(f, nodes)
<1>1. {x} \X (1..g[x]) = {}
  OBVIOUS
<1>2. QED
  BY <1>1 DEF M!RunsOf

(* The same for visits and failures.                                       *)
VisitRuns(scores, nodes) == M!RunsOf([x \in nodes |-> scores[x].visits], nodes)
FailRuns(scores, nodes) == M!RunsOf([x \in nodes |-> scores[x].failures], nodes)

LEMMA VisitsAlike ==
  ASSUME NEW nodes, NEW scores, NEW after, \A x \in nodes : after[x].visits = scores[x].visits
  PROVE  VisitRuns(after, nodes) = VisitRuns(scores, nodes)
BY RunsAlike DEF VisitRuns

LEMMA FailuresAlike ==
  ASSUME NEW nodes, NEW scores, NEW after, \A x \in nodes : after[x].failures = scores[x].failures
  PROVE  FailRuns(after, nodes) = FailRuns(scores, nodes)
BY RunsAlike DEF FailRuns

LEMMA OneMoreVisit ==
  ASSUME NEW nodes, NEW scores, NEW after, NEW x \in nodes, scores[x].visits \in Nat,
         after[x].visits = scores[x].visits + 1,
         \A y \in nodes \ {x} : after[y].visits = scores[y].visits,
         IsFiniteSet(VisitRuns(scores, nodes))
  PROVE  /\ IsFiniteSet(VisitRuns(after, nodes)) /\ M!Visits(scores, nodes) \in Nat
         /\ M!Visits(after, nodes) = M!Visits(scores, nodes) + 1
<1> DEFINE f == [y \in nodes |-> scores[y].visits]
           g == [y \in nodes |-> after[y].visits]
<1>1. /\ f[x] \in Nat /\ g[x] = f[x] + 1 /\ \A y \in nodes \ {x} : g[y] = f[y]
  OBVIOUS
<1>2. IsFiniteSet(M!RunsOf(f, nodes))
  BY DEF VisitRuns
<1> HIDE DEF f, g
<1>3. /\ IsFiniteSet(M!RunsOf(g, nodes)) /\ Cardinality(M!RunsOf(f, nodes)) \in Nat
      /\ Cardinality(M!RunsOf(g, nodes)) = Cardinality(M!RunsOf(f, nodes)) + 1
  BY <1>1, <1>2, OneMoreRun
<1>4. QED
  BY <1>3, CountsAlike DEF f, g, VisitRuns, M!Visits

LEMMA OneMoreFailure ==
  ASSUME NEW nodes, NEW scores, NEW after, NEW x \in nodes, scores[x].failures \in Nat,
         after[x].failures = scores[x].failures + 1,
         \A y \in nodes \ {x} : after[y].failures = scores[y].failures,
         IsFiniteSet(FailRuns(scores, nodes))
  PROVE  /\ IsFiniteSet(FailRuns(after, nodes)) /\ M!Failures(scores, nodes) \in Nat
         /\ M!Failures(after, nodes) = M!Failures(scores, nodes) + 1
<1> DEFINE f == [y \in nodes |-> scores[y].failures]
           g == [y \in nodes |-> after[y].failures]
<1>1. /\ f[x] \in Nat /\ g[x] = f[x] + 1 /\ \A y \in nodes \ {x} : g[y] = f[y]
  OBVIOUS
<1>2. IsFiniteSet(M!RunsOf(f, nodes))
  BY DEF FailRuns
<1> HIDE DEF f, g
<1>3. /\ IsFiniteSet(M!RunsOf(g, nodes)) /\ Cardinality(M!RunsOf(f, nodes)) \in Nat
      /\ Cardinality(M!RunsOf(g, nodes)) = Cardinality(M!RunsOf(f, nodes)) + 1
  BY <1>1, <1>2, OneMoreRun
<1>4. QED
  BY <1>3, CountsAlike DEF f, g, FailRuns, M!Failures

-----------------------------------------------------------------------------
(* Paths.                                                                  *)
Leads(p, q) == Len(p) <= Len(q) /\ \A i \in 1..Len(p) : p[i] = q[i]

(* The node n steps down the path q.                                       *)
Upper(q, n) == [i \in 1..n |-> q[i]]

LEMMA PathShape ==
  ASSUME MctsConstants, NEW p \in M!Paths
  PROVE  /\ Len(p) \in 0..NumTemplates /\ p \in [1..Len(p) -> M!Moves]
         /\ p \in Seq(M!Moves) /\ DOMAIN p = 1..Len(p) /\ p # None
<1>1. PICK n \in 0..NumTemplates : p \in [1..n -> M!Moves]
  BY DEF M!Paths
<1>2. n \in Nat
  BY DEF MctsConstants
<1>3. p \in Seq(M!Moves) /\ Len(p) = n
  BY <1>1, <1>2, IsASeq
<1>4. QED
  BY <1>1, <1>2, <1>3 DEF MctsConstants

LEMMA ShapeIsPath ==
  ASSUME MctsConstants, NEW n \in 0..NumTemplates, NEW p \in [1..n -> M!Moves]
  PROVE  p \in M!Paths /\ Len(p) = n
<1>1. p \in M!Paths
  BY DEF M!Paths
<1>2. n \in Nat
  BY DEF MctsConstants
<1>3. QED
  BY <1>1, <1>2, IsASeq

LEMMA PicksArePaths ==
  ASSUME MctsConstants, NEW k \in M!Picks PROVE k \in M!Paths /\ Len(k) = NumTemplates
<1>1. NumTemplates \in 0..NumTemplates
  BY DEF MctsConstants
<1>2. QED
  BY <1>1, ShapeIsPath DEF M!Picks

LEMMA UpperShape ==
  ASSUME MctsConstants, NEW q \in M!Paths, NEW n \in 0..Len(q)
  PROVE  /\ Upper(q, n) \in M!Paths /\ Len(Upper(q, n)) = n /\ Leads(Upper(q, n), q)
         /\ \A i \in 1..n : Upper(q, n)[i] = q[i]
<1>1. Len(q) \in 0..NumTemplates /\ q \in [1..Len(q) -> M!Moves]
  BY PathShape
<1>2. n \in 0..NumTemplates /\ Upper(q, n) \in [1..n -> M!Moves]
  BY <1>1 DEF Upper, MctsConstants
<1>3. Upper(q, n) \in M!Paths /\ Len(Upper(q, n)) = n
  BY <1>2, ShapeIsPath
<1>4. n <= Len(q)
  BY <1>1, <1>2
<1>5. QED
  BY <1>3, <1>4 DEF Leads, Upper

LEMMA SamePath ==
  ASSUME MctsConstants, NEW p \in M!Paths, NEW q \in M!Paths, Len(p) = Len(q),
         \A i \in 1..Len(p) : p[i] = q[i]
  PROVE  p = q
<1>1. p \in [1..Len(p) -> M!Moves] /\ q \in [1..Len(p) -> M!Moves]
  BY PathShape
<1>2. QED
  BY <1>1

LEMMA PrefixLeads ==
  ASSUME MctsConstants, NEW p \in M!Paths, NEW q \in M!Paths
  PROVE  M!IsPrefix(p, q) <=> Leads(p, q)
<1>1. /\ p \in Seq(M!Moves) /\ q \in Seq(M!Moves) /\ Len(p) \in Nat /\ Len(q) \in Nat
      /\ p \in [1..Len(p) -> M!Moves] /\ q \in [1..Len(q) -> M!Moves]
  BY PathShape DEF MctsConstants
<1>2. CASE ~(Len(p) <= Len(q))
  BY <1>2 DEF M!IsPrefix, Leads
<1>3. CASE Len(p) <= Len(q)
  <2> DEFINE n == Len(p)
             a == SubSeq(p, 1, n)
             b == SubSeq(q, 1, n)
  <2>1. /\ a \in Seq(M!Moves) /\ Len(a) = n /\ \A i \in 1..n : a[i] = p[i]
        /\ b \in Seq(M!Moves) /\ Len(b) = n /\ \A i \in 1..n : b[i] = q[i]
    BY <1>1, <1>3
  <2>2. a = b <=> \A i \in 1..n : p[i] = q[i]
    <3> HIDE DEF a, b, n
    <3>1. ASSUME \A i \in 1..n : p[i] = q[i] PROVE a = b
      <4>1. Len(a) = Len(b) /\ \A i \in 1..Len(a) : a[i] = b[i]
        BY <2>1, <3>1
      <4>2. QED
        BY <2>1, <4>1, SeqEqual
    <3>2. QED
      BY <2>1, <3>1
  <2>3. QED
    BY <1>3, <2>2 DEF M!IsPrefix, Leads
<1>4. QED
  BY <1>2, <1>3

LEMMA AppendShape ==
  ASSUME MctsConstants, NEW p \in M!Paths, ~M!Terminal(p), NEW k \in M!Moves
  PROVE  /\ Append(p, k) \in M!Paths /\ Len(Append(p, k)) = Len(p) + 1 /\ Append(p, k) # <<>>
         /\ Upper(Append(p, k), Len(p)) = p
<1>1. /\ p \in Seq(M!Moves) /\ Len(p) \in 0..NumTemplates /\ Len(p) # NumTemplates
      /\ p \in [1..Len(p) -> M!Moves]
  BY PathShape DEF M!Terminal
<1>2. /\ Append(p, k) \in Seq(M!Moves) /\ Len(Append(p, k)) = Len(p) + 1
      /\ \A i \in 1..Len(p) : Append(p, k)[i] = p[i]
  BY <1>1
<1>3. Len(p) + 1 \in 0..NumTemplates /\ Len(p) \in Nat
  <2> DEFINE m == Len(p)
  <2>1. NumTemplates \in Nat /\ m \in 0..NumTemplates /\ m # NumTemplates
    BY <1>1 DEF MctsConstants
  <2> HIDE DEF m
  <2>2. m + 1 \in 0..NumTemplates /\ m \in Nat
    BY <2>1
  <2>3. QED
    BY <2>2 DEF m
<1>4. Append(p, k) \in [1..(Len(p) + 1) -> M!Moves]
  <2>1. Append(p, k) \in [1..Len(Append(p, k)) -> M!Moves]
    BY <1>2, LenProperties
  <2>2. QED
    BY <1>2, <2>1
<1>5. Append(p, k) \in M!Paths
  BY <1>3, <1>4, ShapeIsPath
<1>6. Append(p, k) # <<>>
  BY <1>2, <1>3
<1>7. Upper(Append(p, k), Len(p)) = p
  BY <1>1, <1>2 DEF Upper
<1>8. QED
  BY <1>2, <1>5, <1>6, <1>7

-----------------------------------------------------------------------------
(* A tree, the live or an exported one.                                    *)
Kids(t, p) == {c \in DOMAIN t : Len(c) = Len(p) + 1 /\ M!IsPrefix(p, c)}

(* With a node the tree has those above it.                                *)
Rooted(t) ==
  /\ t \in [DOMAIN t -> M!Score] /\ DOMAIN t \subseteq M!Paths
  /\ \A q \in DOMAIN t : \A n \in 0..Len(q) : Upper(q, n) \in DOMAIN t

Adds(t, p) ==
  /\ IsFiniteSet(VisitRuns(t, Kids(t, p)))
  /\ t[p].visits \in M!Visits(t, Kids(t, p))..(M!Visits(t, Kids(t, p)) + IF p = <<>> THEN 0 ELSE 1)

Below(p) == {k \in M!Picks : M!IsPrefix(p, k)}

Earned(t, p) ==
  t[p].visits <= M!Visits(reports, Below(p)) /\ t[p].failures <= M!Failures(reports, Below(p))

SoundTree(t) ==
  /\ Rooted(t)
  /\ \A p \in DOMAIN t : (~M!Terminal(p) => Adds(t, p)) /\ Earned(t, p)

Reported ==
  /\ reports \in [M!Picks -> M!Score]
  /\ IsFiniteSet(VisitRuns(reports, M!Picks)) /\ IsFiniteSet(FailRuns(reports, M!Picks))

(* A node that was expanded for a set of schedules has no visit of its own *)
(* until the set is reported, and no other set was issued for it.          *)
LeavesWait ==
  \A i \in DOMAIN leafBySchedule : leafBySchedule[i] # None =>
    /\ leafBySchedule[i] \in DOMAIN tree
    /\ leafBySchedule[i] # <<>>
    /\ ~M!Terminal(leafBySchedule[i]) =>
         /\ tree[leafBySchedule[i]].visits = M!Visits(tree, Kids(tree, leafBySchedule[i]))
         /\ \A j \in DOMAIN leafBySchedule : leafBySchedule[j] = leafBySchedule[i] => i = j

JobsLead ==
  /\ \A w \in Workers : job[w] # None =>
       /\ job[w].issue \in DOMAIN leafBySchedule /\ job[w].pick \in M!Picks
       /\ leafBySchedule[job[w].issue] # None
       /\ M!IsPrefix(leafBySchedule[job[w].issue], job[w].pick)
  /\ \A v, w \in Workers :
       job[v] # None /\ job[w] # None /\ job[v].issue = job[w].issue => v = w

MctsInv ==
  /\ leafBySchedule \in Seq(M!Paths \cup {None})
  /\ DOMAIN job = Workers
  /\ SoundTree(tree)
  /\ exported # None => SoundTree(exported)
  /\ Reported /\ LeavesWait /\ JobsLead

LEMMA MctsGoal == ASSUME MctsInv PROVE M!TypeOK /\ M!VisitsAddUp /\ M!CreditEarned
<1>1. \A p \in DOMAIN tree : M!Children(p) = Kids(tree, p)
  BY DEF M!Children, Kids
<1>2. M!VisitsAddUp
  BY <1>1 DEF MctsInv, SoundTree, Adds, M!VisitsAddUp
<1>3. M!CreditEarned
  BY DEF MctsInv, SoundTree, Earned, Below, M!CreditEarned
<1>4. M!TypeOK
  BY DEF MctsInv, SoundTree, Rooted, JobsLead, M!TypeOK
<1>5. QED
  BY <1>2, <1>3, <1>4

(* The children of p on the way to a leaf: one, if p is above the leaf.    *)
LEMMA OneChildLeads ==
  ASSUME MctsConstants, NEW t, Rooted(t), NEW leaf \in DOMAIN t, NEW p \in DOMAIN t
  PROVE  /\ M!IsPrefix(p, leaf) /\ p # leaf =>
              \E c \in Kids(t, p) :
                /\ M!IsPrefix(c, leaf)
                /\ \A d \in Kids(t, p) : M!IsPrefix(d, leaf) => d = c
         /\ ~M!IsPrefix(p, leaf) \/ p = leaf => \A d \in Kids(t, p) : ~M!IsPrefix(d, leaf)
<1>1. /\ leaf \in M!Paths /\ p \in M!Paths /\ Len(p) \in Nat /\ Len(leaf) \in Nat
      /\ \A d \in Kids(t, p) : d \in M!Paths /\ Len(d) = Len(p) + 1 /\ Leads(p, d)
  <2>1. leaf \in M!Paths /\ p \in M!Paths
    BY DEF Rooted
  <2>2. \A d \in Kids(t, p) : d \in M!Paths /\ Len(d) = Len(p) + 1 /\ Leads(p, d)
    BY <2>1, PrefixLeads DEF Rooted, Kids
  <2>3. QED
    BY <2>1, <2>2, PathShape
<1>2. ASSUME M!IsPrefix(p, leaf), p # leaf
      PROVE  \E c \in Kids(t, p) :
               /\ M!IsPrefix(c, leaf)
               /\ \A d \in Kids(t, p) : M!IsPrefix(d, leaf) => d = c
  <2>1. Leads(p, leaf)
    BY <1>1, <1>2, PrefixLeads
  <2>2. Len(p) < Len(leaf)
    <3>1. Len(p) # Len(leaf)
      BY <1>1, <1>2, <2>1, SamePath DEF Leads
    <3>2. QED
      BY <1>1, <2>1, <3>1 DEF Leads
  <2> DEFINE n == Len(p) + 1
             c == Upper(leaf, n)
  <2>3. n \in 0..Len(leaf)
    BY <1>1, <2>2
  <2>4. /\ c \in M!Paths /\ Len(c) = n /\ Leads(c, leaf) /\ \A i \in 1..n : c[i] = leaf[i]
        /\ c \in DOMAIN t
    <3> HIDE DEF n
    <3>1. QED
      BY <1>1, <2>3, UpperShape DEF Rooted
  <2>5. Leads(p, c)
    BY <1>1, <2>1, <2>4 DEF Leads
  <2>6. c \in Kids(t, p) /\ M!IsPrefix(c, leaf)
    <3> HIDE DEF c
    <3>1. QED
      BY <1>1, <2>4, <2>5, PrefixLeads DEF Kids
  <2>7. ASSUME NEW d \in Kids(t, p), M!IsPrefix(d, leaf) PROVE d = c
    <3> HIDE DEF c
    <3>1. d \in M!Paths /\ Len(d) = n /\ Leads(d, leaf)
      BY <1>1, <2>7, PrefixLeads
    <3>2. Len(d) = Len(c) /\ \A i \in 1..Len(d) : d[i] = c[i]
      BY <2>4, <3>1 DEF Leads
    <3>3. QED
      BY <2>4, <3>1, <3>2, SamePath
  <2>8. QED
    BY <2>6, <2>7
<1>3. ASSUME NEW d \in Kids(t, p), M!IsPrefix(d, leaf) PROVE M!IsPrefix(p, leaf) /\ p # leaf
  <2>1. d \in M!Paths /\ Len(d) = Len(p) + 1 /\ Leads(p, d) /\ Leads(d, leaf)
    BY <1>1, <1>3, PrefixLeads
  <2>2. Leads(p, leaf) /\ Len(p) < Len(leaf)
    BY <1>1, <2>1 DEF Leads
  <2>3. QED
    BY <1>1, <2>2, PrefixLeads
<1>4. QED
  BY <1>2, <1>3

-----------------------------------------------------------------------------
LEMMA MctsStarts == ASSUME MctsConstants PROVE M!Init => MctsInv
<1>1. SUFFICES ASSUME M!Init PROVE MctsInv
  OBVIOUS
<1>2. 0 \in 0..NumTemplates /\ <<>> \in [1..0 -> M!Moves] /\ M!Unscored \in M!Score
  BY DEF MctsConstants, M!Unscored, M!Score
<1>3. <<>> \in M!Paths /\ Len(<<>>) = 0
  BY <1>2, ShapeIsPath
<1>4. DOMAIN tree = {<<>>} /\ tree[<<>>] = M!Unscored
  BY <1>1 DEF M!Init
<1>5. Kids(tree, <<>>) = {}
  BY <1>3, <1>4 DEF Kids
<1>6. /\ VisitRuns(tree, {}) = {} /\ M!Visits(tree, {}) = 0
      /\ IsFiniteSet({})
  BY FS_EmptySet, CountsAlike DEF VisitRuns, M!Visits, M!RunsOf
<1>7. Rooted(tree)
  <2>1. Upper(<<>>, 0) = <<>>
    BY DEF Upper
  <2>2. tree \in [DOMAIN tree -> M!Score] /\ DOMAIN tree \subseteq M!Paths
    BY <1>1, <1>2, <1>3, <1>4 DEF M!Init
  <2>3. ASSUME NEW q \in DOMAIN tree, NEW n \in 0..Len(q) PROVE Upper(q, n) \in DOMAIN tree
    <3>1. q = <<>> /\ n = 0
      BY <1>3, <1>4, <2>3
    <3>2. QED
      BY <1>4, <2>1, <3>1
  <2>4. QED
    BY <2>2, <2>3 DEF Rooted
<1>8. Reported
  <2>1. reports = [k \in M!Picks |-> M!Unscored]
    BY <1>1 DEF M!Init
  <2>2. VisitRuns(reports, M!Picks) = {} /\ FailRuns(reports, M!Picks) = {}
    BY <2>1 DEF VisitRuns, FailRuns, M!RunsOf, M!Unscored
  <2>3. reports \in [M!Picks -> M!Score]
    BY <1>2, <2>1
  <2>4. IsFiniteSet(VisitRuns(reports, M!Picks)) /\ IsFiniteSet(FailRuns(reports, M!Picks))
    BY <1>6, <2>2
  <2>5. QED
    BY <2>3, <2>4 DEF Reported
<1>9. Adds(tree, <<>>)
  <2>1. tree[<<>>].visits = 0 /\ 0 \in 0..(0 + 0)
    BY <1>4 DEF M!Unscored
  <2>2. VisitRuns(tree, Kids(tree, <<>>)) = {} /\ M!Visits(tree, Kids(tree, <<>>)) = 0
    BY <1>5, <1>6
  <2>3. QED
    BY <1>6, <2>1, <2>2 DEF Adds
<1>10. Earned(tree, <<>>)
  <2>1. M!Visits(reports, Below(<<>>)) \in Nat /\ M!Failures(reports, Below(<<>>)) \in Nat
    <3>1. Below(<<>>) \subseteq M!Picks
      BY DEF Below
    <3>2. QED
      BY <1>8, <3>1, RunsWithin, CountsAlike DEF Reported, VisitRuns, FailRuns, M!Visits, M!Failures
  <2>2. QED
    BY <1>4, <2>1 DEF Earned, M!Unscored
<1>11. leafBySchedule = <<>> /\ job = [w \in Workers |-> None] /\ exported = None
  BY <1>1 DEF M!Init
<1>12. QED
  BY <1>4, <1>7, <1>8, <1>9, <1>10, <1>11 DEF MctsInv, SoundTree, LeavesWait, JobsLead

-----------------------------------------------------------------------------
(* next() adds a node that has no children yet and counts for nothing.     *)
Grown(t, leaf, g) == g = [q \in DOMAIN t \cup {leaf} |-> IF q = leaf THEN M!Unscored ELSE t[q]]

SameBelow(t, g) ==
  \A q \in DOMAIN t : g[q] = t[q] /\ VisitRuns(g, Kids(g, q)) = VisitRuns(t, Kids(t, q))

LEMMA GrownTree ==
  ASSUME MctsConstants, NEW t, Rooted(t), NEW p \in DOMAIN t, ~M!Terminal(p), NEW k \in M!Moves,
         NEW leaf, leaf = Append(p, k), leaf \notin DOMAIN t, NEW g, Grown(t, leaf, g)
  PROVE  /\ Rooted(g) /\ leaf \in M!Paths /\ leaf # <<>> /\ Kids(g, leaf) = {}
         /\ SameBelow(t, g)
<1>1. p \in M!Paths /\ Len(p) \in Nat /\ DOMAIN t \subseteq M!Paths
  BY PathShape DEF Rooted
<1>2. leaf \in M!Paths /\ Len(leaf) = Len(p) + 1 /\ leaf # <<>> /\ Upper(leaf, Len(p)) = p
  BY <1>1, AppendShape
<1>3. /\ DOMAIN g = DOMAIN t \cup {leaf} /\ g[leaf] = M!Unscored /\ g = [q \in DOMAIN g |-> g[q]]
      /\ \A q \in DOMAIN t : g[q] = t[q]
  BY DEF Grown
<1>4. Rooted(g)
  <2>1. g \in [DOMAIN g -> M!Score]
    <3>1. M!Unscored \in M!Score
      BY DEF M!Unscored, M!Score
    <3>2. \A q \in DOMAIN g : g[q] \in M!Score
      BY <1>3, <3>1 DEF Rooted
    <3>3. QED
      BY <1>3, <3>2
  <2>2. ASSUME NEW q \in DOMAIN t, NEW n \in 0..Len(q) PROVE Upper(q, n) \in DOMAIN g
    BY <1>3 DEF Rooted
  <2>3. ASSUME NEW n \in 0..Len(leaf) PROVE Upper(leaf, n) \in DOMAIN g
    <3>1. CASE n = Len(leaf)
      <4>1. Upper(leaf, n) \in M!Paths /\ Len(Upper(leaf, n)) = n /\ \A i \in 1..n : Upper(leaf, n)[i] = leaf[i]
        BY <1>2, UpperShape
      <4>2. Upper(leaf, n) = leaf
        BY <1>2, <3>1, <4>1, SamePath
      <4>3. QED
        BY <1>3, <4>2
    <3>2. CASE n # Len(leaf)
      <4>1. n \in 0..Len(p)
        BY <1>1, <1>2, <3>2
      <4>2. \A i \in 1..Len(p) : leaf[i] = p[i]
        BY <1>2 DEF Upper
      <4>3. Upper(leaf, n) = Upper(p, n)
        BY <1>1, <4>1, <4>2 DEF Upper
      <4>4. QED
        BY <1>3, <4>1, <4>3 DEF Rooted
    <3>3. QED
      BY <3>1, <3>2
  <2>4. QED
    BY <1>1, <1>2, <1>3, <2>1, <2>2, <2>3 DEF Rooted
<1>5. ASSUME NEW c \in Kids(g, leaf) PROVE FALSE
  <2>1. c \in DOMAIN g /\ Len(c) = Len(leaf) + 1 /\ M!IsPrefix(leaf, c)
    BY DEF Kids
  <2>2. c \in DOMAIN t /\ c \in M!Paths
    <3>1. c # leaf
      BY <1>1, <1>2, <2>1
    <3>2. QED
      BY <1>1, <1>3, <2>1, <3>1
  <2>3. Leads(leaf, c)
    BY <1>2, <2>1, <2>2, PrefixLeads
  <2> DEFINE n == Len(leaf)
  <2>4. n \in 0..Len(c)
    BY <1>1, <1>2, <2>1
  <2>5. Upper(c, n) \in M!Paths /\ Len(Upper(c, n)) = n /\ \A i \in 1..n : Upper(c, n)[i] = c[i]
    <3> HIDE DEF n
    <3>1. QED
      BY <2>2, <2>4, UpperShape
  <2>6. Upper(c, n) = leaf
    BY <1>2, <2>3, <2>5, SamePath DEF Leads
  <2>7. Upper(c, n) \in DOMAIN t
    BY <2>2, <2>4 DEF Rooted
  <2>8. QED
    BY <2>6, <2>7
<1>6. ASSUME NEW q \in DOMAIN t PROVE VisitRuns(g, Kids(g, q)) = VisitRuns(t, Kids(t, q))
  <2>1. Kids(g, q) = Kids(t, q) \/ Kids(g, q) = Kids(t, q) \cup {leaf}
    BY <1>3 DEF Kids
  <2>2. \A c \in Kids(t, q) : g[c].visits = t[c].visits
    BY <1>3 DEF Kids
  <2>3. CASE Kids(g, q) = Kids(t, q)
    <3>1. VisitRuns(g, Kids(t, q)) = VisitRuns(t, Kids(t, q))
      BY ONLY <2>2, VisitsAlike
    <3>2. QED
      BY <2>3, <3>1
  <2>4. CASE Kids(g, q) = Kids(t, q) \cup {leaf}
    <3> DEFINE nodes == Kids(t, q)
               f == [c \in nodes |-> t[c].visits]
               h == [c \in nodes \cup {leaf} |-> g[c].visits]
    <3>1. h[leaf] = 0
      BY <1>3 DEF M!Unscored
    <3>2. \A c \in nodes : h[c] = f[c]
      BY <2>2
    <3>3. VisitRuns(t, nodes) = M!RunsOf(f, nodes) /\ VisitRuns(g, nodes \cup {leaf}) = M!RunsOf(h, nodes \cup {leaf})
      BY DEF VisitRuns
    <3> HIDE DEF f, h, nodes
    <3>4. M!RunsOf(h, nodes \cup {leaf}) = M!RunsOf(f, nodes)
      BY ONLY <3>1, <3>2, OneMoreNode
    <3>5. VisitRuns(t, nodes) = VisitRuns(g, nodes \cup {leaf})
      BY <3>3, <3>4
    <3>6. QED
      BY <2>4, <3>5 DEF nodes
  <2>5. QED
    BY <2>1, <2>3, <2>4
<1>7. QED
  BY <1>2, <1>3, <1>4, <1>5, <1>6 DEF SameBelow

(* feedback() counts a run for a leaf and all nodes above.                 *)
Credited(t, leaf, passed, g) ==
  g = [q \in DOMAIN t |-> IF M!IsPrefix(q, leaf) THEN M!Plus(t[q], passed) ELSE t[q]]

AddsUp(t) == \A p \in DOMAIN t : ~M!Terminal(p) => Adds(t, p)

OthersWait(t, leaf, g) ==
  \A p \in DOMAIN t : ~M!Terminal(p) /\ p # leaf /\ t[p].visits = M!Visits(t, Kids(t, p))
                        => g[p].visits = M!Visits(g, Kids(g, p))

LEMMA CreditedTree ==
  ASSUME MctsConstants, NEW t, Rooted(t), AddsUp(t),
         NEW leaf \in DOMAIN t, leaf # <<>>,
         ~M!Terminal(leaf) => t[leaf].visits = M!Visits(t, Kids(t, leaf)),
         NEW passed \in BOOLEAN, NEW g, Credited(t, leaf, passed, g)
  PROVE  Rooted(g) /\ AddsUp(g) /\ OthersWait(t, leaf, g)
<1>1. DOMAIN g = DOMAIN t /\ \A p : Kids(g, p) = Kids(t, p)
  BY DEF Kids, Credited
<1>2. \A p \in DOMAIN t :
        /\ t[p].visits \in Nat /\ t[p].failures \in Nat
        /\ g[p].visits = t[p].visits + IF M!IsPrefix(p, leaf) THEN 1 ELSE 0
        /\ g[p] \in M!Score
  <2>1. ASSUME NEW p \in DOMAIN t
        PROVE  /\ t[p] \in M!Score /\ t[p].visits \in Nat /\ t[p].failures \in Nat
    BY DEF Rooted, M!Score
  <2>2. ASSUME NEW p \in DOMAIN t
        PROVE  /\ g[p].visits = t[p].visits + IF M!IsPrefix(p, leaf) THEN 1 ELSE 0
               /\ g[p] \in M!Score
    BY <2>1 DEF M!Plus, M!Score, Credited
  <2>3. QED
    BY <2>1, <2>2
<1>3. Rooted(g)
  <2>1. g = [q \in DOMAIN g |-> g[q]]
    BY DEF Credited
  <2>2. g \in [DOMAIN g -> M!Score]
    BY <1>1, <1>2, <2>1
  <2>3. QED
    BY <1>1, <2>2 DEF Rooted
<1>4. ASSUME NEW p \in DOMAIN t, ~M!Terminal(p)
      PROVE  /\ IsFiniteSet(VisitRuns(g, Kids(t, p))) /\ M!Visits(t, Kids(t, p)) \in Nat
             /\ M!Visits(g, Kids(t, p)) = M!Visits(t, Kids(t, p))
                  + IF M!IsPrefix(p, leaf) /\ p # leaf THEN 1 ELSE 0
  <2>1. IsFiniteSet(VisitRuns(t, Kids(t, p))) /\ Kids(t, p) \subseteq DOMAIN t
    BY <1>4 DEF AddsUp, Adds, Kids
  <2>2. CASE M!IsPrefix(p, leaf) /\ p # leaf
    <3>1. PICK c \in Kids(t, p) :
            M!IsPrefix(c, leaf) /\ \A d \in Kids(t, p) : M!IsPrefix(d, leaf) => d = c
      BY <2>2, OneChildLeads
    <3>2. /\ t[c].visits \in Nat /\ g[c].visits = t[c].visits + 1
          /\ \A d \in Kids(t, p) \ {c} : g[d].visits = t[d].visits
      BY <1>2, <2>1, <3>1
    <3>3. QED
      BY <2>1, <2>2, <3>2, OneMoreVisit
  <2>3. CASE ~(M!IsPrefix(p, leaf) /\ p # leaf)
    <3>1. \A d \in Kids(t, p) : g[d].visits = t[d].visits
      BY <1>2, <2>1, <2>3, OneChildLeads
    <3>2. VisitRuns(g, Kids(t, p)) = VisitRuns(t, Kids(t, p))
      BY <3>1, VisitsAlike
    <3>3. M!Visits(t, Kids(t, p)) \in Nat /\ M!Visits(g, Kids(t, p)) = M!Visits(t, Kids(t, p))
      BY <2>1, <3>2, FS_CardinalityType, CountsAlike DEF M!Visits, VisitRuns
    <3>4. QED
      BY <2>1, <2>3, <3>2, <3>3
  <2>4. QED
    BY <2>2, <2>3
<1>5. ASSUME NEW p \in DOMAIN t, ~M!Terminal(p) PROVE Adds(g, p)
  <2> DEFINE b == M!Visits(t, Kids(t, p))
             a == M!Visits(g, Kids(t, p))
             u == t[p].visits
             v == g[p].visits
             own == IF p = <<>> THEN 0 ELSE 1
  <2>1. u \in b..(b + own) /\ (p = leaf => u = b) /\ u \in Nat /\ b \in Nat
    BY <1>2, <1>4, <1>5 DEF AddsUp, Adds
  <2>2. /\ v = u + IF M!IsPrefix(p, leaf) THEN 1 ELSE 0
        /\ a = b + IF M!IsPrefix(p, leaf) /\ p # leaf THEN 1 ELSE 0
        /\ IsFiniteSet(VisitRuns(g, Kids(t, p)))
    BY <1>2, <1>4, <1>5
  <2>3. p = leaf => own = 1
    OBVIOUS
  <2>4. own \in {0, 1}
    OBVIOUS
  <2> HIDE DEF a, b, u, v, own
  <2>5. v \in a..(a + own)
    BY <2>1, <2>2, <2>3, <2>4
  <2>6. QED
    BY <1>1, <2>2, <2>5 DEF Adds, a, v, own
<1>6. ASSUME NEW p \in DOMAIN t, ~M!Terminal(p), p # leaf, t[p].visits = M!Visits(t, Kids(t, p))
      PROVE  g[p].visits = M!Visits(g, Kids(g, p))
  BY <1>1, <1>2, <1>4, <1>6
<1>7. QED
  BY <1>1, <1>3, <1>5, <1>6 DEF AddsUp, OthersWait

LEMMA CountsOfReports ==
  ASSUME Reported, NEW p
  PROVE  M!Visits(reports, Below(p)) \in Nat /\ M!Failures(reports, Below(p)) \in Nat
<1>1. Below(p) \subseteq M!Picks
  BY DEF Below
<1>2. QED
  BY <1>1, RunsWithin, CountsAlike DEF Reported, VisitRuns, FailRuns, M!Visits, M!Failures

LEMMA OneMoreReport ==
  ASSUME MctsConstants, Reported, NEW k \in M!Picks, NEW passed \in BOOLEAN,
         reports' = [reports EXCEPT ![k] = M!Plus(@, passed)]
  PROVE  /\ Reported'
         /\ \A p :
              /\ M!Visits(reports, Below(p)) \in Nat /\ M!Failures(reports, Below(p)) \in Nat
              /\ M!Visits(reports', Below(p)) =
                   M!Visits(reports, Below(p)) + IF M!IsPrefix(p, k) THEN 1 ELSE 0
              /\ M!Failures(reports', Below(p)) =
                   M!Failures(reports, Below(p)) + IF M!IsPrefix(p, k) /\ ~passed THEN 1 ELSE 0
<1> DEFINE after == [reports EXCEPT ![k] = M!Plus(@, passed)]
<1>1. /\ reports \in [M!Picks -> M!Score] /\ reports[k].visits \in Nat /\ reports[k].failures \in Nat
      /\ IsFiniteSet(VisitRuns(reports, M!Picks)) /\ IsFiniteSet(FailRuns(reports, M!Picks))
  BY DEF Reported, M!Score
<1>2. /\ M!Plus(reports[k], passed) \in M!Score
      /\ M!Plus(reports[k], passed).visits = reports[k].visits + 1
      /\ M!Plus(reports[k], passed).failures = reports[k].failures + IF passed THEN 0 ELSE 1
  BY <1>1 DEF M!Plus, M!Score
<1>3. /\ after \in [M!Picks -> M!Score] /\ after[k].visits = reports[k].visits + 1
      /\ after[k].failures = reports[k].failures + IF passed THEN 0 ELSE 1
      /\ \A y \in M!Picks \ {k} :
           after[y].visits = reports[y].visits /\ after[y].failures = reports[y].failures
  BY <1>1, <1>2
<1> HIDE DEF after
<1>4. ASSUME NEW some \in SUBSET M!Picks, k \in some
      PROVE  /\ IsFiniteSet(VisitRuns(after, some)) /\ IsFiniteSet(FailRuns(after, some))
             /\ M!Visits(reports, some) \in Nat /\ M!Failures(reports, some) \in Nat
             /\ M!Visits(after, some) = M!Visits(reports, some) + 1
             /\ M!Failures(after, some) = M!Failures(reports, some) + IF passed THEN 0 ELSE 1
  <2>1. IsFiniteSet(VisitRuns(reports, some)) /\ IsFiniteSet(FailRuns(reports, some))
    BY <1>1, RunsWithin DEF VisitRuns, FailRuns
  <2>2. \A y \in some \ {k} :
          after[y].visits = reports[y].visits /\ after[y].failures = reports[y].failures
    BY <1>3
  <2>3. /\ IsFiniteSet(VisitRuns(after, some)) /\ M!Visits(reports, some) \in Nat
        /\ M!Visits(after, some) = M!Visits(reports, some) + 1
    <3>1. /\ k \in some /\ reports[k].visits \in Nat /\ after[k].visits = reports[k].visits + 1
          /\ \A y \in some \ {k} : after[y].visits = reports[y].visits
          /\ IsFiniteSet(VisitRuns(reports, some))
      BY <1>1, <1>3, <1>4, <2>1, <2>2
    <3>2. QED
      BY ONLY <3>1, OneMoreVisit
  <2>4. CASE ~passed
    <3>1. after[k].failures = reports[k].failures + 1
      BY <1>3, <2>4
    <3>2. /\ IsFiniteSet(FailRuns(after, some)) /\ M!Failures(reports, some) \in Nat
          /\ M!Failures(after, some) = M!Failures(reports, some) + 1
      BY ONLY <1>1, <1>4, <2>1, <2>2, <3>1, OneMoreFailure
    <3>3. QED
      BY <2>3, <2>4, <3>2
  <2>5. CASE passed
    <3>1. \A y \in some : after[y].failures = reports[y].failures
      BY <1>1, <1>3, <2>2, <2>5
    <3>2. FailRuns(after, some) = FailRuns(reports, some)
      BY ONLY <3>1, FailuresAlike
    <3>3. M!Failures(reports, some) \in Nat /\ M!Failures(after, some) = M!Failures(reports, some)
      BY <2>1, <3>2, FS_CardinalityType, CountsAlike DEF M!Failures, FailRuns
    <3>4. QED
      BY <2>1, <2>3, <2>5, <3>2, <3>3
  <2>6. QED
    BY <2>4, <2>5
<1>5. ASSUME NEW some \in SUBSET M!Picks, k \notin some
      PROVE  M!Visits(after, some) = M!Visits(reports, some) /\ M!Failures(after, some) = M!Failures(reports, some)
  <2>1. \A y \in some :
          after[y].visits = reports[y].visits /\ after[y].failures = reports[y].failures
    BY <1>3, <1>5
  <2>2. VisitRuns(after, some) = VisitRuns(reports, some)
    BY ONLY <2>1, VisitsAlike
  <2>3. FailRuns(after, some) = FailRuns(reports, some)
    BY ONLY <2>1, FailuresAlike
  <2>4. QED
    BY <2>2, <2>3, CountsAlike DEF M!Visits, M!Failures, VisitRuns, FailRuns
<1>6. reports' = after
  BY DEF after
<1>7. Reported'
  <2>1. IsFiniteSet(VisitRuns(after, M!Picks)) /\ IsFiniteSet(FailRuns(after, M!Picks))
    BY <1>4
  <2>2. VisitRuns(reports', M!Picks) = VisitRuns(after, M!Picks) /\ FailRuns(reports', M!Picks) = FailRuns(after, M!Picks)
    BY <1>6
  <2>3. QED
    BY <1>3, <1>6, <2>1, <2>2 DEF Reported
<1>8. ASSUME NEW p
      PROVE  /\ M!Visits(reports, Below(p)) \in Nat /\ M!Failures(reports, Below(p)) \in Nat
             /\ M!Visits(after, Below(p)) =
                  M!Visits(reports, Below(p)) + IF M!IsPrefix(p, k) THEN 1 ELSE 0
             /\ M!Failures(after, Below(p)) =
                  M!Failures(reports, Below(p)) + IF M!IsPrefix(p, k) /\ ~passed THEN 1 ELSE 0
  <2>1. Below(p) \in SUBSET M!Picks /\ (k \in Below(p) <=> M!IsPrefix(p, k))
    BY DEF Below
  <2>2. M!Visits(reports, Below(p)) \in Nat /\ M!Failures(reports, Below(p)) \in Nat
    BY CountsOfReports
  <2>3. CASE M!IsPrefix(p, k)
    BY <1>4, <2>1, <2>2, <2>3
  <2>4. CASE ~M!IsPrefix(p, k)
    BY <1>5, <2>1, <2>2, <2>4
  <2>5. QED
    BY <2>3, <2>4
<1>9. QED
  BY <1>6, <1>7, <1>8

-----------------------------------------------------------------------------
LEMMA MctsIssues ==
  ASSUME MctsConstants, MctsInv, NEW w \in Workers, M!NextSchedules(w)
  PROVE  MctsInv'
<1>1. PICK p \in DOMAIN tree :
        /\ M!Promising(p)
        /\ \E leaf \in M!Expand(p), pick \in M!Picks :
             /\ M!IsPrefix(leaf, pick)
             /\ tree' = [q \in DOMAIN tree \cup {leaf} |->
                           IF q = leaf /\ ~M!Terminal(p) THEN M!Unscored ELSE tree[q]]
             /\ leafBySchedule' = Append(leafBySchedule, leaf)
             /\ job' = IF M!Malformed(pick) THEN job
                         ELSE [job EXCEPT ![w] = [issue |-> Len(leafBySchedule) + 1,
                                                  pick |-> pick]]
  BY DEF M!NextSchedules
<1>2. PICK leaf \in M!Expand(p), pick \in M!Picks :
        /\ M!IsPrefix(leaf, pick)
        /\ tree' = [q \in DOMAIN tree \cup {leaf} |->
                      IF q = leaf /\ ~M!Terminal(p) THEN M!Unscored ELSE tree[q]]
        /\ leafBySchedule' = Append(leafBySchedule, leaf)
        /\ job' = IF M!Malformed(pick) THEN job
                    ELSE [job EXCEPT ![w] = [issue |-> Len(leafBySchedule) + 1,
                                             pick |-> pick]]
  BY <1>1
<1>3. /\ job[w] = None /\ UNCHANGED <<exported, resumptions, reports>>
      /\ leafBySchedule \in Seq(M!Paths \cup {None}) /\ DOMAIN job = Workers
      /\ SoundTree(tree) /\ Reported /\ LeavesWait /\ JobsLead
      /\ exported # None => SoundTree(exported)
  BY DEF M!NextSchedules, MctsInv
<1>4. p \in M!Paths /\ Len(p) \in Nat /\ tree = [q \in DOMAIN tree |-> tree[q]] /\ Rooted(tree)
  BY <1>3, PathShape DEF SoundTree, Rooted
<1>5. \A t : SoundTree(t)' <=> SoundTree(t)
  BY <1>3 DEF SoundTree, Earned
<1>6. /\ leaf \in M!Paths /\ leaf # <<>> /\ leaf \in DOMAIN tree'
      /\ Rooted(tree') /\ DOMAIN tree \subseteq DOMAIN tree'
      /\ \A q \in DOMAIN tree :
           /\ tree'[q] = tree[q]
           /\ M!Visits(tree', Kids(tree', q)) = M!Visits(tree, Kids(tree, q))
           /\ VisitRuns(tree', Kids(tree', q)) = VisitRuns(tree, Kids(tree, q))
      /\ \/ M!Terminal(leaf) /\ tree' = tree
         \/ /\ leaf \notin DOMAIN tree /\ DOMAIN tree' = DOMAIN tree \cup {leaf}
            /\ tree'[leaf] = M!Unscored /\ Kids(tree', leaf) = {}
  <2>1. CASE M!Terminal(p)
    <3>1. leaf = p
      BY <2>1 DEF M!Expand
    <3>2. tree' = tree
      <4>1. tree' = [q \in DOMAIN tree |-> tree[q]]
        BY <1>2, <2>1, <3>1
      <4>2. QED
        BY <1>4, <4>1
    <3>3. leaf # <<>>
      BY <2>1, <3>1 DEF M!Terminal, MctsConstants
    <3>4. QED
      BY <1>4, <2>1, <3>1, <3>2, <3>3
  <2>2. CASE ~M!Terminal(p)
    <3>1. PICK k \in M!UnexpandedMoves(p) : leaf = Append(p, k)
      BY <2>2 DEF M!Expand
    <3>2. k \in M!Moves /\ leaf \notin DOMAIN tree
      BY <3>1 DEF M!UnexpandedMoves
    <3> DEFINE g == [q \in DOMAIN tree \cup {leaf} |-> IF q = leaf THEN M!Unscored ELSE tree[q]]
    <3>3. tree' = g
      BY <1>2, <2>2
    <3>4. DOMAIN g = DOMAIN tree \cup {leaf} /\ g[leaf] = M!Unscored
      OBVIOUS
    <3>5. /\ Rooted(g) /\ leaf \in M!Paths /\ leaf # <<>> /\ Kids(g, leaf) = {}
          /\ SameBelow(tree, g)
      <4>1. leaf = Append(p, k) /\ k \in M!Moves /\ p \in DOMAIN tree /\ Rooted(tree)
        BY <1>4, <3>1, <3>2
      <4>2. Grown(tree, leaf, g) /\ leaf \notin DOMAIN tree /\ ~M!Terminal(p)
        BY <2>2, <3>2 DEF Grown
      <4> HIDE DEF g
      <4>3. QED
        BY ONLY MctsConstants, <4>1, <4>2, GrownTree
    <3> HIDE DEF g
    <3>6. \A q \in DOMAIN tree : M!Visits(g, Kids(g, q)) = M!Visits(tree, Kids(tree, q))
      BY <3>5, CountsAlike DEF M!Visits, VisitRuns, SameBelow
    <3>7. QED
      BY <3>2, <3>3, <3>4, <3>5, <3>6 DEF SameBelow
  <2>3. QED
    BY <2>1, <2>2
<1>7. M!Visits(tree', {}) = 0 /\ IsFiniteSet(VisitRuns(tree', {}))
  <2>1. M!RunsOf([x \in {} |-> tree'[x].visits], {}) = {}
    BY DEF M!RunsOf
  <2>2. QED
    BY <2>1, FS_EmptySet, CountsAlike DEF M!Visits, VisitRuns
<1>8. SoundTree(tree')
  <2>1. ASSUME NEW q \in DOMAIN tree PROVE (~M!Terminal(q) => Adds(tree', q)) /\ Earned(tree', q)
    BY <1>3, <1>6 DEF SoundTree, Adds, Earned
  <2>2. ASSUME leaf \notin DOMAIN tree PROVE (~M!Terminal(leaf) => Adds(tree', leaf)) /\ Earned(tree', leaf)
    <3>1. /\ tree'[leaf].visits = 0 /\ tree'[leaf].failures = 0 /\ Kids(tree', leaf) = {}
          /\ leaf # <<>> /\ 0 \in 0..(0 + 1)
      BY <1>6, <2>2 DEF M!Unscored
    <3>2. Adds(tree', leaf)
      <4>1. VisitRuns(tree', Kids(tree', leaf)) = VisitRuns(tree', {}) /\ M!Visits(tree', Kids(tree', leaf)) = 0
        BY <1>7, <3>1
      <4>2. QED
        BY <1>7, <3>1, <4>1 DEF Adds
    <3>3. Earned(tree', leaf)
      BY <1>3, <3>1, CountsOfReports DEF Earned
    <3>4. QED
      BY <3>2, <3>3
  <2>3. QED
    BY <1>6, <2>1, <2>2 DEF SoundTree
<1>9. SoundTree(tree)' /\ (exported # None => SoundTree(exported))'
  <2>1. Earned(tree, 0)' <=> Earned(tree', 0)
    BY <1>3 DEF Earned
  <2>2. QED
    BY <1>3, <1>5, <1>8 DEF SoundTree, Earned
<1> DEFINE n == Len(leafBySchedule)
<1>10. /\ leafBySchedule' \in Seq(M!Paths \cup {None}) /\ n \in Nat
       /\ DOMAIN leafBySchedule = 1..n /\ DOMAIN leafBySchedule' = 1..(n + 1)
       /\ leafBySchedule'[n + 1] = leaf
       /\ \A i \in 1..n : leafBySchedule'[i] = leafBySchedule[i]
  BY <1>2, <1>3, <1>6, AppendProperties, LenProperties
<1> HIDE DEF n
<1>11. LeavesWait'
  <2>1. ASSUME NEW i \in DOMAIN leafBySchedule', leafBySchedule'[i] # None
        PROVE  /\ leafBySchedule'[i] \in DOMAIN tree'
               /\ leafBySchedule'[i] # <<>>
               /\ ~M!Terminal(leafBySchedule'[i]) =>
                    /\ tree'[leafBySchedule'[i]].visits = M!Visits(tree', Kids(tree', leafBySchedule'[i]))
                    /\ \A j \in DOMAIN leafBySchedule' : leafBySchedule'[j] = leafBySchedule'[i] => i = j
    <3>1. CASE i \in 1..n
      <4> DEFINE l == leafBySchedule[i]
      <4>1. /\ leafBySchedule'[i] = l /\ l \in DOMAIN tree /\ l # <<>> /\ l \in DOMAIN tree'
            /\ ~M!Terminal(l) =>
                 /\ tree[l].visits = M!Visits(tree, Kids(tree, l))
                 /\ \A j \in 1..n : leafBySchedule[j] = l => i = j
        BY <1>3, <1>6, <1>10, <2>1, <3>1 DEF LeavesWait
      <4> HIDE DEF l
      <4>2. ~M!Terminal(l) => l # leaf
        BY <1>6, <4>1
      <4>3. ASSUME ~M!Terminal(l) PROVE tree'[l].visits = M!Visits(tree', Kids(tree', l))
        BY <1>6, <4>1, <4>3
      <4>4. ASSUME ~M!Terminal(l), NEW j \in 1..(n + 1), leafBySchedule'[j] = l PROVE i = j
        <5>1. j # n + 1
          BY <1>10, <4>2, <4>4
        <5>2. QED
          BY <1>10, <4>1, <4>4, <5>1
      <4>5. QED
        BY <1>10, <4>1, <4>3, <4>4
    <3>2. CASE i = n + 1
      <4>1. leafBySchedule'[i] = leaf
        BY <1>10, <3>2
      <4>2. ASSUME ~M!Terminal(leaf) PROVE tree'[leaf].visits = M!Visits(tree', Kids(tree', leaf))
        <5>1. CASE leaf \in DOMAIN tree
          BY <1>6, <4>2, <5>1
        <5>2. CASE leaf \notin DOMAIN tree
          <6>1. tree'[leaf] = M!Unscored /\ Kids(tree', leaf) = {}
            BY <1>6, <5>2
          <6>2. tree'[leaf].visits = 0 /\ M!Visits(tree', Kids(tree', leaf)) = 0
            BY <1>7, <6>1 DEF M!Unscored
          <6>3. QED
            BY <6>2
        <5>3. QED
          BY <5>1, <5>2
      <4>3. ASSUME ~M!Terminal(leaf), NEW j \in 1..(n + 1), leafBySchedule'[j] = leaf PROVE i = j
        <5>1. ASSUME j \in 1..n PROVE FALSE
          <6>1. leafBySchedule[j] = leaf /\ leaf # None
            BY <1>6, <1>10, <4>3, <5>1 DEF MctsConstants
          <6>2. leaf \in DOMAIN tree
            BY <1>3, <1>10, <5>1, <6>1 DEF LeavesWait
          <6>3. QED
            BY <1>6, <4>3, <6>2
        <5>2. QED
          BY <1>10, <3>2, <4>3, <5>1
      <4>4. QED
        BY <1>6, <1>10, <4>1, <4>2, <4>3
    <3>3. QED
      BY <1>10, <2>1, <3>1, <3>2
  <2>2. QED
    BY <2>1 DEF LeavesWait
<1>12. JobsLead' /\ (DOMAIN job = Workers)'
  <2>1. \A v \in Workers : job[v] # None =>
          /\ job[v].issue \in 1..n /\ job[v].issue # n + 1 /\ job[v].pick \in M!Picks
          /\ leafBySchedule'[job[v].issue] = leafBySchedule[job[v].issue]
          /\ leafBySchedule[job[v].issue] # None
          /\ M!IsPrefix(leafBySchedule[job[v].issue], job[v].pick)
    BY <1>3, <1>10 DEF JobsLead
  <2>2. \A v \in Workers :
          \/ job'[v] = job[v]
          \/ /\ v = w /\ job'[v].issue = n + 1 /\ job'[v].pick = pick
    BY <1>2, <1>3 DEF n
  <2>3. DOMAIN job' = Workers
    BY <1>2, <1>3
  <2>4. leaf # None /\ n + 1 \in DOMAIN leafBySchedule'
    BY <1>6, <1>10 DEF MctsConstants
  <2>5. ASSUME NEW v \in Workers, job'[v] # None
        PROVE  /\ job'[v].issue \in DOMAIN leafBySchedule' /\ job'[v].pick \in M!Picks
               /\ leafBySchedule'[job'[v].issue] # None
               /\ M!IsPrefix(leafBySchedule'[job'[v].issue], job'[v].pick)
    <3>1. CASE job'[v] = job[v]
      BY <1>10, <2>1, <2>5, <3>1
    <3>2. CASE v = w /\ job'[v].issue = n + 1 /\ job'[v].pick = pick
      BY <1>2, <1>10, <2>4, <3>2
    <3>3. QED
      BY <2>2, <3>1, <3>2
  <2>6. ASSUME NEW v \in Workers, NEW u \in Workers, job'[v] # None, job'[u] # None,
               job'[v].issue = job'[u].issue
        PROVE  v = u
    BY <1>3, <2>1, <2>2, <2>6 DEF JobsLead
  <2>7. QED
    BY <2>3, <2>5, <2>6 DEF JobsLead
<1>13. Reported'
  BY <1>3 DEF Reported
<1>14. QED
  BY <1>9, <1>10, <1>11, <1>12, <1>13 DEF MctsInv

LEMMA MctsLearns ==
  ASSUME MctsConstants, MctsInv, NEW w \in Workers, M!Feedback(w)
  PROVE  MctsInv'
<1>1. PICK passed \in BOOLEAN :
        /\ job[w] # None
        /\ M!Backpropagate(job[w].issue, passed)
        /\ leafBySchedule' = [leafBySchedule EXCEPT ![job[w].issue] = None]
        /\ job' = [job EXCEPT ![w] = None]
        /\ reports' = [reports EXCEPT ![job[w].pick] = M!Plus(@, passed)]
        /\ UNCHANGED <<exported, resumptions>>
  BY DEF M!Feedback
<1> DEFINE issue == job[w].issue
           pick == job[w].pick
           leaf == leafBySchedule[issue]
<1>2. /\ leafBySchedule \in Seq(M!Paths \cup {None}) /\ DOMAIN job = Workers
      /\ SoundTree(tree) /\ Reported /\ LeavesWait /\ JobsLead
      /\ exported # None => SoundTree(exported)
  BY DEF MctsInv
<1>3. /\ issue \in DOMAIN leafBySchedule /\ pick \in M!Picks /\ leaf # None /\ M!IsPrefix(leaf, pick)
      /\ \A v \in Workers : job[v] # None /\ job[v].issue = issue => v = w
  BY <1>1, <1>2 DEF JobsLead
<1>4. /\ leaf \in DOMAIN tree /\ leaf # <<>>
      /\ ~M!Terminal(leaf) =>
           /\ tree[leaf].visits = M!Visits(tree, Kids(tree, leaf))
           /\ \A j \in DOMAIN leafBySchedule : leafBySchedule[j] = leaf => issue = j
  BY <1>2, <1>3 DEF LeavesWait
<1>5. /\ leafBySchedule' = [leafBySchedule EXCEPT ![issue] = None]
      /\ job' = [job EXCEPT ![w] = None]
      /\ reports' = [reports EXCEPT ![pick] = M!Plus(@, passed)]
      /\ exported' = exported
      /\ Credited(tree, leaf, passed, tree')
  BY <1>1 DEF M!Backpropagate, Credited
<1> HIDE DEF issue, pick, leaf
<1>6. Rooted(tree) /\ AddsUp(tree)
  BY <1>2 DEF SoundTree, AddsUp
<1>7. Rooted(tree') /\ AddsUp(tree') /\ OthersWait(tree, leaf, tree')
  BY ONLY MctsConstants, <1>4, <1>5, <1>6, passed \in BOOLEAN, CreditedTree
<1>8. /\ Reported'
      /\ \A p :
           /\ M!Visits(reports, Below(p)) \in Nat /\ M!Failures(reports, Below(p)) \in Nat
           /\ M!Visits(reports', Below(p)) =
                M!Visits(reports, Below(p)) + IF M!IsPrefix(p, pick) THEN 1 ELSE 0
           /\ M!Failures(reports', Below(p)) =
                M!Failures(reports, Below(p)) + IF M!IsPrefix(p, pick) /\ ~passed THEN 1 ELSE 0
  BY <1>2, <1>3, <1>5, OneMoreReport
<1>9. ASSUME NEW t, Rooted(t), NEW p \in DOMAIN t, Earned(t, p)
      PROVE  /\ t[p].visits <= M!Visits(reports', Below(p))
             /\ t[p].failures <= M!Failures(reports', Below(p))
  <2>1. t[p].visits \in Nat /\ t[p].failures \in Nat
    BY <1>9 DEF Rooted, M!Score
  <2>2. QED
    BY <1>8, <1>9, <2>1 DEF Earned
<1>10. \A p \in DOMAIN tree :
         /\ tree'[p].visits <= M!Visits(reports', Below(p))
         /\ tree'[p].failures <= M!Failures(reports', Below(p))
  <2>1. SUFFICES ASSUME NEW p \in DOMAIN tree
                 PROVE  /\ tree'[p].visits <= M!Visits(reports', Below(p))
                        /\ tree'[p].failures <= M!Failures(reports', Below(p))
    OBVIOUS
  <2>2. /\ Earned(tree, p) /\ tree[p].visits \in Nat /\ tree[p].failures \in Nat
        /\ p \in M!Paths /\ leaf \in M!Paths /\ pick \in M!Paths
    BY <1>2, <1>3, <1>4, PicksArePaths DEF SoundTree, Rooted, M!Score
  <2>3. CASE M!IsPrefix(p, leaf)
    <3>1. M!IsPrefix(p, pick)
      <4>1. Leads(p, leaf) /\ Leads(leaf, pick)
        BY <1>3, <2>2, <2>3, PrefixLeads
      <4>2. Len(p) \in Nat /\ Len(leaf) \in Nat /\ Len(pick) \in Nat
        BY <2>2, PathShape
      <4>3. Leads(p, pick)
        BY <4>1, <4>2 DEF Leads
      <4>4. QED
        BY <2>2, <4>3, PrefixLeads
    <3>2. /\ tree'[p].visits = tree[p].visits + 1
          /\ tree'[p].failures = tree[p].failures + IF passed THEN 0 ELSE 1
      BY <1>5, <2>3 DEF Credited, M!Plus
    <3>3. QED
      BY <1>8, <2>2, <3>1, <3>2 DEF Earned
  <2>4. CASE ~M!IsPrefix(p, leaf)
    <3>1. tree'[p] = tree[p]
      BY <1>5, <2>4 DEF Credited
    <3>2. QED
      BY <1>6, <1>9, <2>2, <3>1
  <2>5. QED
    BY <2>3, <2>4
<1>11. SoundTree(tree)' /\ (exported # None => SoundTree(exported))'
  <2>1. DOMAIN tree' = DOMAIN tree
    BY <1>5 DEF Credited
  <2>2. SoundTree(tree)'
    BY <1>7, <1>10, <2>1 DEF SoundTree, AddsUp, Earned
  <2>3. ASSUME exported # None PROVE SoundTree(exported)'
    BY <1>2, <1>5, <1>9, <2>3 DEF SoundTree, Earned
  <2>4. QED
    BY <1>5, <2>2, <2>3
<1>12. /\ leafBySchedule' \in Seq(M!Paths \cup {None}) /\ DOMAIN leafBySchedule' = DOMAIN leafBySchedule
       /\ leafBySchedule'[issue] = None
       /\ \A i \in DOMAIN leafBySchedule : i # issue => leafBySchedule'[i] = leafBySchedule[i]
  <2>1. leafBySchedule' \in Seq(M!Paths \cup {None})
    BY <1>2, <1>3, <1>5, ExceptSeq
  <2>2. QED
    BY <1>3, <1>5, <2>1
<1>13. LeavesWait'
  <2>1. SUFFICES ASSUME NEW i \in DOMAIN leafBySchedule', leafBySchedule'[i] # None
        PROVE  /\ leafBySchedule'[i] \in DOMAIN tree'
               /\ leafBySchedule'[i] # <<>>
               /\ ~M!Terminal(leafBySchedule'[i]) =>
                    /\ tree'[leafBySchedule'[i]].visits = M!Visits(tree', Kids(tree', leafBySchedule'[i]))
                    /\ \A j \in DOMAIN leafBySchedule' : leafBySchedule'[j] = leafBySchedule'[i] => i = j
    BY DEF LeavesWait
  <2> DEFINE l == leafBySchedule[i]
  <2>2. /\ i \in DOMAIN leafBySchedule /\ i # issue /\ leafBySchedule'[i] = l /\ l # None
    BY <1>12, <2>1
  <2>3. /\ l \in DOMAIN tree /\ l # <<>>
        /\ ~M!Terminal(l) =>
             /\ tree[l].visits = M!Visits(tree, Kids(tree, l))
             /\ \A j \in DOMAIN leafBySchedule : leafBySchedule[j] = l => i = j
    BY <1>2, <2>2 DEF LeavesWait
  <2> HIDE DEF l
  <2>4. l \in DOMAIN tree'
    BY <1>5, <2>3 DEF Credited
  <2>5. ASSUME ~M!Terminal(l) PROVE tree'[l].visits = M!Visits(tree', Kids(tree', l))
    <3>1. l # leaf
      BY <1>3, <2>2, <2>3, <2>5 DEF leaf
    <3>2. QED
      BY <1>7, <2>3, <2>5, <3>1 DEF OthersWait
  <2>6. ASSUME ~M!Terminal(l), NEW j \in DOMAIN leafBySchedule', leafBySchedule'[j] = l PROVE i = j
    BY <1>12, <2>2, <2>3, <2>6
  <2>7. QED
    BY <2>2, <2>3, <2>4, <2>5, <2>6
<1>14. JobsLead' /\ (DOMAIN job = Workers)'
  <2>1. /\ DOMAIN job' = Workers /\ job'[w] = None
        /\ \A v \in Workers : v # w => job'[v] = job[v]
    BY <1>2, <1>5
  <2>2. ASSUME NEW v \in Workers, job'[v] # None
        PROVE  /\ v # w /\ job'[v] = job[v]
               /\ job'[v].issue \in DOMAIN leafBySchedule' /\ job'[v].pick \in M!Picks
               /\ leafBySchedule'[job'[v].issue] # None
               /\ M!IsPrefix(leafBySchedule'[job'[v].issue], job'[v].pick)
    <3>1. v # w /\ job'[v] = job[v]
      BY <2>1, <2>2
    <3>2. job[v].issue # issue
      BY <1>3, <2>2, <3>1
    <3>3. /\ job[v].issue \in DOMAIN leafBySchedule /\ job[v].pick \in M!Picks
          /\ leafBySchedule[job[v].issue] # None
          /\ M!IsPrefix(leafBySchedule[job[v].issue], job[v].pick)
      BY <1>2, <2>2, <3>1 DEF JobsLead
    <3>4. QED
      BY <1>12, <3>1, <3>2, <3>3
  <2>3. ASSUME NEW v \in Workers, NEW u \in Workers, job'[v] # None, job'[u] # None,
               job'[v].issue = job'[u].issue
        PROVE  v = u
    BY <1>2, <2>2, <2>3 DEF JobsLead
  <2>4. QED
    BY <2>1, <2>2, <2>3 DEF JobsLead
<1>15. QED
  BY <1>8, <1>11, <1>12, <1>13, <1>14 DEF MctsInv

LEMMA MctsExports == ASSUME MctsConstants, MctsInv, M!ExportTree PROVE MctsInv'
<1>1. /\ leafBySchedule \in Seq(M!Paths \cup {None}) /\ DOMAIN job = Workers
      /\ SoundTree(tree) /\ Reported /\ LeavesWait /\ JobsLead
  BY DEF MctsInv
<1>2. exported' = tree /\ UNCHANGED <<tree, leafBySchedule, job, resumptions, reports>>
  BY DEF M!ExportTree
<1>3. SoundTree(tree)' /\ SoundTree(exported)'
  BY <1>1, <1>2 DEF SoundTree, Earned
<1>4. Reported' /\ LeavesWait' /\ JobsLead'
  BY <1>1, <1>2 DEF Reported, LeavesWait, JobsLead
<1>5. QED
  BY <1>1, <1>2, <1>3, <1>4 DEF MctsInv

LEMMA MctsResumes == ASSUME MctsConstants, MctsInv, M!ResumeTree PROVE MctsInv'
<1>1. /\ leafBySchedule \in Seq(M!Paths \cup {None})
      /\ SoundTree(exported) /\ Reported
  BY DEF MctsInv, M!ResumeTree
<1>2. /\ tree' = exported /\ exported' = exported /\ reports' = reports
      /\ leafBySchedule' = [i \in DOMAIN leafBySchedule |-> None]
      /\ job' = [w \in Workers |-> None]
  BY DEF M!ResumeTree
<1>3. SoundTree(tree)' /\ SoundTree(exported)'
  BY <1>1, <1>2 DEF SoundTree, Earned
<1>4. Reported' /\ LeavesWait' /\ JobsLead'
  BY <1>1, <1>2 DEF Reported, LeavesWait, JobsLead
<1>5. leafBySchedule' \in Seq(M!Paths \cup {None})
  <2>1. Len(leafBySchedule) \in Nat /\ DOMAIN leafBySchedule = 1..Len(leafBySchedule)
    BY <1>1, LenProperties
  <2>2. leafBySchedule' \in [1..Len(leafBySchedule) -> M!Paths \cup {None}]
    BY <1>2, <2>1
  <2>3. QED
    BY <2>1, <2>2, IsASeq
<1>6. QED
  BY <1>2, <1>3, <1>4, <1>5 DEF MctsInv

LEMMA MctsStep == ASSUME MctsConstants, MctsInv, [M!Next]_M!vars PROVE MctsInv'
<1>1. CASE UNCHANGED M!vars
  BY <1>1 DEF M!vars, MctsInv, SoundTree, Earned, Reported, LeavesWait, JobsLead
<1>2. CASE M!Next
  BY <1>2, MctsIssues, MctsLearns, MctsExports, MctsResumes DEF M!Next
<1>3. QED
  BY <1>1, <1>2

-----------------------------------------------------------------------------
(* The history of the Bayesian search                                      *)

BayesConstants ==
  /\ MaxIssues \in Nat /\ MaxResumes \in Nat /\ IsFiniteSet(Workers)
  /\ IsFiniteSet(B!Templates) /\ B!Templates # {}

(* What is counted: sets of schedules issued, workers that execute one.    *)
Busy == {w \in Workers : trial[w] # None}
SetsUpTo(n) == (1..n) \X B!Templates

LEMMA IssuedCount ==
  ASSUME BayesConstants, NEW n \in Nat, DOMAIN scheduleTemplates = SetsUpTo(n)
  PROVE  B!Issued = n
<1> DEFINE c == Cardinality(B!Templates)
<1>1. c \in Nat \ {0}
  <2>1. c \in Nat
    BY FS_CardinalityType DEF BayesConstants
  <2>2. c # 0
    BY FS_EmptySet DEF BayesConstants
  <2>3. QED
    BY <2>1, <2>2
<1>2. IsFiniteSet(1..n) /\ Cardinality(1..n) = n
  BY FS_Interval
<1>3. Cardinality((1..n) \X B!Templates) = n * c
  BY <1>2, FS_Product DEF BayesConstants
<1> HIDE DEF c
<1>4. (n * c) \div c = n
  BY <1>1
<1>5. QED
  BY <1>3, <1>4, CountsAlike DEF B!Issued, SetsUpTo, c

Tallies == [B!Records -> Nat]

(* Ids are numbered by sets; a set under way has ids of its own, whose     *)
(* templates are known.                                                    *)
JobsKnown ==
  \A w \in Workers : trial[w] # None =>
    \E set \in Nat : \A id \in DOMAIN trial[w] :
      /\ id \in {set} \X B!Templates /\ id \in DOMAIN scheduleTemplates
      /\ scheduleTemplates[id] = id[2]

(* No more reports than sets issued and not under way.                     *)
ReportsIssued ==
  /\ \A r \in B!Records : outcomes[r] + Cardinality(Busy) <= B!Issued
  /\ saved # None => \A r \in B!Records : saved.reports[r] <= B!Issued

BayesInv ==
  /\ B!Issued \in 0..MaxIssues /\ DOMAIN scheduleTemplates = SetsUpTo(B!Issued)
  /\ \A id \in DOMAIN scheduleTemplates : scheduleTemplates[id] \in {id[2], None}
  /\ history = outcomes /\ outcomes \in Tallies
  /\ saved # None => saved.history = saved.reports /\ saved.reports \in Tallies
  /\ DOMAIN trial = Workers /\ resumed \in 0..MaxResumes
  /\ JobsKnown /\ ReportsIssued

LEMMA BayesGoal == ASSUME BayesConstants, BayesInv PROVE B!TypeOK /\ B!ReportsCount
<1>1. Cardinality(Busy) \in Nat
  <2>1. IsFiniteSet(Busy)
    BY FS_Subset DEF Busy, BayesConstants
  <2>2. QED
    BY <2>1, FS_CardinalityType
<1>2. ASSUME NEW r \in B!Records PROVE outcomes[r] \in 0..MaxIssues
  <2>1. /\ outcomes[r] \in Nat /\ outcomes[r] + Cardinality(Busy) <= B!Issued
        /\ B!Issued \in 0..MaxIssues /\ MaxIssues \in Nat
    BY DEF BayesInv, Tallies, ReportsIssued, BayesConstants
  <2>2. QED
    BY <1>1, <2>1
<1>3. outcomes \in [B!Records -> 0..MaxIssues]
  BY <1>2 DEF BayesInv, Tallies
<1>4. QED
  BY <1>3 DEF BayesInv, B!TypeOK, B!ReportsCount

LEMMA BayesStarts == ASSUME BayesConstants PROVE B!Init => BayesInv
<1>1. SUFFICES ASSUME B!Init PROVE BayesInv
  OBVIOUS
<1>2. DOMAIN scheduleTemplates = {} /\ SetsUpTo(0) = {}
  BY <1>1 DEF B!Init, SetsUpTo
<1>3. B!Issued = 0
  BY <1>2, IssuedCount
<1>4. Busy = {} /\ Cardinality(Busy) = 0
  <2>1. Busy = {}
    BY <1>1 DEF B!Init, Busy
  <2>2. QED
    BY <2>1, FS_EmptySet
<1>5. /\ history = [r \in B!Records |-> 0] /\ outcomes = history /\ saved = None
      /\ resumed = 0 /\ trial = [w \in Workers |-> None]
  BY <1>1 DEF B!Init
<1>6. /\ outcomes \in Tallies
      /\ \A r \in B!Records : outcomes[r] + Cardinality(Busy) <= B!Issued
  BY <1>3, <1>4, <1>5 DEF Tallies
<1>7. B!Issued \in 0..MaxIssues /\ resumed \in 0..MaxResumes
  BY <1>3, <1>5 DEF BayesConstants
<1>8. QED
  BY <1>2, <1>3, <1>5, <1>6, <1>7 DEF BayesInv, JobsKnown, ReportsIssued

LEMMA BayesIssues ==
  ASSUME BayesConstants, BayesInv, NEW w \in Workers, B!NextSchedules(w) PROVE BayesInv'
<1> DEFINE n == B!Issued
<1>1. /\ n \in 0..MaxIssues /\ MaxIssues \in Nat /\ DOMAIN scheduleTemplates = SetsUpTo(n)
      /\ history = outcomes /\ outcomes \in Tallies /\ JobsKnown /\ ReportsIssued
      /\ saved # None => saved.history = saved.reports /\ saved.reports \in Tallies
      /\ DOMAIN trial = Workers /\ resumed \in 0..MaxResumes
  BY DEF BayesInv, BayesConstants
<1>2. /\ trial[w] = None /\ n < MaxIssues
      /\ scheduleTemplates' = [id \in DOMAIN scheduleTemplates \cup B!Ids(n + 1) |-> id[2]]
      /\ UNCHANGED <<history, saved, resumed, outcomes>>
  BY DEF B!NextSchedules
<1>3. \/ \E delays : DOMAIN delays \subseteq B!Ids(n + 1) /\ trial' = [trial EXCEPT ![w] = delays]
      \/ trial' = trial
  BY DEF B!NextSchedules
<1> HIDE DEF n
<1>4. DOMAIN scheduleTemplates' = SetsUpTo(n + 1) /\ n + 1 \in Nat
  <2>1. 1..(n + 1) = (1..n) \cup {n + 1}
    BY <1>1
  <2>2. SetsUpTo(n + 1) = SetsUpTo(n) \cup B!Ids(n + 1)
    BY <2>1 DEF SetsUpTo, B!Ids
  <2>3. QED
    BY <1>1, <1>2, <2>2
<1>5. B!Issued' = n + 1
  <2>1. Cardinality(SetsUpTo(n + 1)) \div Cardinality(B!Templates) = n + 1
    <3> DEFINE c == Cardinality(B!Templates)
               k == n + 1
    <3>1. c \in Nat \ {0}
      <4>1. c \in Nat
        BY FS_CardinalityType DEF BayesConstants
      <4>2. c # 0
        BY FS_EmptySet DEF BayesConstants
      <4>3. QED
        BY <4>1, <4>2
    <3> HIDE DEF k
    <3>2. k \in Nat /\ IsFiniteSet(1..k) /\ Cardinality(1..k) = k
      <4>1. k \in Nat
        BY <1>4 DEF k
      <4>2. QED
        BY <4>1, FS_Interval
    <3>3. Cardinality((1..k) \X B!Templates) = k * c
      BY <3>2, FS_Product DEF BayesConstants
    <3> HIDE DEF c
    <3>4. (k * c) \div c = k
      BY <3>1, <3>2
    <3>5. QED
      BY <3>3, <3>4 DEF SetsUpTo, c, k
  <2>2. QED
    BY <1>4, <2>1, CountsAlike DEF B!Issued
<1>6. B!Issued' \in 0..MaxIssues
  BY <1>1, <1>2, <1>5
<1>7. \A id \in DOMAIN scheduleTemplates' : scheduleTemplates'[id] = id[2]
  BY <1>2
<1>8. JobsKnown'
  <2>1. SUFFICES ASSUME NEW v \in Workers, trial'[v] # None
                 PROVE  \E set \in Nat : \A id \in DOMAIN trial'[v] :
                          /\ id \in {set} \X B!Templates /\ id \in DOMAIN scheduleTemplates'
                          /\ scheduleTemplates'[id] = id[2]
    BY DEF JobsKnown
  <2>2. CASE trial'[v] = trial[v]
    <3>1. PICK set \in Nat : \A id \in DOMAIN trial[v] :
            id \in {set} \X B!Templates /\ id \in DOMAIN scheduleTemplates
      BY <1>1, <2>1, <2>2 DEF JobsKnown
    <3>2. \A id \in DOMAIN trial'[v] : id \in {set} \X B!Templates /\ id \in DOMAIN scheduleTemplates'
      BY <1>2, <2>2, <3>1
    <3>3. QED
      BY <1>7, <3>2
  <2>3. CASE trial'[v] # trial[v]
    <3>1. v = w /\ DOMAIN trial'[v] \subseteq B!Ids(n + 1)
      BY <1>1, <1>3, <2>3
    <3>2. \A id \in DOMAIN trial'[v] : id \in {n + 1} \X B!Templates /\ id \in DOMAIN scheduleTemplates'
      BY <1>2, <3>1 DEF B!Ids
    <3>3. QED
      BY <1>4, <1>7, <3>2
  <2>4. QED
    BY <2>2, <2>3
<1>9. ReportsIssued'
  <2>1. Busy' \subseteq Busy \cup {w} /\ w \notin Busy /\ IsFiniteSet(Busy)
    <3>1. IsFiniteSet(Busy)
      BY FS_Subset DEF Busy, BayesConstants
    <3>2. QED
      BY <1>1, <1>2, <1>3, <3>1 DEF Busy
  <2> DEFINE b == Cardinality(Busy)
             a == Cardinality(Busy')
  <2>2. b \in Nat /\ a \in Nat /\ a <= b + 1
    <3>1. IsFiniteSet(Busy \cup {w}) /\ Cardinality(Busy \cup {w}) = b + 1
      BY <2>1, FS_AddElement
    <3>2. IsFiniteSet(Busy') /\ a <= Cardinality(Busy \cup {w})
      BY <2>1, <3>1, FS_Subset
    <3>3. QED
      BY <2>1, <3>1, <3>2, FS_CardinalityType
  <2>3. Cardinality(Busy)' = a
    OBVIOUS
  <2>4. ASSUME NEW r \in B!Records PROVE outcomes[r] + a <= n + 1
    <3>1. outcomes[r] \in Nat /\ outcomes[r] + b <= n
      BY <1>1 DEF ReportsIssued, Tallies, n
    <3> HIDE DEF a, b
    <3>2. QED
      BY <1>1, <2>2, <3>1
  <2>5. ASSUME saved # None, NEW r \in B!Records PROVE saved.reports[r] <= n + 1
    <3>1. saved.reports[r] \in Nat /\ saved.reports[r] <= n
      BY <1>1, <2>5 DEF ReportsIssued, Tallies, n
    <3>2. QED
      BY <1>1, <3>1
  <2> HIDE DEF a
  <2>6. QED
    BY <1>2, <1>5, <2>3, <2>4, <2>5 DEF ReportsIssued
<1>10. DOMAIN trial' = Workers
  BY <1>1, <1>3
<1>11. QED
  BY <1>1, <1>2, <1>4, <1>5, <1>6, <1>7, <1>8, <1>9, <1>10 DEF BayesInv

LEMMA BayesLearns ==
  ASSUME BayesConstants, BayesInv, NEW w \in Workers, B!Feedback(w) PROVE BayesInv'
<1>1. PICK passed \in BOOLEAN :
        /\ trial[w] # None /\ history' = B!Recorded(w, passed)
        /\ outcomes' = [r \in B!Records |->
             outcomes[r] + IF r.passed = passed /\ \E id \in DOMAIN trial[w] :
                                id[2] = r.template /\ trial[w][id] = r.delay THEN 1 ELSE 0]
        /\ trial' = [trial EXCEPT ![w] = None]
        /\ UNCHANGED <<scheduleTemplates, saved, resumed>>
  BY DEF B!Feedback
<1>2. /\ B!Issued \in 0..MaxIssues /\ DOMAIN scheduleTemplates = SetsUpTo(B!Issued)
      /\ history = outcomes /\ outcomes \in Tallies /\ JobsKnown /\ ReportsIssued
      /\ DOMAIN trial = Workers
  BY DEF BayesInv
<1>3. PICK set \in Nat : \A id \in DOMAIN trial[w] :
        /\ id \in {set} \X B!Templates /\ id \in DOMAIN scheduleTemplates
        /\ scheduleTemplates[id] = id[2]
  BY <1>1, <1>2 DEF JobsKnown
<1>4. ASSUME NEW r \in B!Records
      PROVE  Cardinality({id \in DOMAIN trial[w] \cap DOMAIN scheduleTemplates :
                            /\ scheduleTemplates[id] = r.template
                            /\ trial[w][id] = r.delay /\ r.passed = passed})
             = IF r.passed = passed /\ \E id \in DOMAIN trial[w] :
                    id[2] = r.template /\ trial[w][id] = r.delay THEN 1 ELSE 0
  <2> DEFINE found == {id \in DOMAIN trial[w] \cap DOMAIN scheduleTemplates :
                         /\ scheduleTemplates[id] = r.template
                         /\ trial[w][id] = r.delay /\ r.passed = passed}
  <2>1. found = {id \in DOMAIN trial[w] : /\ id[2] = r.template
                                        /\ trial[w][id] = r.delay /\ r.passed = passed}
    BY <1>3
  <2>2. CASE r.passed = passed /\ \E id \in DOMAIN trial[w] :
                 id[2] = r.template /\ trial[w][id] = r.delay
    <3>1. PICK id \in DOMAIN trial[w] : id[2] = r.template /\ trial[w][id] = r.delay
      BY <2>2
    <3>2. \A x \in found : x = id
      BY <1>3, <2>1, <3>1
    <3>3. found = {id}
      BY <2>1, <2>2, <3>1, <3>2
    <3>4. Cardinality(found) = 1
      BY <3>3, FS_Singleton
    <3>5. QED
      BY <2>2, <3>4
  <2>3. CASE ~(r.passed = passed /\ \E id \in DOMAIN trial[w] :
                 id[2] = r.template /\ trial[w][id] = r.delay)
    <3>1. found = {}
      BY <2>1, <2>3
    <3>2. Cardinality(found) = 0
      BY <3>1, FS_EmptySet
    <3>3. QED
      BY <2>3, <3>2
  <2>4. QED
    BY <2>2, <2>3
<1>5. history' = outcomes'
  <2>1. outcomes' = [r \in B!Records |-> history[r] +
                      Cardinality({id \in DOMAIN trial[w] \cap DOMAIN scheduleTemplates :
                            /\ scheduleTemplates[id] = r.template
                            /\ trial[w][id] = r.delay /\ r.passed = passed})]
    BY <1>1, <1>2, <1>4
  <2>2. QED
    BY <1>1, <2>1, CountsAlike DEF B!Recorded
<1>6. \A r \in B!Records : /\ outcomes[r] \in Nat /\ outcomes'[r] \in Nat
                         /\ outcomes'[r] <= outcomes[r] + 1
  BY <1>1, <1>2 DEF Tallies
<1>7. outcomes' \in Tallies
  BY <1>1, <1>6 DEF Tallies
<1>8. JobsKnown'
  BY <1>1, <1>2 DEF JobsKnown
<1>9. B!Issued' = B!Issued
  BY <1>1, CountsAlike DEF B!Issued
<1>10. ReportsIssued'
  <2>1. Busy' = Busy \ {w} /\ w \in Busy /\ IsFiniteSet(Busy)
    <3>1. IsFiniteSet(Busy)
      BY FS_Subset DEF Busy, BayesConstants
    <3>2. QED
      BY <1>1, <1>2, <3>1 DEF Busy
  <2>2. Cardinality(Busy') = Cardinality(Busy) - 1 /\ Cardinality(Busy) \in Nat
    BY <2>1, FS_RemoveElement, FS_CardinalityType
  <2>3. \A r \in B!Records : outcomes[r] + Cardinality(Busy) <= B!Issued
    BY <1>2 DEF ReportsIssued
  <2>4. B!Issued \in Int
    BY <1>2
  <2>5. \A r \in B!Records : outcomes'[r] + Cardinality(Busy') <= B!Issued'
    BY <1>6, <1>9, <2>2, <2>3, <2>4
  <2>6. (saved # None)' => \A r \in B!Records : saved'.reports[r] <= B!Issued'
    BY <1>1, <1>2, <1>9 DEF ReportsIssued
  <2>7. QED
    BY <2>5, <2>6 DEF ReportsIssued
<1>11. QED
  BY <1>1, <1>5, <1>7, <1>8, <1>9, <1>10 DEF BayesInv

LEMMA BayesStep == ASSUME BayesConstants, BayesInv, [B!Next]_B!bayesVars PROVE BayesInv'
<1>1. CASE UNCHANGED B!bayesVars
  BY <1>1, CountsAlike DEF B!bayesVars, BayesInv, JobsKnown, ReportsIssued, B!Issued, Busy
<1>2. CASE B!ExportHistory
  <2>1. /\ saved' = [history |-> history, reports |-> outcomes]
        /\ UNCHANGED <<scheduleTemplates, history, trial, resumed, outcomes>>
    BY <1>2 DEF B!ExportHistory
  <2>2. B!Issued' = B!Issued /\ Busy' = Busy
    BY <2>1, CountsAlike DEF B!Issued, Busy
  <2>3. \A r \in B!Records : outcomes[r] <= B!Issued
    <3>1. IsFiniteSet(Busy)
      BY FS_Subset DEF Busy, BayesConstants
    <3>2. Cardinality(Busy) \in Nat
      BY <3>1, FS_CardinalityType
    <3>3. \A r \in B!Records : outcomes[r] \in Nat /\ outcomes[r] + Cardinality(Busy) <= B!Issued
      BY DEF BayesInv, ReportsIssued, Tallies
    <3>4. B!Issued \in Int
      BY DEF BayesInv
    <3>5. QED
      BY <3>2, <3>3, <3>4
  <2>4. ReportsIssued' /\ JobsKnown'
    BY <2>1, <2>2, <2>3 DEF BayesInv, ReportsIssued, JobsKnown
  <2>5. QED
    BY <2>1, <2>2, <2>4 DEF BayesInv
<1>3. CASE B!ResumeHistory
  <2>1. /\ saved # None /\ resumed < MaxResumes /\ resumed' = resumed + 1
        /\ scheduleTemplates' = [id \in DOMAIN scheduleTemplates |-> None]
        /\ history' = saved.history /\ outcomes' = saved.reports
        /\ trial' = [v \in Workers |-> None] /\ saved' = saved
    BY <1>3 DEF B!ResumeHistory
  <2>2. DOMAIN scheduleTemplates' = DOMAIN scheduleTemplates /\ B!Issued' = B!Issued
    BY <2>1, CountsAlike DEF B!Issued
  <2>3. Busy' = {} /\ Cardinality(Busy') = 0
    <3>1. Busy' = {}
      BY <2>1 DEF Busy
    <3>2. QED
      BY <3>1, FS_EmptySet
  <2>4. /\ saved.history = saved.reports /\ saved.reports \in Tallies
        /\ \A r \in B!Records : saved.reports[r] <= B!Issued
    BY <2>1 DEF BayesInv, ReportsIssued
  <2>5. \A r \in B!Records : outcomes'[r] + Cardinality(Busy') <= B!Issued'
    BY <2>1, <2>2, <2>3, <2>4 DEF Tallies
  <2>6. ReportsIssued' /\ JobsKnown'
    BY <2>1, <2>2, <2>4, <2>5 DEF ReportsIssued, JobsKnown
  <2>7. resumed' \in 0..MaxResumes
    BY <2>1 DEF BayesInv, BayesConstants
  <2>8. QED
    BY <2>1, <2>2, <2>4, <2>6, <2>7 DEF BayesInv
<1>4. QED
  BY <1>1, <1>2, <1>3, BayesIssues, BayesLearns DEF B!Next

-----------------------------------------------------------------------------
(* Messages                                                                *)

MessageInv == G!TypeOK /\ G!OnlyLossLoses

LEMMA MessageInit == ASSUME MaxStrikes \in Nat PROVE G!Init => MessageInv
BY DEF G!Init, MessageInv, G!TypeOK, G!OnlyLossLoses, G!Places

LEMMA MessageTypes ==
  ASSUME MaxStrikes \in Nat PROVE G!TypeOK /\ [G!Next]_G!messageVars => G!TypeOK'
<1>1. SUFFICES ASSUME G!TypeOK, [G!Next]_G!messageVars PROVE G!TypeOK'
  OBVIOUS
<1>2. CASE UNCHANGED G!messageVars
  BY <1>1, <1>2 DEF G!TypeOK, G!messageVars
<1>3. ASSUME G!Strike PROVE strikes' \in 0..MaxStrikes
  BY <1>1, <1>3 DEF G!TypeOK, G!Strike
<1>4. ASSUME NEW m \in Messages, G!Redeliver(m)
      PROVE  /\ place' \in [Messages -> G!Places]
             /\ running' \in [Messages -> 0..2] /\ ghosts' \subseteq Messages
  BY <1>1, <1>4 DEF G!TypeOK, G!Redeliver, G!Places
<1>5. ASSUME NEW m \in Messages, G!Send(m) PROVE G!TypeOK'
  BY <1>1, <1>3, <1>5 DEF G!TypeOK, G!Send, G!Places
<1>6. ASSUME NEW m \in Messages, G!DelayOver(m) PROVE G!TypeOK'
  BY <1>1, <1>6 DEF G!TypeOK, G!DelayOver, G!Places
<1>7. ASSUME NEW m \in Messages, G!Deliver(m) PROVE G!TypeOK'
  BY <1>1, <1>3, <1>7 DEF G!TypeOK, G!Deliver, G!Places
<1>8. ASSUME NEW m \in Messages, G!HandlerEnds(m) PROVE G!TypeOK'
  <2>1. running' \in [Messages -> 0..2]
    <3>1. running[m] \in 0..2 /\ running[m] > 0
      BY <1>1, <1>8 DEF G!TypeOK, G!HandlerEnds
    <3>2. running[m] - 1 \in 0..2
      BY <3>1
    <3>3. QED
      BY <1>1, <1>8, <3>2 DEF G!TypeOK, G!HandlerEnds
  <2>2. QED
    BY <1>1, <1>8, <2>1 DEF G!TypeOK, G!HandlerEnds, G!Places
<1>9. ASSUME NEW m \in Messages, G!GhostEnds(m) PROVE G!TypeOK'
  BY <1>1, <1>9 DEF G!TypeOK, G!GhostEnds
<1>10. ASSUME NEW m \in Messages, G!HandlerThrows(m) PROVE G!TypeOK'
  BY <1>1, <1>3, <1>10 DEF G!TypeOK, G!HandlerThrows, G!Places
<1>11. ASSUME NEW m \in Messages, G!CrashWins(m) PROVE G!TypeOK'
  BY <1>1, <1>3, <1>4, <1>11 DEF G!TypeOK, G!CrashWins
<1>12. ASSUME NEW m \in Messages, G!Delete(m) PROVE G!TypeOK'
  BY <1>1, <1>3, <1>12 DEF G!TypeOK, G!Delete, G!Places
<1>13. ASSUME NEW m \in Messages, G!VisibleAgain(m) PROVE G!TypeOK'
  BY <1>1, <1>4, <1>13 DEF G!TypeOK, G!VisibleAgain
<1>14. QED
  BY <1>1, <1>2, <1>5, <1>6, <1>7, <1>8, <1>9, <1>10, <1>11, <1>12, <1>13 DEF G!Next

LEMMA MessageStep ==
  ASSUME MaxStrikes \in Nat PROVE MessageInv /\ [G!Next]_G!messageVars => MessageInv'
<1>1. SUFFICES ASSUME MessageInv, [G!Next]_G!messageVars, NEW n \in Messages
      PROVE  /\ n \in told' \ dropped' => place'[n] \in {"queued", "delivered", "handled", "gone"}
             /\ place'[n] \in {"handled", "gone"} => n \in handled'
  BY MessageTypes DEF MessageInv, G!OnlyLossLoses
<1>2. /\ n \in told \ dropped => place[n] \in {"queued", "delivered", "handled", "gone"}
      /\ place[n] \in {"handled", "gone"} => n \in handled
      /\ place \in [Messages -> G!Places]
  BY <1>1 DEF MessageInv, G!OnlyLossLoses, G!TypeOK
<1>3. CASE UNCHANGED G!messageVars
  BY <1>2, <1>3 DEF G!messageVars
<1>4. ASSUME NEW m \in Messages, G!Send(m) \/ G!DelayOver(m)
      PROVE  /\ n \in told' \ dropped' => place'[n] \in {"queued", "delivered", "handled", "gone"}
             /\ place'[n] \in {"handled", "gone"} => n \in handled'
  BY <1>2, <1>4 DEF G!Send, G!DelayOver
<1>5. ASSUME NEW m \in Messages, G!Deliver(m) \/ G!GhostEnds(m) \/ G!HandlerThrows(m)
      PROVE  /\ n \in told' \ dropped' => place'[n] \in {"queued", "delivered", "handled", "gone"}
             /\ place'[n] \in {"handled", "gone"} => n \in handled'
  BY <1>2, <1>5 DEF G!Deliver, G!GhostEnds, G!HandlerThrows
<1>6. ASSUME NEW m \in Messages, G!HandlerEnds(m)
      PROVE  /\ n \in told' \ dropped' => place'[n] \in {"queued", "delivered", "handled", "gone"}
             /\ place'[n] \in {"handled", "gone"} => n \in handled'
  BY <1>2, <1>6 DEF G!HandlerEnds
<1>7. ASSUME NEW m \in Messages, G!CrashWins(m) \/ G!VisibleAgain(m) \/ G!Delete(m)
      PROVE  /\ n \in told' \ dropped' => place'[n] \in {"queued", "delivered", "handled", "gone"}
             /\ place'[n] \in {"handled", "gone"} => n \in handled'
  BY <1>2, <1>7 DEF G!CrashWins, G!VisibleAgain, G!Delete, G!Redeliver
<1>8. QED
  BY <1>1, <1>3, <1>4, <1>5, <1>6, <1>7 DEF G!Next

-----------------------------------------------------------------------------
(* Queries                                                                 *)

(* Every statement of a transaction was sent, and is either counted or     *)
(* held back.                                                              *)
QueriesCounted ==
  /\ tracker \in [open : BOOLEAN, ran : 0..sent] /\ database \in [open : BOOLEAN, ran : Nat]
  /\ IsFiniteSet(delayed) /\ database.ran + Cardinality(delayed) <= sent
  /\ ~database.open => database = Q!Closed

(* Without another fault the tracker is a statement ahead, if that is held *)
(* back, or right.                                                         *)
TrackerIsAhead ==
  ~pooled /\ ~uncertain =>
    \/ delayed = {} /\ tracker = database
    \/ \E x \in delayed : delayed = {x} /\ tracker = Q!Ran(database, x[2])

QueryInv == Q!TypeOK /\ QueriesCounted /\ TrackerIsAhead /\ Q!PartialIsHalf

LEMMA QueryInit == ASSUME MaxStatements \in Nat PROVE Q!Init => QueryInv
<1>1. SUFFICES ASSUME Q!Init PROVE QueryInv
  OBVIOUS
<1>2. IsFiniteSet({}) /\ Cardinality({}) = 0
  BY FS_EmptySet
<1>3. Q!TypeOK
  <2>1. Q!Closed.open \in BOOLEAN /\ Q!Closed.ran \in 0..MaxStatements /\ 0 \in 0..MaxStatements
    BY DEF Q!Closed
  <2>2. QED
    BY <1>1, <2>1 DEF Q!Init, Q!TypeOK
<1>4. QueriesCounted
  BY <1>1, <1>2 DEF Q!Init, QueriesCounted, Q!Closed
<1>5. TrackerIsAhead /\ Q!PartialIsHalf
  BY <1>1 DEF Q!Init, TrackerIsAhead, Q!PartialIsHalf
<1>6. QED
  BY <1>3, <1>4, <1>5 DEF QueryInv

(* What the database has after a statement.                                *)
LEMMA RanCounts ==
  ASSUME NEW db \in [open : BOOLEAN, ran : Nat], NEW statement \in Q!Kinds, ~db.open => db = Q!Closed
  PROVE  /\ Q!Ran(db, statement) \in [open : BOOLEAN, ran : Nat]
         /\ Q!Ran(db, statement).ran <= db.ran + 1
         /\ ~Q!Ran(db, statement).open => Q!Ran(db, statement) = Q!Closed
         /\ Q!Tracked(db, statement) = Q!Ran(db, statement)
<1> DEFINE begun == [open |-> TRUE, ran |-> 0]
<1>0. /\ db.ran \in Nat /\ 0 <= db.ran + 1 /\ db.ran <= db.ran + 1
      /\ begun \in [open : BOOLEAN, ran : Nat] /\ begun.open /\ begun.ran = 0
      /\ Q!Closed \in [open : BOOLEAN, ran : Nat] /\ Q!Closed.ran = 0
  BY DEF Q!Closed
<1>1. CASE statement = "begin"
  <2>1. Q!Ran(db, statement) = begun /\ Q!Tracked(db, statement) = begun
    BY <1>1 DEF Q!Ran, Q!Tracked
  <2>2. QED
    BY <1>0, <2>1
<1>2. CASE statement # "begin" /\ (statement = "end" \/ ~db.open)
  <2>1. Q!Ran(db, statement) = Q!Closed /\ Q!Tracked(db, statement) = Q!Closed
    BY <1>2 DEF Q!Ran, Q!Tracked
  <2>2. QED
    BY <1>0, <2>1
<1>3. CASE statement \notin {"begin", "end"} /\ db.open
  <2>1. Q!Ran(db, statement) = [db EXCEPT !.ran = @ + 1] /\ Q!Tracked(db, statement) = [db EXCEPT !.ran = @ + 1]
    BY <1>3 DEF Q!Ran, Q!Tracked
  <2>2. db.ran + 1 \in Nat
    OBVIOUS
  <2>3. [db EXCEPT !.ran = @ + 1] \in [open : BOOLEAN, ran : Nat]
    BY <2>2
  <2>4. [db EXCEPT !.ran = @ + 1].ran = db.ran + 1 /\ [db EXCEPT !.ran = @ + 1].open = db.open
    OBVIOUS
  <2>5. QED
    BY <1>3, <2>1, <2>3, <2>4
<1>4. QED
  BY <1>1, <1>2, <1>3

LEMMA QueryKeeps ==
  ASSUME MaxStatements \in Nat, QueryInv, NEW statement \in Q!Kinds, Q!Query(statement)
  PROVE  QueryInv'
<1> DEFINE state == IF pooled THEN Q!Closed ELSE Q!Reported(tracker, statement)
<1>1. /\ sent < MaxStatements /\ sent \in 0..MaxStatements /\ sent' = sent + 1
      /\ sent' \in 0..MaxStatements
      /\ pooled' = pooled /\ intercepting' = intercepting
      /\ Q!Track(statement)
  BY DEF QueryInv, Q!TypeOK, Q!Query
<1>2. /\ tracker \in [open : BOOLEAN, ran : 0..sent] /\ database \in [open : BOOLEAN, ran : Nat]
      /\ IsFiniteSet(delayed) /\ Cardinality(delayed) \in Nat
      /\ database.ran + Cardinality(delayed) <= sent
      /\ ~database.open => database = Q!Closed
  BY FS_CardinalityType DEF QueryInv, QueriesCounted
<1>3. tracker' \in [open : BOOLEAN, ran : 0..sent']
  <2>1. tracker.ran + 1 \in 0..(sent + 1) /\ tracker.ran \in 0..(sent + 1) /\ 0 \in 0..(sent + 1)
    BY <1>1, <1>2
  <2>2. Q!Tracked(tracker, statement) \in [open : BOOLEAN, ran : 0..(sent + 1)]
    BY <1>2, <2>1 DEF Q!Tracked, Q!Closed
  <2>3. QED
    BY <1>1, <1>2, <2>1, <2>2 DEF Q!Track
<1>4. PICK fault \in {Q!NoFault} \cup (IF intercepting THEN Q!Faults ELSE {}) :
        IF fault = Q!NoFault \/ ~Q!Strikes(fault, state) THEN Q!PassThrough(statement)
        ELSE IF fault = "SLOW_QUERY" THEN Q!HoldBack(statement) ELSE Q!Fail(fault)
  BY DEF Q!Query
<1> HIDE DEF state
<1>5. /\ Q!Ran(database, statement) \in [open : BOOLEAN, ran : Nat]
      /\ Q!Ran(database, statement).ran <= database.ran + 1
      /\ ~Q!Ran(database, statement).open => Q!Ran(database, statement) = Q!Closed
      /\ Q!Tracked(database, statement) = Q!Ran(database, statement)
  BY <1>2, RanCounts
<1>6. Q!TypeOK /\ TrackerIsAhead /\ Q!PartialIsHalf
  BY DEF QueryInv
<1>7. CASE Q!PassThrough(statement)
  <2>1. /\ database' = Q!Ran(database, statement) /\ delayed' = delayed /\ broken' = broken
        /\ uncertain' = IF statement = "end" THEN delayed # {} ELSE uncertain \/ delayed # {}
    BY <1>7 DEF Q!PassThrough
  <2>2. QueriesCounted'
    BY <1>1, <1>2, <1>3, <1>5, <2>1 DEF QueriesCounted
  <2>3. database'.ran \in 0..MaxStatements /\ database'.open \in BOOLEAN
    BY <1>1, <1>2, <1>5, <2>1
  <2>4. tracker'.ran \in 0..MaxStatements /\ tracker'.open \in BOOLEAN
    BY <1>1, <1>3
  <2>5. uncertain' \in BOOLEAN
    BY <1>6, <2>1 DEF Q!TypeOK
  <2>6. Q!TypeOK'
    BY <1>1, <1>6, <2>1, <2>3, <2>4, <2>5 DEF Q!TypeOK
  <2>7. ASSUME ~pooled, ~uncertain' PROVE delayed = {} /\ tracker' = database'
    <3>1. delayed = {}
      BY <2>1, <2>7
    <3>2. tracker' = Q!Tracked(tracker, statement)
      BY <1>1, <2>7 DEF Q!Track
    <3>3. CASE statement = "end"
      BY <2>1, <3>1, <3>2, <3>3 DEF Q!Tracked, Q!Ran
    <3>4. CASE statement # "end"
      BY <1>5, <1>6, <2>1, <2>7, <3>1, <3>2, <3>4 DEF TrackerIsAhead
    <3>5. QED
      BY <3>1, <3>3, <3>4
  <2>8. TrackerIsAhead' /\ Q!PartialIsHalf'
    BY <1>1, <1>6, <2>1, <2>7 DEF TrackerIsAhead, Q!PartialIsHalf
  <2>9. QED
    BY <2>2, <2>6, <2>8 DEF QueryInv
<1>8. CASE Q!HoldBack(statement)
  <2>1. /\ database' = database /\ delayed' = delayed \cup {<<sent, statement>>} /\ broken' = broken
        /\ uncertain' = (uncertain \/ delayed # {})
    BY <1>8 DEF Q!HoldBack
  <2>2. IsFiniteSet(delayed') /\ Cardinality(delayed') <= Cardinality(delayed) + 1
        /\ Cardinality(delayed') \in Nat
    <3>1. IsFiniteSet(delayed \cup {<<sent, statement>>})
          /\ Cardinality(delayed \cup {<<sent, statement>>}) =
               IF <<sent, statement>> \in delayed THEN Cardinality(delayed) ELSE Cardinality(delayed) + 1
      BY <1>2, FS_AddElement
    <3>2. QED
      BY <1>2, <2>1, <3>1
  <2>3. QueriesCounted'
    BY <1>1, <1>2, <1>3, <2>1, <2>2 DEF QueriesCounted
  <2>4. tracker'.ran \in 0..MaxStatements /\ tracker'.open \in BOOLEAN
    BY <1>1, <1>3
  <2>5. uncertain' \in BOOLEAN
    BY <1>6, <2>1 DEF Q!TypeOK
  <2>6. delayed' \subseteq (0..MaxStatements) \X Q!Kinds
    BY <1>1, <1>6, <2>1 DEF Q!TypeOK
  <2>7. Q!TypeOK'
    BY <1>1, <1>6, <2>1, <2>4, <2>5, <2>6 DEF Q!TypeOK
  <2>8. ASSUME ~pooled, ~uncertain'
        PROVE  delayed' = {<<sent, statement>>} /\ tracker' = Q!Ran(database, statement)
    <3>1. delayed = {} /\ ~uncertain
      BY <2>1, <2>8
    <3>2. tracker' = Q!Tracked(tracker, statement)
      BY <1>1, <2>8 DEF Q!Track
    <3>3. QED
      BY <1>5, <1>6, <2>1, <2>8, <3>1, <3>2 DEF TrackerIsAhead
  <2>9. TrackerIsAhead'
    <3>1. <<sent, statement>>[2] = statement
      OBVIOUS
    <3>2. SUFFICES ASSUME ~pooled', ~uncertain'
                   PROVE  \E x \in delayed' : delayed' = {x} /\ tracker' = Q!Ran(database', x[2])
      BY DEF TrackerIsAhead
    <3>3. delayed' = {<<sent, statement>>} /\ tracker' = Q!Ran(database', <<sent, statement>>[2])
      BY <1>1, <2>1, <2>8, <3>1, <3>2
    <3>4. <<sent, statement>> \in delayed'
      BY <3>3
    <3>5. QED
      BY <3>3, <3>4
  <2>10. Q!PartialIsHalf'
    BY <1>1, <1>6, <2>1 DEF Q!PartialIsHalf
  <2>11. QED
    BY <2>3, <2>7, <2>9, <2>10 DEF QueryInv
<1>9. CASE Q!Strikes(fault, state) /\ fault # Q!NoFault /\ Q!Fail(fault)
  <2>1. /\ database' = database /\ delayed' = delayed /\ uncertain' = TRUE
        /\ broken' = IF fault = "PARTIAL_COMMIT"
                       THEN broken \cup {[at |-> database, sure |-> ~uncertain /\ delayed = {}]}
                       ELSE broken
    BY <1>9 DEF Q!Fail
  <2>2. QueriesCounted'
    BY <1>1, <1>2, <1>3, <2>1 DEF QueriesCounted
  <2>3. tracker'.ran \in 0..MaxStatements /\ tracker'.open \in BOOLEAN
    BY <1>1, <1>3
  <2>4. database \in [open : BOOLEAN, ran : 0..MaxStatements]
    BY <1>1, <1>2
  <2>5. (~uncertain /\ delayed = {}) \in BOOLEAN
    OBVIOUS
  <2>6. broken' \subseteq [at : [open : BOOLEAN, ran : 0..MaxStatements], sure : BOOLEAN]
    <3> DEFINE sure == ~uncertain /\ delayed = {}
    <3>1. broken \subseteq [at : [open : BOOLEAN, ran : 0..MaxStatements], sure : BOOLEAN]
      BY <1>6 DEF Q!TypeOK
    <3>2. sure \in BOOLEAN
      BY <2>5
    <3>3. broken' \subseteq broken \cup {[at |-> database, sure |-> sure]}
      BY <2>1
    <3> HIDE DEF sure
    <3>4. [at |-> database, sure |-> sure] \in
            [at : [open : BOOLEAN, ran : 0..MaxStatements], sure : BOOLEAN]
      BY <2>4, <3>2
    <3>5. QED
      BY <3>1, <3>3, <3>4
  <2>7. Q!TypeOK'
    BY <1>1, <1>6, <2>1, <2>3, <2>6 DEF Q!TypeOK
  <2>8. ASSUME fault = "PARTIAL_COMMIT"
        PROVE  ~pooled /\ (~uncertain /\ delayed = {} => database = [open |-> TRUE, ran |-> 1])
    <3>1. state.open /\ state.ran = 1
      BY <1>9, <2>8 DEF Q!Strikes
    <3>2. ~pooled /\ state = tracker
      BY <3>1 DEF state, Q!Reported, Q!Closed
    <3>3. tracker = [open |-> TRUE, ran |-> 1]
      BY <1>2, <3>1, <3>2
    <3>4. QED
      BY <1>6, <3>2, <3>3 DEF TrackerIsAhead
  <2>9. Q!PartialIsHalf'
    <3>1. \A b \in broken' : b.sure => b.at = [open |-> TRUE, ran |-> 1]
      <4>1. SUFFICES ASSUME NEW b \in broken', b.sure PROVE b.at = [open |-> TRUE, ran |-> 1]
        OBVIOUS
      <4>2. CASE b \in broken
        BY <1>6, <4>1, <4>2 DEF Q!PartialIsHalf
      <4>3. CASE b \notin broken
        <5>1. fault = "PARTIAL_COMMIT" /\ b = [at |-> database, sure |-> ~uncertain /\ delayed = {}]
          BY <2>1, <4>1, <4>3
        <5>2. b.at = database /\ (b.sure <=> ~uncertain /\ delayed = {})
          BY <5>1
        <5>3. QED
          BY <2>8, <4>1, <5>1, <5>2
      <4>4. QED
        BY <4>2, <4>3
    <3>2. pooled => broken' = {}
      BY <1>6, <2>1, <2>8 DEF Q!PartialIsHalf
    <3>3. QED
      BY <1>1, <2>1, <3>1, <3>2 DEF Q!PartialIsHalf
  <2>10. TrackerIsAhead'
    BY <2>1 DEF TrackerIsAhead
  <2>11. QED
    BY <2>2, <2>7, <2>9, <2>10 DEF QueryInv
<1>10. QED
  BY <1>4, <1>7, <1>8, <1>9

LEMMA QueryStep ==
  ASSUME MaxStatements \in Nat PROVE QueryInv /\ [Q!Next]_Q!queryVars => QueryInv'
<1>1. SUFFICES ASSUME QueryInv, [Q!Next]_Q!queryVars PROVE QueryInv'
  OBVIOUS
<1>2. Q!TypeOK /\ QueriesCounted /\ TrackerIsAhead /\ Q!PartialIsHalf
  BY <1>1 DEF QueryInv
<1>3. CASE UNCHANGED Q!queryVars
  BY <1>2, <1>3 DEF QueryInv, Q!TypeOK, QueriesCounted, TrackerIsAhead, Q!PartialIsHalf, Q!queryVars
<1>4. CASE Q!Toggle
  BY <1>2, <1>4 DEF QueryInv, Q!TypeOK, QueriesCounted, TrackerIsAhead, Q!PartialIsHalf, Q!Toggle
<1>5. CASE Q!DelayOver
  <2>1. PICK delays \in delayed : delayed' = delayed \ {delays} /\ database' = Q!Ran(database, delays[2])
    BY <1>5 DEF Q!DelayOver
  <2>2. UNCHANGED <<pooled, intercepting, tracker, sent, uncertain, broken>>
    BY <1>5 DEF Q!DelayOver
  <2>3. /\ delays[2] \in Q!Kinds /\ sent \in Nat /\ sent <= MaxStatements
        /\ database \in [open : BOOLEAN, ran : Nat]
        /\ IsFiniteSet(delayed) /\ Cardinality(delayed) \in Nat
        /\ database.ran + Cardinality(delayed) <= sent
    BY <1>2, FS_CardinalityType DEF Q!TypeOK, QueriesCounted
  <2>4. /\ database' \in [open : BOOLEAN, ran : Nat] /\ database'.ran <= database.ran + 1
        /\ ~database'.open => database' = Q!Closed
    BY <1>2, <2>1, <2>3, RanCounts DEF QueriesCounted
  <2>5. IsFiniteSet(delayed') /\ Cardinality(delayed') = Cardinality(delayed) - 1
    BY <2>1, <2>3, FS_RemoveElement
  <2>6. QueriesCounted'
    BY <1>2, <2>2, <2>3, <2>4, <2>5 DEF QueriesCounted
  <2>7. Cardinality(delayed') \in Nat
    BY <2>5, FS_CardinalityType
  <2>8. database'.ran \in 0..MaxStatements /\ database'.open \in BOOLEAN
    BY <2>3, <2>4, <2>5, <2>7
  <2>9. Q!TypeOK'
    BY <1>2, <2>1, <2>2, <2>8 DEF Q!TypeOK
  <2>10. ASSUME ~pooled, ~uncertain PROVE delayed' = {} /\ tracker = database'
    BY <1>2, <2>1, <2>10 DEF TrackerIsAhead
  <2>11. TrackerIsAhead' /\ Q!PartialIsHalf'
    BY <1>2, <2>2, <2>10 DEF TrackerIsAhead, Q!PartialIsHalf
  <2>12. QED
    BY <2>6, <2>9, <2>11 DEF QueryInv
<1>6. ASSUME NEW statement \in Q!Kinds, Q!Query(statement) PROVE QueryInv'
  BY <1>1, <1>6, QueryKeeps
<1>7. QED
  BY <1>1, <1>3, <1>4, <1>5, <1>6 DEF Q!Next

-----------------------------------------------------------------------------
(* Calls and their faults                                                  *)

KnownKinds ==
  {"http", "grpc", "fs promise", "fs callback", "fs sync", "fs stream", "spawn"}
KnownFaults ==
  {"error", "late error", "delay", "torn", "answer", "ignored", "kill"}

RoutingConstants ==
  Network \subseteq KnownKinds /\ None \notin KnownFaults /\ MaxCalls \in Nat

(* How many of the first n elements are in a set.                          *)
Where(s, some, n) == {i \in 1..n : s[i] \in some}
Count(s, some, n) == Cardinality(Where(s, some, n))

LEMMA WhereFinite ==
  ASSUME NEW s, NEW some, NEW n \in Nat
  PROVE  IsFiniteSet(Where(s, some, n)) /\ Count(s, some, n) \in 0..n
<1>1. IsFiniteSet(1..n) /\ Cardinality(1..n) = n
  BY UptoMany
<1>2. Where(s, some, n) \subseteq 1..n
  BY DEF Where
<1>3. IsFiniteSet(Where(s, some, n)) /\ Cardinality(Where(s, some, n)) <= n
  BY <1>1, <1>2, FS_Subset
<1>4. QED
  BY <1>3, FS_CardinalityType DEF Count

LEMMA CountRises ==
  ASSUME NEW s, NEW some, NEW i \in Nat, NEW j \in Nat, i < j, s[j] \in some
  PROVE  Count(s, some, i) < Count(s, some, j)
<1> DEFINE a == Where(s, some, i)
           b == Where(s, some, j)
<1>1. IsFiniteSet(a) /\ IsFiniteSet(b) /\ Cardinality(a) \in Nat /\ Cardinality(b) \in Nat
  BY WhereFinite, FS_CardinalityType
<1>2. a \subseteq b /\ j \in b /\ j \notin a
  BY DEF Where
<1> HIDE DEF a, b
<1>3. Cardinality(a) <= Cardinality(b) /\ Cardinality(a) # Cardinality(b)
  BY <1>1, <1>2, FS_Subset
<1>4. QED
  BY <1>1, <1>3 DEF a, b, Count

LEMMA CountAppend ==
  ASSUME NEW typ, NEW s \in Seq(typ), NEW x \in typ, NEW some
  PROVE  /\ \A n \in 0..Len(s) : Count(Append(s, x), some, n) = Count(s, some, n)
         /\ Count(Append(s, x), some, Len(s) + 1) =
              Count(s, some, Len(s)) + IF x \in some THEN 1 ELSE 0
<1> DEFINE t == Append(s, x)
           n == Len(s)
<1>1. n \in Nat /\ t[n + 1] = x /\ \A i \in 1..n : t[i] = s[i]
  BY AppendProperties, LenProperties
<1> HIDE DEF t, n
<1>2. ASSUME NEW m \in 0..n PROVE Where(t, some, m) = Where(s, some, m)
  <2>1. \A i \in 1..m : i \in 1..n
    BY <1>1
  <2>2. QED
    BY <1>1, <2>1 DEF Where
<1>3. Where(t, some, n + 1) = IF x \in some THEN Where(s, some, n) \cup {n + 1} ELSE Where(s, some, n)
  <2>1. 1..(n + 1) = 1..n \cup {n + 1} /\ n + 1 \notin 1..n
    BY <1>1
  <2>2. QED
    BY <1>1, <2>1 DEF Where
<1>4. n + 1 \notin Where(s, some, n) /\ IsFiniteSet(Where(s, some, n))
  <2>1. n \in Nat
    BY <1>1
  <2>2. \A k \in Nat : k + 1 \notin 1..k
    OBVIOUS
  <2>3. n + 1 \notin 1..n
    BY <2>1, <2>2
  <2>4. IsFiniteSet(Where(s, some, n))
    BY <2>1, WhereFinite
  <2>5. QED
    BY <2>3, <2>4 DEF Where
<1>5. /\ Cardinality(Where(s, some, n) \cup {n + 1}) = Cardinality(Where(s, some, n)) + 1
      /\ Cardinality(Where(s, some, n)) \in Nat
  BY <1>4, FS_AddElement, FS_CardinalityType
<1>6. Count(t, some, n + 1) = Count(s, some, n) + IF x \in some THEN 1 ELSE 0
  BY <1>3, <1>5 DEF Count
<1>7. \A m \in 0..n : Count(t, some, m) = Count(s, some, m)
  BY <1>2 DEF Count
<1>8. QED
  BY <1>6, <1>7 DEF t, n

-----------------------------------------------------------------------------
OfDomain(domain) == {d \in F!Decision : d.domain = domain}
Injected == {d \in F!Decision : d.fault # None}

RollAt(s, i) == <<s[i].domain, Count(s, OfDomain(s[i].domain), i)>>

(* What was decided is what the seed rolls.                                *)
AsRolled(s, seed) ==
  \A i \in DOMAIN s : RollAt(s, i) \in DOMAIN seed /\ seed[RollAt(s, i)] = s[i].fault

(* What is recorded are the faults, in order.                              *)
AsInjected(s, recorded) ==
  /\ Len(recorded) = Count(s, Injected, Len(s))
  /\ \A k \in DOMAIN recorded : \E i \in DOMAIN s :
       s[i] \in Injected /\ Count(s, Injected, i) = k /\ recorded[k] = s[i]

LEMMA InjectedOnce ==
  ASSUME NEW s \in Seq(F!Decision), NEW a \in Seq(F!Decision), NEW b \in Seq(F!Decision),
         AsInjected(s, a), AsInjected(s, b)
  PROVE  a = b
<1>1. /\ Len(a) = Len(b) /\ DOMAIN a = 1..Len(a) /\ DOMAIN b = 1..Len(b)
      /\ DOMAIN s = 1..Len(s) /\ Len(s) \in Nat
  BY LenProperties DEF AsInjected
<1>2. ASSUME NEW k \in 1..Len(a) PROVE a[k] = b[k]
  <2>1. PICK i \in DOMAIN s : s[i] \in Injected /\ Count(s, Injected, i) = k /\ a[k] = s[i]
    BY <1>1 DEF AsInjected
  <2>2. PICK j \in DOMAIN s : s[j] \in Injected /\ Count(s, Injected, j) = k /\ b[k] = s[j]
    BY <1>1 DEF AsInjected
  <2>3. i \in Nat /\ j \in Nat
    BY <1>1
  <2>4. Count(s, Injected, i) \in Nat /\ Count(s, Injected, j) \in Nat
    BY <2>3, WhereFinite
  <2>5. ~(i < j)
    BY <2>1, <2>2, <2>3, <2>4, CountRises
  <2>6. ~(j < i)
    BY <2>1, <2>2, <2>3, <2>4, CountRises
  <2>7. i = j
    BY <2>3, <2>5, <2>6
  <2>8. QED
    BY <2>1, <2>2, <2>7
<1>3. QED
  BY <1>1, <1>2, SeqEqual

LEMMA InjectedAppend ==
  ASSUME NEW s \in Seq(F!Decision), NEW e \in Seq(F!Decision), NEW x \in F!Decision, AsInjected(s, e)
  PROVE  AsInjected(Append(s, x), IF x.fault = None THEN e ELSE Append(e, x))
<1> DEFINE t == Append(s, x)
           f == IF x.fault = None THEN e ELSE Append(e, x)
           n == Len(s)
           m == Len(e)
<1>1. /\ n \in Nat /\ DOMAIN s = 1..n /\ m \in Nat /\ DOMAIN e = 1..m
      /\ Len(t) = n + 1 /\ DOMAIN t = 1..(n + 1) /\ t[n + 1] = x /\ \A i \in 1..n : t[i] = s[i]
  BY AppendProperties, LenProperties
<1>2. /\ \A i \in 0..n : Count(t, Injected, i) = Count(s, Injected, i)
      /\ Count(t, Injected, n + 1) = Count(s, Injected, n) + IF x \in Injected THEN 1 ELSE 0
  BY CountAppend
<1>3. x \in Injected <=> x.fault # None
  BY DEF Injected
<1>4. m = Count(s, Injected, n) /\ \A k \in 1..m : \E i \in 1..n :
        s[i] \in Injected /\ Count(s, Injected, i) = k /\ e[k] = s[i]
  BY <1>1 DEF AsInjected
<1>5. \A i \in 1..n : i \in 0..n /\ i \in 1..(n + 1)
  BY <1>1
<1>6. CASE x.fault = None
  <2>1. f = e
    BY <1>6
  <2>2. Count(t, Injected, n + 1) = m
    BY <1>1, <1>2, <1>3, <1>4, <1>6
  <2> HIDE DEF t, f, n, m
  <2>3. \A k \in 1..m : \E i \in 1..(n + 1) :
          t[i] \in Injected /\ Count(t, Injected, i) = k /\ e[k] = t[i]
    BY <1>1, <1>2, <1>4, <1>5
  <2>4. AsInjected(t, e)
    BY <1>1, <2>2, <2>3 DEF AsInjected, m
  <2>5. QED
    BY <2>1, <2>4 DEF t, f
<1>7. CASE x.fault # None
  <2>1. f = Append(e, x)
    BY <1>7
  <2>2. /\ f \in Seq(F!Decision) /\ Len(f) = m + 1 /\ DOMAIN f = 1..(m + 1) /\ f[m + 1] = x
        /\ \A k \in 1..m : f[k] = e[k]
    <3>1. /\ Append(e, x) \in Seq(F!Decision) /\ Len(Append(e, x)) = m + 1
          /\ \A k \in 1..m : Append(e, x)[k] = e[k]
          /\ Append(e, x)[m + 1] = x
      BY <1>1, AppendProperties
    <3>2. DOMAIN Append(e, x) = 1..Len(Append(e, x))
      BY <3>1, LenProperties
    <3>3. QED
      BY <2>1, <3>1, <3>2
  <2>3. Count(t, Injected, n + 1) = m + 1
    BY <1>1, <1>2, <1>3, <1>4, <1>7
  <2> HIDE DEF t, f, n, m
  <2>4. ASSUME NEW k \in 1..(m + 1)
        PROVE  \E i \in 1..(n + 1) :
                 t[i] \in Injected /\ Count(t, Injected, i) = k /\ f[k] = t[i]
    <3>1. CASE k = m + 1
      <4>1. n + 1 \in 1..(n + 1) /\ t[n + 1] \in Injected /\ f[k] = t[n + 1]
        BY <1>1, <1>3, <1>7, <2>2, <3>1
      <4>2. QED
        BY <2>3, <3>1, <4>1
    <3>2. CASE k # m + 1
      <4>1. k \in 1..m
        BY <1>1, <3>2
      <4>2. PICK i \in 1..n : s[i] \in Injected /\ Count(s, Injected, i) = k /\ e[k] = s[i]
        BY <1>4, <4>1
      <4>3. t[i] = s[i] /\ Count(t, Injected, i) = k /\ f[k] = e[k] /\ i \in 1..(n + 1)
        BY <1>1, <1>2, <1>5, <2>2, <4>1, <4>2
      <4>4. QED
        BY <4>2, <4>3
    <3>3. QED
      BY <3>1, <3>2
  <2>5. AsInjected(t, f)
    BY <1>1, <2>2, <2>3, <2>4 DEF AsInjected
  <2>6. QED
    BY <2>5 DEF t, f
<1>8. QED
  BY <1>6, <1>7

Extends(after, seed) == \A y \in DOMAIN seed : y \in DOMAIN after /\ after[y] = seed[y]

LEMMA RolledAppend ==
  ASSUME NEW s \in Seq(F!Decision), NEW x \in F!Decision, NEW seed, NEW after, NEW roll,
         AsRolled(s, seed), Extends(after, seed),
         roll = <<x.domain, Count(s, OfDomain(x.domain), Len(s)) + 1>>,
         roll \in DOMAIN after, after[roll] = x.fault
  PROVE  AsRolled(Append(s, x), after)
<1> DEFINE t == Append(s, x)
           n == Len(s)
<1>1. /\ n \in Nat /\ DOMAIN s = 1..n
      /\ Len(t) = n + 1 /\ DOMAIN t = 1..(n + 1) /\ t[n + 1] = x /\ \A i \in 1..n : t[i] = s[i]
  BY AppendProperties, LenProperties
<1>2. \A some : /\ \A i \in 0..n : Count(t, some, i) = Count(s, some, i)
                /\ x \in some => Count(t, some, n + 1) = Count(s, some, n) + 1
  BY CountAppend
<1>3. x \in OfDomain(x.domain)
  BY DEF OfDomain
<1>4. RollAt(t, n + 1) = roll
  BY <1>1, <1>2, <1>3 DEF RollAt
<1>5. ASSUME NEW i \in 1..n PROVE RollAt(t, i) = RollAt(s, i)
  <2>1. i \in 0..n
    BY <1>1
  <2>2. QED
    BY <1>1, <1>2, <2>1 DEF RollAt
<1> HIDE DEF t, n
<1>6. ASSUME NEW i \in 1..(n + 1) PROVE RollAt(t, i) \in DOMAIN after /\ after[RollAt(t, i)] = t[i].fault
  <2>1. CASE i = n + 1
    BY <1>1, <1>4, <2>1
  <2>2. CASE i # n + 1
    <3>1. i \in 1..n
      BY <1>1, <2>2
    <3>2. RollAt(s, i) \in DOMAIN seed /\ seed[RollAt(s, i)] = s[i].fault
      BY <1>1, <3>1 DEF AsRolled
    <3>3. QED
      BY <1>1, <1>5, <3>1, <3>2 DEF Extends
  <2>3. QED
    BY <2>1, <2>2
<1>7. QED
  BY <1>1, <1>6 DEF AsRolled, t

LEMMA RolledExtends ==
  ASSUME NEW s, NEW seed, NEW after, AsRolled(s, seed), Extends(after, seed)
  PROVE  AsRolled(s, after)
BY DEF AsRolled, Extends

-----------------------------------------------------------------------------
LEMMA ScriptsTyped ==
  ASSUME NEW k \in KnownKinds, None \notin KnownFaults,
         NEW fault \in F!FaultsOf(F!DomainOf(k)) \cup {None}
  PROVE  /\ F!DomainOf(k) \in F!Domains
         /\ [domain |-> F!DomainOf(k), fault |-> fault] \in F!Decision
         /\ F!Scripts(k, fault) \subseteq Seq(F!Happening)
<1>1. F!DomainOf(k) \in F!Domains
  BY DEF F!DomainOf, F!Domains
<1>2. [domain |-> F!DomainOf(k), fault |-> fault] \in F!Decision
  <2> DEFINE all == UNION {F!FaultsOf(d) : d \in F!Domains}
  <2>1. \A d \in F!Domains : \A f \in F!FaultsOf(d) : f \in all
    OBVIOUS
  <2>2. F!Decision = [domain : F!Domains, fault : {None} \cup all]
    BY DEF F!Decision
  <2> HIDE DEF all
  <2>3. fault \in all \cup {None}
    BY <1>1, <2>1
  <2>4. QED
    BY <1>1, <2>2, <2>3
<1>3. /\ F!Pass \in Seq(F!Happening) /\ <<"failed">> \in Seq(F!Happening)
      /\ <<"timer", "failed">> \in Seq(F!Happening) /\ <<"timer">> \in Seq(F!Happening)
      /\ <<"status">> \in Seq(F!Happening) /\ <<"status", "timer", "failed">> \in Seq(F!Happening)
      /\ <<"timer", "killed">> \in Seq(F!Happening) /\ <<"half", "failed">> \in Seq(F!Happening)
      /\ <<"all", "timer", "ok">> \in Seq(F!Happening)
  BY DEF F!Pass, F!Happening
<1>4. <<"timer">> \o F!Pass \in Seq(F!Happening) /\ F!Pass \o <<"timer", "killed">> \in Seq(F!Happening)
  BY <1>3, ConcatProperties
<1>5. CASE fault = None
  <2>1. F!Scripts(k, fault) = {F!Pass}
    BY <1>5 DEF F!Scripts
  <2>2. QED
    BY <1>1, <1>2, <1>3, <2>1
<1>6. CASE fault # None /\ k = "http"
  <2>1. fault \in {"error", "late error", "delay", "torn", "answer", "ignored"}
    BY <1>6 DEF F!FaultsOf, F!DomainOf
  <2>2. F!Scripts(k, fault) = {F!HttpScript(fault)}
    BY <1>6 DEF F!Scripts
  <2>3. F!HttpScript(fault) \in Seq(F!Happening)
    BY <1>3, <1>4, <2>1 DEF F!HttpScript
  <2>4. QED
    BY <1>1, <1>2, <2>2, <2>3
<1>7. CASE fault # None /\ k = "grpc"
  <2>1. F!Scripts(k, fault) = {F!GrpcScript(fault)}
    BY <1>7 DEF F!Scripts
  <2>2. F!GrpcScript(fault) \in Seq(F!Happening)
    BY <1>3 DEF F!GrpcScript
  <2>3. QED
    BY <1>1, <1>2, <2>1, <2>2
<1>8. CASE fault # None /\ k = "spawn"
  <2>1. F!Scripts(k, fault) = {F!Pass \o <<"timer", "killed">>}
    BY <1>8 DEF F!Scripts
  <2>2. QED
    BY <1>1, <1>2, <1>4, <2>1
<1>9. CASE fault # None /\ k \notin {"http", "grpc", "spawn"}
  <2>1. k \in {"fs promise", "fs callback", "fs sync", "fs stream"}
    BY <1>9 DEF KnownKinds
  <2>2. F!DomainOf(k) = "FILESYSTEM"
    BY <2>1 DEF F!DomainOf
  <2>3. fault \in {"error", "delay", "torn"}
    BY <1>9, <2>2 DEF F!FaultsOf
  <2>4. F!Scripts(k, fault) = F!FsScripts(k, fault)
    BY <1>9 DEF F!Scripts
  <2>5. F!FsScripts(k, fault) \subseteq Seq(F!Happening)
    <3>1. CASE fault = "error"
      <4>1. F!FsScripts(k, fault) = {<<"failed">>}
        BY <3>1 DEF F!FsScripts
      <4>2. QED
        BY <1>3, <4>1
    <3>2. CASE fault = "torn"
      <4>1. F!FsScripts(k, fault) \subseteq {F!Pass, <<"half", "failed">>}
        BY <3>2 DEF F!FsScripts
      <4>2. QED
        BY <1>3, <4>1
    <3>3. CASE fault = "delay"
      <4>1. F!FsScripts(k, fault) \subseteq {<<"timer">> \o F!Pass, <<"all", "timer", "ok">>, F!Pass}
        BY <2>1, <3>3 DEF F!FsScripts
      <4>2. QED
        BY <1>3, <1>4, <4>1
    <3>4. QED
      BY <2>3, <3>1, <3>2, <3>3
  <2>6. QED
    BY <1>1, <1>2, <2>4, <2>5
<1>10. QED
  BY <1>5, <1>6, <1>7, <1>8, <1>9

-----------------------------------------------------------------------------
(* Only an event of a killed child has a pid.                              *)
Named(recorded, names) ==
  /\ Len(names) = Len(recorded)
  /\ \A i \in DOMAIN recorded : names[i] = None \/ recorded[i].domain = "PROCESS"

RoutingInv ==
  /\ F!TypeOK
  /\ \A r \in Runs :
       /\ calls[r] = [i \in DOMAIN decided[r] |-> decided[r][i].domain]
       /\ Len(decided[r]) <= MaxCalls
       /\ AsRolled(decided[r], dice)
       /\ AsInjected(decided[r], events[r])
       /\ Named(events[r], pids[r])

LEMMA RoutingInit == ASSUME RoutingConstants PROVE F!Init => RoutingInv
<1>1. SUFFICES ASSUME F!Init PROVE RoutingInv
  OBVIOUS
<1>2. /\ <<>> \in Seq(F!Decision) /\ Len(<<>>) = 0 /\ DOMAIN <<>> = {}
      /\ <<>> \in Seq(F!Domains) /\ <<>> \in Seq(F!Happening)
      /\ <<>> \in Seq(Pids \cup {None})
  BY EmptySeq
<1>3. F!TypeOK
  BY <1>1, <1>2 DEF F!Init, F!TypeOK
<1>4. Count(<<>>, Injected, 0) = 0
  <2>1. Count(<<>>, Injected, 0) \in 0..0
    BY WhereFinite
  <2>2. QED
    BY <2>1
<1>5. AsRolled(<<>>, <<>>) /\ AsInjected(<<>>, <<>>) /\ Named(<<>>, <<>>)
  BY <1>2, <1>4 DEF AsRolled, AsInjected, Named
<1>6. <<>> = [i \in DOMAIN <<>> |-> <<>>[i].domain]
  BY <1>2
<1>7. QED
  BY <1>1, <1>2, <1>3, <1>5, <1>6 DEF F!Init, RoutingInv, RoutingConstants

(* The roll of an engine, counted over its decisions.                      *)
LEMMA RollCounts ==
  ASSUME NEW r \in Runs, decided[r] \in Seq(F!Decision), NEW domain
  PROVE  /\ F!Roll(r, domain) = Count(decided[r], OfDomain(domain), Len(decided[r])) + 1
         /\ F!Roll(r, domain) \in 1..(Len(decided[r]) + 1)
<1> DEFINE s == decided[r]
           n == Len(s)
<1>1. n \in Nat /\ DOMAIN s = 1..n /\ \A i \in 1..n : s[i] \in F!Decision
  BY LenProperties, ElementOfSeq
<1>2. {i \in DOMAIN s : s[i].domain = domain} = Where(s, OfDomain(domain), n)
  <2> HIDE DEF s, n
  <2>1. QED
    BY <1>1 DEF Where, OfDomain
<1>3. F!Roll(r, domain) = Count(s, OfDomain(domain), n) + 1
  BY <1>2, CountsAlike DEF F!Roll, Count
<1> HIDE DEF s, n
<1>4. Count(s, OfDomain(domain), n) \in 0..n
  BY <1>1, WhereFinite
<1>5. \A k \in 0..n : k + 1 \in 1..(n + 1)
  BY <1>1
<1>6. QED
  BY <1>3, <1>4, <1>5 DEF s, n

LEMMA DecideKeeps ==
  ASSUME RoutingConstants, RoutingInv, NEW r \in Runs, NEW domain \in F!Domains, NEW fault,
         [domain |-> domain, fault |-> fault] \in F!Decision,
         F!Decide(r, domain, fault), Len(calls[r]) < MaxCalls,
         calls' = [calls EXCEPT ![r] = Append(@, domain)]
  PROVE  /\ DOMAIN dice' \subseteq F!Domains \X (1..MaxCalls)
         /\ calls' \in [Runs -> Seq(F!Domains)]
         /\ decided' \in [Runs -> Seq(F!Decision)] /\ events' \in [Runs -> Seq(F!Decision)]
         /\ \A q \in Runs :
              /\ calls'[q] = [i \in DOMAIN decided'[q] |-> decided'[q][i].domain]
              /\ Len(decided'[q]) <= MaxCalls
              /\ AsRolled(decided'[q], dice')
              /\ AsInjected(decided'[q], events'[q])
<1> DEFINE x == [domain |-> domain, fault |-> fault]
           s == decided[r]
           n == Len(s)
           roll == <<domain, F!Roll(r, domain)>>
           after == dice'
<1>1. /\ DOMAIN dice \subseteq F!Domains \X (1..MaxCalls) /\ MaxCalls \in Nat
      /\ calls \in [Runs -> Seq(F!Domains)]
      /\ decided \in [Runs -> Seq(F!Decision)] /\ events \in [Runs -> Seq(F!Decision)]
      /\ s \in Seq(F!Decision) /\ events[r] \in Seq(F!Decision) /\ calls[r] \in Seq(F!Domains)
  BY DEF RoutingInv, F!TypeOK, RoutingConstants
<1>2. /\ roll \in DOMAIN dice => fault = dice[roll]
      /\ after = [y \in DOMAIN dice \cup {roll} |-> IF y = roll THEN fault ELSE dice[y]]
      /\ decided' = [decided EXCEPT ![r] = Append(@, x)]
      /\ events' = IF fault = None THEN events ELSE [events EXCEPT ![r] = Append(@, x)]
  BY DEF F!Decide, F!RecordEvent
<1>3. x.domain = domain /\ x.fault = fault
  OBVIOUS
<1>4. n \in Nat /\ DOMAIN s = 1..n /\ calls[r] = [i \in 1..n |-> s[i].domain]
  BY <1>1, LenProperties DEF RoutingInv
<1>5. Len(calls[r]) = n
  <2>1. Len(calls[r]) \in Nat /\ DOMAIN calls[r] = 1..Len(calls[r])
    BY <1>1, LenProperties
  <2>2. QED
    BY <1>4, <2>1
<1>6. /\ F!Roll(r, domain) = Count(s, OfDomain(domain), n) + 1 /\ F!Roll(r, domain) \in 1..(n + 1)
  BY <1>1, RollCounts
<1>7. /\ Extends(after, dice) /\ roll \in DOMAIN after /\ after[roll] = fault
      /\ DOMAIN after = DOMAIN dice \cup {roll}
  BY <1>2 DEF Extends
<1> HIDE DEF after, roll, x
<1>8. DOMAIN after \subseteq F!Domains \X (1..MaxCalls)
  <2>1. n < MaxCalls
    BY <1>5
  <2>2. \A k \in 1..(n + 1) : k \in 1..MaxCalls
    BY <1>1, <1>4, <2>1
  <2>3. roll \in F!Domains \X (1..MaxCalls)
    BY <1>6, <2>2 DEF roll
  <2>4. QED
    BY <1>1, <1>7, <2>3
<1>9. AsRolled(Append(s, x), after)
  <2>1. AsRolled(s, dice)
    BY DEF RoutingInv
  <2>2. x \in F!Decision /\ roll = <<x.domain, Count(s, OfDomain(x.domain), Len(s)) + 1>>
        /\ after[roll] = x.fault
    BY <1>3, <1>6, <1>7 DEF roll, x
  <2>3. QED
    BY <1>1, <1>7, <2>1, <2>2, RolledAppend
<1>10. AsInjected(Append(s, x), IF x.fault = None THEN events[r] ELSE Append(events[r], x))
  <2>1. AsInjected(s, events[r]) /\ x \in F!Decision
    BY DEF RoutingInv, x
  <2>2. QED
    BY <1>1, <2>1, InjectedAppend
<1>11. /\ decided' \in [Runs -> Seq(F!Decision)] /\ decided'[r] = Append(s, x)
       /\ \A q \in Runs \ {r} : decided'[q] = decided[q]
  <2>1. Append(s, x) \in Seq(F!Decision)
    BY <1>1 DEF x
  <2>2. QED
    BY <1>1, <1>2, <2>1
<1>12. /\ events' \in [Runs -> Seq(F!Decision)]
       /\ events'[r] = IF x.fault = None THEN events[r] ELSE Append(events[r], x)
       /\ \A q \in Runs \ {r} : events'[q] = events[q]
  <2>1. Append(events[r], x) \in Seq(F!Decision)
    BY <1>1 DEF x
  <2>2. QED
    BY <1>1, <1>2, <1>3, <2>1
<1>13. /\ calls' \in [Runs -> Seq(F!Domains)] /\ calls'[r] = Append(calls[r], domain)
       /\ \A q \in Runs \ {r} : calls'[q] = calls[q]
  BY <1>1
<1>14. /\ Len(Append(s, x)) = n + 1 /\ n + 1 <= MaxCalls
       /\ Append(calls[r], domain) = [i \in DOMAIN Append(s, x) |-> Append(s, x)[i].domain]
  <2> DEFINE t == Append(s, x)
             c == Append(calls[r], domain)
  <2>1. /\ t \in Seq(F!Decision) /\ Len(t) = n + 1 /\ t[n + 1] = x
        /\ \A i \in 1..n : t[i] = s[i]
    BY <1>1, AppendProperties DEF x
  <2>2. /\ c \in Seq(F!Domains) /\ Len(c) = n + 1 /\ c[n + 1] = domain
        /\ \A i \in 1..n : c[i] = calls[r][i]
    BY <1>1, <1>5, AppendProperties
  <2>3. DOMAIN t = 1..(n + 1) /\ c \in [1..(n + 1) -> F!Domains]
    BY <2>1, <2>2, LenProperties
  <2>4. \A i \in 1..n : calls[r][i] = s[i].domain
    BY <1>4
  <2> HIDE DEF t, c, n
  <2>5. \A i \in 1..(n + 1) : i \in 1..n \/ i = n + 1
    BY <1>4
  <2>6. \A i \in 1..(n + 1) : c[i] = t[i].domain
    BY <1>3, <2>1, <2>2, <2>4, <2>5
  <2>7. c = [i \in DOMAIN t |-> t[i].domain]
    BY <2>3, <2>6
  <2>8. n + 1 <= MaxCalls
    BY <1>1, <1>4, <1>5
  <2>9. QED
    BY <2>1, <2>7, <2>8 DEF t, c
<1>15. ASSUME NEW q \in Runs
       PROVE  /\ calls'[q] = [i \in DOMAIN decided'[q] |-> decided'[q][i].domain]
              /\ Len(decided'[q]) <= MaxCalls
              /\ AsRolled(decided'[q], after)
              /\ AsInjected(decided'[q], events'[q])
  <2>1. CASE q = r
    BY <1>9, <1>10, <1>11, <1>12, <1>13, <1>14, <2>1
  <2>2. CASE q # r
    <3>1. /\ calls[q] = [i \in DOMAIN decided[q] |-> decided[q][i].domain]
          /\ Len(decided[q]) <= MaxCalls /\ AsRolled(decided[q], dice)
          /\ AsInjected(decided[q], events[q])
      BY DEF RoutingInv
    <3>2. AsRolled(decided[q], after)
      BY <1>7, <3>1, RolledExtends
    <3>3. decided'[q] = decided[q] /\ events'[q] = events[q] /\ calls'[q] = calls[q]
      BY <1>11, <1>12, <1>13, <2>2
    <3>4. QED
      BY <3>1, <3>2, <3>3
  <2>3. QED
    BY <2>1, <2>2
<1>16. QED
  BY <1>8, <1>11, <1>12, <1>13, <1>15 DEF after

(* An event and the pid in its payload are recorded together.              *)
LEMMA PidsKeep ==
  ASSUME RoutingInv, NEW r \in Runs, NEW domain \in F!Domains, NEW fault,
         [domain |-> domain, fault |-> fault] \in F!Decision, F!Decide(r, domain, fault)
  PROVE  /\ pids' \in [Runs -> Seq(Pids \cup {None})]
         /\ \A q \in Runs : Named(events'[q], pids'[q])
<1>1. /\ events \in [Runs -> Seq(F!Decision)] /\ pids \in [Runs -> Seq(Pids \cup {None})]
      /\ \A q \in Runs : Named(events[q], pids[q])
  BY DEF RoutingInv, F!TypeOK
<1>2. CASE fault = None
  BY <1>1, <1>2 DEF F!Decide
<1>3. CASE fault # None
  <2> DEFINE x == [domain |-> domain, fault |-> fault]
             e == events[r]
             p == pids[r]
             n == Len(e)
  <2>1. PICK pid \in IF domain = "PROCESS" THEN Pids ELSE {None} :
          /\ events' = [events EXCEPT ![r] = Append(@, x)]
          /\ pids' = [pids EXCEPT ![r] = Append(@, pid)]
    BY <1>3 DEF F!Decide, F!RecordEvent
  <2>2. /\ e \in Seq(F!Decision) /\ p \in Seq(Pids \cup {None}) /\ pid \in Pids \cup {None}
        /\ x \in F!Decision /\ Named(e, p)
    BY <1>1, <2>1
  <2>3. /\ n \in Nat /\ DOMAIN e = 1..n /\ Len(p) = n
        /\ Append(e, x) \in Seq(F!Decision) /\ Len(Append(e, x)) = n + 1
        /\ Append(e, x)[n + 1] = x /\ \A i \in 1..n : Append(e, x)[i] = e[i]
        /\ Append(p, pid) \in Seq(Pids \cup {None}) /\ Len(Append(p, pid)) = n + 1
        /\ Append(p, pid)[n + 1] = pid /\ \A i \in 1..n : Append(p, pid)[i] = p[i]
    BY <2>2, AppendProperties, LenProperties DEF Named
  <2>4. DOMAIN Append(e, x) = 1..(n + 1)
    BY <2>3, LenProperties
  <2>5. x.domain = domain
    OBVIOUS
  <2>6. pid = None \/ domain = "PROCESS"
    BY <2>1
  <2>7. /\ events'[r] = Append(e, x) /\ pids'[r] = Append(p, pid)
        /\ pids' \in [Runs -> Seq(Pids \cup {None})]
        /\ \A q \in Runs \ {r} : events'[q] = events[q] /\ pids'[q] = pids[q]
    BY <1>1, <2>1, <2>3
  <2> HIDE DEF x, e, p, n
  <2>8. ASSUME NEW i \in 1..(n + 1)
        PROVE  Append(p, pid)[i] = None \/ Append(e, x)[i].domain = "PROCESS"
    <3>1. CASE i = n + 1
      BY <2>3, <2>5, <2>6, <3>1
    <3>2. CASE i # n + 1
      <4>1. i \in 1..n
        BY <2>3, <3>2
      <4>2. QED
        BY <2>2, <2>3, <4>1 DEF Named
    <3>3. QED
      BY <3>1, <3>2
  <2>9. Named(Append(e, x), Append(p, pid))
    BY <2>3, <2>4, <2>8 DEF Named
  <2>10. QED
    BY <1>1, <2>7, <2>9
<1>4. QED
  BY <1>2, <1>3

LEMMA CallKeeps ==
  ASSUME RoutingConstants, RoutingInv, NEW r \in Runs, NEW k \in KnownKinds, F!Call(r, k)
  PROVE  RoutingInv'
<1>1. left \in [Runs -> Seq(F!Happening)] /\ F!TypeOK
  BY DEF RoutingInv, F!TypeOK
<1>2. CASE context
  <2>1. PICK fault \in F!FaultsOf(F!DomainOf(k)) \cup {None} :
          /\ F!Decide(r, F!DomainOf(k), fault)
          /\ \E script \in F!Scripts(k, fault) : left' = [left EXCEPT ![r] = script]
    BY <1>2 DEF F!Call
  <2>2. /\ Len(calls[r]) < MaxCalls /\ UNCHANGED <<context, engines>>
        /\ calls' = [calls EXCEPT ![r] = Append(@, F!DomainOf(k))]
    BY <1>2 DEF F!Call
  <2>3. /\ F!DomainOf(k) \in F!Domains /\ [domain |-> F!DomainOf(k), fault |-> fault] \in F!Decision
        /\ F!Scripts(k, fault) \subseteq Seq(F!Happening)
    BY ScriptsTyped DEF RoutingConstants
  <2>4. left' \in [Runs -> Seq(F!Happening)]
    BY <1>1, <2>1, <2>3
  <2>5. /\ DOMAIN dice' \subseteq F!Domains \X (1..MaxCalls)
        /\ calls' \in [Runs -> Seq(F!Domains)]
        /\ decided' \in [Runs -> Seq(F!Decision)] /\ events' \in [Runs -> Seq(F!Decision)]
        /\ \A q \in Runs :
             /\ calls'[q] = [i \in DOMAIN decided'[q] |-> decided'[q][i].domain]
             /\ Len(decided'[q]) <= MaxCalls
             /\ AsRolled(decided'[q], dice')
             /\ AsInjected(decided'[q], events'[q])
    BY <2>1, <2>2, <2>3, DecideKeeps
  <2>6. /\ pids' \in [Runs -> Seq(Pids \cup {None})]
        /\ \A q \in Runs : Named(events'[q], pids'[q])
    BY <2>1, <2>3, PidsKeep
  <2>7. QED
    BY <1>1, <2>2, <2>4, <2>5, <2>6
       DEF RoutingInv, F!TypeOK, AsRolled, AsInjected, RollAt, Count, Where, Named
<1>3. CASE ~context
  <2>1. /\ left' = [left EXCEPT ![r] = F!Pass]
        /\ UNCHANGED <<context, engines, dice, calls, decided, events, pids>>
    BY <1>3 DEF F!Call
  <2>2. F!Pass \in Seq(F!Happening)
    BY DEF F!Pass, F!Happening
  <2>3. left' \in [Runs -> Seq(F!Happening)]
    BY <1>1, <2>1, <2>2
  <2>4. QED
    BY <1>1, <2>1, <2>3 DEF RoutingInv, F!TypeOK
<1>4. QED
  BY <1>2, <1>3

LEMMA RoutingStep ==
  ASSUME RoutingConstants, RoutingInv, [F!Next]_F!routingVars PROVE RoutingInv'
<1>1. F!TypeOK
  BY DEF RoutingInv
<1>2. CASE F!Toggle
  BY <1>1, <1>2 DEF F!Toggle, RoutingInv, F!TypeOK
<1>3. ASSUME NEW r \in Runs, F!StartRun(r) PROVE RoutingInv'
  BY <1>1, <1>3 DEF F!StartRun, RoutingInv, F!TypeOK
<1>4. ASSUME NEW r \in Runs, F!Proceed(r) PROVE RoutingInv'
  <2>1. left[r] \in Seq(F!Happening) /\ left[r] # <<>> /\ left' = [left EXCEPT ![r] = Tail(@)]
        /\ UNCHANGED <<context, engines, dice, calls, decided, events, pids>>
    BY <1>1, <1>4 DEF F!Proceed, F!TypeOK
  <2>2. Tail(left[r]) \in Seq(F!Happening)
    BY <2>1, HeadTailProperties
  <2>3. left' \in [Runs -> Seq(F!Happening)]
    BY <1>1, <2>1, <2>2 DEF F!TypeOK
  <2>4. QED
    BY <1>1, <2>1, <2>3 DEF RoutingInv, F!TypeOK
<1>5. ASSUME NEW r \in Runs, NEW k \in Network, F!Call(r, k) PROVE RoutingInv'
  BY <1>5, CallKeeps DEF RoutingConstants
<1>6. CASE UNCHANGED F!routingVars
  BY <1>1, <1>6 DEF F!routingVars, RoutingInv, F!TypeOK
<1>7. QED
  BY <1>2, <1>3, <1>4, <1>5, <1>6 DEF F!Next

LEMMA RoutingGoal == ASSUME RoutingInv PROVE F!FaultsReplay
<1>1. ASSUME NEW r \in Runs
      PROVE  /\ decided[r] \in Seq(F!Decision) /\ events[r] \in Seq(F!Decision)
             /\ DOMAIN decided[r] = 1..Len(decided[r]) /\ Len(decided[r]) \in Nat
             /\ \A i \in DOMAIN decided[r] :
                  /\ decided[r][i] \in F!Decision
                  /\ RollAt(decided[r], i) = <<decided[r][i].domain, F!Turn(r, i)>>
  <2> DEFINE s == decided[r]
  <2>1. s \in Seq(F!Decision) /\ events[r] \in Seq(F!Decision)
    BY DEF RoutingInv, F!TypeOK
  <2>2. DOMAIN s = 1..Len(s) /\ Len(s) \in Nat /\ \A i \in 1..Len(s) : s[i] \in F!Decision
    BY <2>1, LenProperties, ElementOfSeq
  <2>3. ASSUME NEW i \in 1..Len(s) PROVE F!Turn(r, i) = Count(s, OfDomain(s[i].domain), i)
    <3>1. \A j \in 1..i : s[j] \in F!Decision
      <4>1. \A j \in 1..i : j \in 1..Len(s)
        BY <2>2
      <4>2. QED
        BY <2>2, <4>1
    <3>2. {j \in 1..i : s[j].domain = s[i].domain} = Where(s, OfDomain(s[i].domain), i)
      BY <3>1 DEF Where, OfDomain
    <3>3. QED
      BY <3>2, CountsAlike DEF F!Turn, Count
  <2>4. QED
    BY <2>1, <2>2, <2>3 DEF RollAt
<1>2. ASSUME NEW r \in Runs, NEW s \in Runs, NEW i \in DOMAIN decided[r], NEW j \in DOMAIN decided[s],
             decided[r][i].domain = decided[s][j].domain, F!Turn(r, i) = F!Turn(s, j)
      PROVE  decided[r][i] = decided[s][j]
  <2>1. RollAt(decided[r], i) = RollAt(decided[s], j)
    BY <1>1, <1>2
  <2>2. decided[r][i].fault = decided[s][j].fault
    <3>1. dice[RollAt(decided[r], i)] = decided[r][i].fault
      BY DEF RoutingInv, AsRolled
    <3>2. dice[RollAt(decided[s], j)] = decided[s][j].fault
      BY DEF RoutingInv, AsRolled
    <3>3. QED
      BY <2>1, <3>1, <3>2
  <2>3. decided[r][i] \in F!Decision /\ decided[s][j] \in F!Decision
    BY <1>1
  <2>4. QED
    BY <1>2, <2>2, <2>3 DEF F!Decision
<1>3. ASSUME NEW r \in Runs, NEW s \in Runs, calls[r] = calls[s]
      PROVE  events[r] = events[s]
  <2> DEFINE a == decided[r]
             b == decided[s]
  <2>1. /\ calls[r] = [i \in DOMAIN a |-> a[i].domain]
        /\ calls[s] = [i \in DOMAIN b |-> b[i].domain]
    BY DEF RoutingInv
  <2>2. DOMAIN a = DOMAIN b /\ \A i \in DOMAIN a : a[i].domain = b[i].domain
    <3>1. DOMAIN calls[r] = DOMAIN a /\ DOMAIN calls[s] = DOMAIN b
      BY <2>1
    <3>2. DOMAIN a = DOMAIN b
      BY <1>3, <3>1
    <3>3. \A i \in DOMAIN a : calls[r][i] = a[i].domain /\ calls[s][i] = b[i].domain
      BY <2>1, <3>2
    <3>4. QED
      BY <1>3, <3>2, <3>3
  <2>3. ASSUME NEW i \in DOMAIN a PROVE a[i] = b[i]
    <3>1. \A j \in 1..i : j \in DOMAIN a
      BY <1>1
    <3>2. {j \in 1..i : a[j].domain = a[i].domain} = {j \in 1..i : b[j].domain = b[i].domain}
      BY <2>2, <3>1
    <3>3. F!Turn(r, i) = F!Turn(s, i)
      BY <3>2, CountsAlike DEF F!Turn
    <3>4. QED
      BY <1>2, <2>2, <3>3
  <2>4. a = b
    <3>1. a \in Seq(F!Decision) /\ b \in Seq(F!Decision) /\ Len(a) = Len(b)
          /\ \A i \in 1..Len(a) : a[i] = b[i]
      BY <1>1, <2>2, <2>3
    <3>2. QED
      BY <3>1, SeqEqual
  <2>5. AsInjected(a, events[r]) /\ AsInjected(a, events[s])
    BY <2>4 DEF RoutingInv
  <2>6. QED
    BY <1>1, <2>5, InjectedOnce
<1>4. ASSUME NEW r \in Runs, NEW s \in Runs, calls[r] = calls[s], NEW i \in DOMAIN events[r]
      PROVE  F!Payload(r, i) = F!Payload(s, i) \/ events[r][i].domain = "PROCESS"
  <2>1. events[r] = events[s] /\ Named(events[r], pids[r]) /\ Named(events[s], pids[s])
    BY <1>3, <1>4 DEF RoutingInv
  <2>2. QED
    BY <2>1 DEF Named, F!Payload
<1>5. QED
  BY <1>2, <1>3, <1>4 DEF F!FaultsReplay, RoutingInv

-----------------------------------------------------------------------------
(* Clocks of the Python SDK                                                *)

PythonConstants == IsFiniteSet(Tasks) /\ MaxNesting \in Nat

(* Block j of a task, counted from the outermost.                          *)
LevelOf(s, j) == s[Len(s) - j + 1]
Upto(s, j) == {k \in 1..j : LevelOf(s, k) = LevelOf(s, j)}

Entered == {e \in Tasks \X (1..MaxNesting) : e[2] <= Len(blocks[e[1]])}
EnteredOf(c) == {e \in Entered : LevelOf(blocks[e[1]], e[2]) = c}

Token == [task : Tasks, old : Clocks \cup {None}]

(* The patches count the blocks, and a clock has a token for each of its.  *)
BlocksCounted ==
  /\ tokens \in [Clocks -> Seq(Token)]
  /\ \A t \in Tasks : Len(blocks[t]) <= MaxNesting
  /\ depth = Cardinality(Entered)
  /\ \A c \in Clocks : Len(tokens[c]) = Cardinality(EnteredOf(c))

NameIsOurs ==
  /\ depth > 0 => "ours" \in Y!Range(patched)
  /\ ~overlaid => patched = IF depth = 0 THEN <<>> ELSE <<"ours">>

(* The clock of a block belongs to its task, whose token it has at its     *)
(* place, and that token leads to the block around.                        *)
TokensNest ==
  shared = {} =>
    /\ \A t, u \in Tasks : \A j \in 1..Len(blocks[t]), k \in 1..Len(blocks[u]) :
         LevelOf(blocks[t], j) = LevelOf(blocks[u], k) => t = u
    /\ \A t \in Tasks : \A j \in 1..Len(blocks[t]) :
         LET token == tokens[LevelOf(blocks[t], j)][Cardinality(Upto(blocks[t], j))]
         IN token.task = t /\ (j > 1 => token.old = LevelOf(blocks[t], j - 1))
    /\ \A t \in Tasks : blocks[t] # <<>> => active[t] = Head(blocks[t])

PythonInv == Y!TypeOK /\ BlocksCounted /\ NameIsOurs /\ TokensNest

(* Entering and leaving a block, as lists.                                 *)
LEMMA PushShape ==
  ASSUME NEW s \in Seq(Clocks), NEW c \in Clocks
  PROVE  /\ <<c>> \o s \in Seq(Clocks) /\ Len(<<c>> \o s) = Len(s) + 1
         /\ <<c>> \o s # <<>> /\ Head(<<c>> \o s) = c
         /\ LevelOf(<<c>> \o s, Len(s) + 1) = c
         /\ \A j \in 1..Len(s) : LevelOf(<<c>> \o s, j) = LevelOf(s, j)
BY DEF LevelOf

LEMMA PopShape ==
  ASSUME NEW s \in Seq(Clocks), s # <<>>
  PROVE  /\ Tail(s) \in Seq(Clocks) /\ Len(Tail(s)) = Len(s) - 1 /\ Len(s) > 0
         /\ Head(s) \in Clocks /\ Head(s) = LevelOf(s, Len(s))
         /\ \A j \in 1..(Len(s) - 1) : LevelOf(Tail(s), j) = LevelOf(s, j)
         /\ Tail(s) # <<>> => Len(s) > 1 /\ Head(Tail(s)) = LevelOf(s, Len(s) - 1)
BY DEF LevelOf

(* The place of a token does not depend on the blocks within.              *)
LEMMA UptoKept ==
  ASSUME NEW s \in Seq(Clocks), NEW r \in Seq(Clocks), NEW j \in Nat,
         \A k \in 1..j : LevelOf(r, k) = LevelOf(s, k)
  PROVE  Upto(r, j) = Upto(s, j)
<1>1. CASE j = 0
  BY <1>1 DEF Upto
<1>2. CASE j > 0
  BY <1>2 DEF Upto
<1>3. QED
  BY <1>1, <1>2

LEMMA UptoCounts ==
  ASSUME NEW s, NEW j \in Nat \ {0}
  PROVE  /\ IsFiniteSet(Upto(s, j)) /\ Cardinality(Upto(s, j)) \in 1..j
         /\ \A k \in 1..(j - 1) : LevelOf(s, k) = LevelOf(s, j) =>
              Cardinality(Upto(s, k)) < Cardinality(Upto(s, j))
<1>1. ASSUME NEW k \in Nat \ {0}
      PROVE  /\ IsFiniteSet(Upto(s, k)) /\ Cardinality(Upto(s, k)) \in 0..k
             /\ k \in Upto(s, k)
  <2>1. IsFiniteSet(1..k) /\ Cardinality(1..k) = k
    BY FS_Interval
  <2>2. Upto(s, k) \in SUBSET (1..k) /\ k \in Upto(s, k)
    BY DEF Upto
  <2>3. IsFiniteSet(Upto(s, k)) /\ Cardinality(Upto(s, k)) <= k
    BY <2>1, <2>2, FS_Subset
  <2>4. QED
    BY <2>2, <2>3, FS_CardinalityType
<1>2. Cardinality(Upto(s, j)) # 0
  BY <1>1, FS_EmptySet
<1>3. ASSUME NEW k \in 1..(j - 1), LevelOf(s, k) = LevelOf(s, j)
      PROVE  Cardinality(Upto(s, k)) < Cardinality(Upto(s, j))
  <2>1. Upto(s, k) \in SUBSET Upto(s, j) /\ j \notin Upto(s, k) /\ j \in Upto(s, j)
    BY <1>3 DEF Upto
  <2>2. IsFiniteSet(Upto(s, j)) /\ Upto(s, k) # Upto(s, j)
    BY <1>1, <2>1
  <2>3. /\ Cardinality(Upto(s, k)) <= Cardinality(Upto(s, j))
        /\ Cardinality(Upto(s, j)) = Cardinality(Upto(s, k)) => Upto(s, j) = Upto(s, k)
    BY <2>1, <2>2, FS_Subset
  <2>4. Cardinality(Upto(s, k)) \in Nat /\ Cardinality(Upto(s, j)) \in Nat
    BY <1>1, <1>3
  <2>5. QED
    BY <2>2, <2>3, <2>4
<1>4. QED
  BY <1>1, <1>2, <1>3

LEMMA PairsFinite ==
  ASSUME PythonConstants, NEW some \in SUBSET (Tasks \X (1..MaxNesting))
  PROVE  IsFiniteSet(some) /\ Cardinality(some) \in 0..(MaxNesting * Cardinality(Tasks))
<1>1. MaxNesting \in Nat /\ IsFiniteSet(Tasks)
  BY DEF PythonConstants
<1>2. IsFiniteSet(1..MaxNesting) /\ Cardinality(1..MaxNesting) = MaxNesting
  BY <1>1, FS_Interval
<1>3. IsFiniteSet(Tasks \X (1..MaxNesting))
      /\ Cardinality(Tasks \X (1..MaxNesting)) = Cardinality(Tasks) * MaxNesting
  BY <1>1, <1>2, FS_Product
<1>4. IsFiniteSet(some) /\ Cardinality(some) <= Cardinality(Tasks) * MaxNesting
  BY <1>3, FS_Subset
<1> DEFINE n == Cardinality(Tasks)
           product == n * MaxNesting
           size == Cardinality(some)
<1>5. n \in Nat /\ size \in Nat
  BY <1>1, <1>4, FS_CardinalityType
<1>6. product = MaxNesting * n /\ product \in Nat
  BY <1>1, <1>5
<1>7. size <= product
  BY <1>4
<1> HIDE DEF product, size, n
<1>8. size \in 0..(MaxNesting * n)
  BY <1>5, <1>6, <1>7
<1>9. QED
  BY <1>4, <1>8 DEF size, n

LEMMA EnteredFinite ==
  ASSUME PythonConstants
  PROVE  /\ IsFiniteSet(Entered)
         /\ Cardinality(Entered) \in 0..(MaxNesting * Cardinality(Tasks))
         /\ \A c : IsFiniteSet(EnteredOf(c)) /\ Cardinality(EnteredOf(c)) \in Nat
<1>1. Entered \in SUBSET (Tasks \X (1..MaxNesting))
  BY DEF Entered
<1>2. IsFiniteSet(Entered) /\ Cardinality(Entered) \in 0..(MaxNesting * Cardinality(Tasks))
  BY <1>1, PairsFinite
<1>3. ASSUME NEW c PROVE IsFiniteSet(EnteredOf(c)) /\ Cardinality(EnteredOf(c)) \in Nat
  <2>1. EnteredOf(c) \in SUBSET Entered
    BY DEF EnteredOf
  <2>2. IsFiniteSet(EnteredOf(c))
    BY <1>2, <2>1, FS_Subset
  <2>3. QED
    BY <2>2, FS_CardinalityType
<1>4. QED
  BY <1>2, <1>3

(* While no clock is shared, the tokens of a clock are those of the blocks *)
(* of one task.                                                            *)
LEMMA OneTaskCounts ==
  ASSUME PythonConstants, PythonInv, shared = {}, NEW t \in Tasks, NEW j \in 1..Len(blocks[t]),
         j = Len(blocks[t])
  PROVE  Cardinality(EnteredOf(LevelOf(blocks[t], j))) = Cardinality(Upto(blocks[t], j))
<1> DEFINE s == blocks[t]
           c == LevelOf(s, j)
           U == Upto(s, j)
<1>1. s \in Seq(Clocks) /\ Len(s) \in Nat /\ Len(s) <= MaxNesting
  BY CountsAlike DEF PythonInv, Y!TypeOK, BlocksCounted
<1>2. EnteredOf(c) = {t} \X U
  <2>1. ASSUME NEW e \in EnteredOf(c) PROVE e \in {t} \X U
    <3>1. /\ e[1] \in Tasks /\ e[2] \in 1..MaxNesting /\ e[2] <= Len(blocks[e[1]])
          /\ LevelOf(blocks[e[1]], e[2]) = c /\ e = <<e[1], e[2]>>
      BY DEF EnteredOf, Entered
    <3>2. blocks[e[1]] \in Seq(Clocks)
      BY <3>1, CountsAlike DEF PythonInv, Y!TypeOK
    <3>3. e[2] \in 1..Len(blocks[e[1]])
      BY <3>1, <3>2
    <3>4. e[1] = t
      BY <3>1, <3>3 DEF PythonInv, TokensNest
    <3>5. e[2] \in U
      BY <1>1, <3>1, <3>3, <3>4 DEF Upto
    <3>6. QED
      BY <3>1, <3>4, <3>5
  <2>2. ASSUME NEW k \in U PROVE <<t, k>> \in EnteredOf(c)
    <3>1. k \in 1..j /\ LevelOf(s, k) = c
      BY DEF Upto
    <3>2. k \in 1..MaxNesting /\ k <= Len(s)
      BY <1>1, <3>1, PythonConstants DEF PythonConstants
    <3>3. QED
      BY <3>1, <3>2 DEF EnteredOf, Entered
  <2>3. QED
    BY <2>1, <2>2
<1>3. IsFiniteSet(U) /\ Cardinality(U) \in Nat
  BY <1>1, UptoCounts
<1>4. IsFiniteSet({t}) /\ Cardinality({t}) = 1
  BY FS_Singleton
<1>5. Cardinality({t} \X U) = Cardinality({t}) * Cardinality(U)
  BY <1>3, <1>4, FS_Product
<1>6. QED
  BY <1>2, <1>3, <1>4, <1>5

LEMMA PythonInit == ASSUME PythonConstants PROVE Y!Init => PythonInv
<1>1. SUFFICES ASSUME Y!Init PROVE PythonInv
  OBVIOUS
<1>2. <<>> \in Seq(Token) /\ Len(<<>>) = 0 /\ <<>> \in Seq(Clocks)
  OBVIOUS
<1>3. Entered = {} /\ \A c : EnteredOf(c) = {}
  BY <1>1, <1>2 DEF Y!Init, Entered, EnteredOf
<1>4. Cardinality({}) = 0
  BY FS_EmptySet
<1>5. depth \in 0..(MaxNesting * Cardinality(Tasks))
  BY <1>1, <1>3, <1>4, EnteredFinite DEF Y!Init
<1>6. Y!TypeOK
  BY <1>1, <1>2, <1>5, CountsAlike DEF Y!Init, Y!TypeOK, Token
<1>7. BlocksCounted
  <2>1. \A c \in Clocks : Len(tokens[c]) = Cardinality(EnteredOf(c))
    BY <1>1, <1>2, <1>3, <1>4 DEF Y!Init
  <2>2. \A t \in Tasks : Len(blocks[t]) <= MaxNesting
    BY <1>1, <1>2 DEF Y!Init, PythonConstants
  <2>3. QED
    BY <1>1, <1>2, <1>3, <1>4, <2>1, <2>2 DEF Y!Init, BlocksCounted
<1>8. NameIsOurs /\ TokensNest
  BY <1>1, <1>2 DEF Y!Init, NameIsOurs, TokensNest
<1>9. QED
  BY <1>6, <1>7, <1>8 DEF PythonInv

(* Blocks come and go innermost, one at a time.                            *)
LEMMA EnteredStep ==
  ASSUME PythonConstants, PythonInv, NEW t \in Tasks, NEW c \in Clocks
  PROVE  /\ Len(blocks[t]) < MaxNesting /\ blocks' = [blocks EXCEPT ![t] = <<c>> \o @] =>
              /\ Cardinality(Entered') = depth + 1
              /\ \A d \in Clocks : Cardinality(EnteredOf(d)') =
                                    IF d = c THEN Len(tokens[d]) + 1 ELSE Len(tokens[d])
         /\ blocks[t] # <<>> /\ c = Head(blocks[t]) /\ blocks' = [blocks EXCEPT ![t] = Tail(@)] =>
              /\ Cardinality(Entered') = depth - 1
              /\ \A d \in Clocks : Cardinality(EnteredOf(d)') =
                                    IF d = c THEN Len(tokens[d]) - 1 ELSE Len(tokens[d])
<1>1. /\ blocks \in [Tasks -> Seq(Clocks)] /\ MaxNesting \in Nat
      /\ depth = Cardinality(Entered)
      /\ \A d \in Clocks : Len(tokens[d]) = Cardinality(EnteredOf(d))
      /\ \A u \in Tasks : Len(blocks[u]) \in Nat /\ Len(blocks[u]) <= MaxNesting
  BY CountsAlike DEF PythonInv, Y!TypeOK, BlocksCounted, PythonConstants
<1>2. IsFiniteSet(Entered) /\ \A d : IsFiniteSet(EnteredOf(d))
  BY EnteredFinite
<1>3. ASSUME Len(blocks[t]) < MaxNesting, blocks' = [blocks EXCEPT ![t] = <<c>> \o @]
      PROVE  /\ Cardinality(Entered') = depth + 1
             /\ \A d \in Clocks : Cardinality(EnteredOf(d)') =
                                   IF d = c THEN Len(tokens[d]) + 1 ELSE Len(tokens[d])
  <2> DEFINE n == Len(blocks[t]) + 1
             e == <<t, n>>
  <2>1. /\ blocks'[t] = <<c>> \o blocks[t] /\ \A u \in Tasks \ {t} : blocks'[u] = blocks[u]
        /\ Len(blocks'[t]) = n /\ LevelOf(blocks'[t], n) = c
        /\ \A j \in 1..Len(blocks[t]) : LevelOf(blocks'[t], j) = LevelOf(blocks[t], j)
        /\ n \in 1..MaxNesting
    BY <1>1, <1>3, PushShape
  <2>2. e \notin Entered /\ e[1] = t /\ e[2] = n /\ e \in Tasks \X (1..MaxNesting)
    BY <1>1, <2>1 DEF Entered
  <2>3. ASSUME NEW x \in Tasks \X (1..MaxNesting)
        PROVE  /\ x[2] <= Len(blocks'[x[1]]) <=> x = e \/ x[2] <= Len(blocks[x[1]])
               /\ x[2] <= Len(blocks[x[1]]) => LevelOf(blocks'[x[1]], x[2]) = LevelOf(blocks[x[1]], x[2])
    <3>1. PICK u \in Tasks, k \in 1..MaxNesting : x = <<u, k>> /\ x[1] = u /\ x[2] = k
      OBVIOUS
    <3>2. CASE u # t
      BY <2>1, <3>1, <3>2
    <3>3. CASE u = t
      <4>1. Len(blocks[t]) \in Nat /\ Len(blocks'[t]) = Len(blocks[t]) + 1 /\ (x = e <=> k = n)
        BY <1>1, <2>1, <3>1, <3>3
      <4>2. k <= Len(blocks'[u]) <=> k = n \/ k <= Len(blocks[u])
        BY <3>1, <3>3, <4>1
      <4>3. k <= Len(blocks[u]) => LevelOf(blocks'[u], k) = LevelOf(blocks[u], k)
        <5>1. k <= Len(blocks[t]) => k \in 1..Len(blocks[t])
          BY <3>1, <4>1
        <5>2. k \in 1..Len(blocks[t]) => LevelOf(blocks'[t], k) = LevelOf(blocks[t], k)
          BY <2>1
        <5>3. QED
          BY <3>3, <5>1, <5>2
      <4>4. QED
        BY <3>1, <4>1, <4>2, <4>3
    <3>4. QED
      BY <3>2, <3>3
  <2> HIDE DEF n, e
  <2>4. Entered' = Entered \cup {e}
    BY <2>2, <2>3 DEF Entered
  <2>5. Cardinality(Entered') = depth + 1
    BY <1>1, <1>2, <2>2, <2>4, FS_AddElement
  <2>6. ASSUME NEW d \in Clocks
        PROVE  Cardinality(EnteredOf(d)') = IF d = c THEN Len(tokens[d]) + 1 ELSE Len(tokens[d])
    <3>1. e \notin EnteredOf(d)
      BY <2>2 DEF EnteredOf
    <3>2. LevelOf(blocks'[e[1]], e[2]) = c
      BY <2>1, <2>2
    <3>3. ASSUME NEW x \in Entered PROVE LevelOf(blocks'[x[1]], x[2]) = LevelOf(blocks[x[1]], x[2])
      BY <2>3 DEF Entered
    <3>4. EnteredOf(d)' = {x \in Entered \cup {e} : LevelOf(blocks'[x[1]], x[2]) = d}
      BY <2>4 DEF EnteredOf
    <3>5. EnteredOf(d)' = IF d = c THEN EnteredOf(d) \cup {e} ELSE EnteredOf(d)
      <4> DEFINE outer(x) == LevelOf(blocks[x[1]], x[2])
                 inner(x) == LevelOf(blocks'[x[1]], x[2])
      <4>1. /\ EnteredOf(d)' = {x \in Entered \cup {e} : inner(x) = d}
            /\ EnteredOf(d) = {x \in Entered : outer(x) = d}
        BY <3>4 DEF EnteredOf
      <4>2. inner(e) = c /\ \A x \in Entered : inner(x) = outer(x)
        BY <3>2, <3>3
      <4> HIDE DEF outer, inner
      <4>3. QED
        BY <4>1, <4>2
    <3>6. Cardinality(EnteredOf(d) \cup {e}) = Cardinality(EnteredOf(d)) + 1
      BY <1>2, <3>1, FS_AddElement
    <3>7. QED
      BY <1>1, <3>5, <3>6
  <2>7. QED
    BY <2>5, <2>6
<1>4. ASSUME blocks[t] # <<>>, c = Head(blocks[t]), blocks' = [blocks EXCEPT ![t] = Tail(@)]
      PROVE  /\ Cardinality(Entered') = depth - 1
             /\ \A d \in Clocks : Cardinality(EnteredOf(d)') =
                                   IF d = c THEN Len(tokens[d]) - 1 ELSE Len(tokens[d])
  <2> DEFINE n == Len(blocks[t])
             e == <<t, n>>
  <2>1. /\ blocks'[t] = Tail(blocks[t]) /\ \A u \in Tasks \ {t} : blocks'[u] = blocks[u]
        /\ Len(blocks'[t]) = n - 1 /\ LevelOf(blocks[t], n) = c
        /\ \A j \in 1..(n - 1) : LevelOf(blocks'[t], j) = LevelOf(blocks[t], j)
        /\ n \in 1..MaxNesting
    BY <1>1, <1>4, PopShape
  <2>2. e \in Entered /\ e[1] = t /\ e[2] = n /\ e \in Tasks \X (1..MaxNesting)
    BY <1>1, <2>1 DEF Entered
  <2>3. ASSUME NEW x \in Tasks \X (1..MaxNesting)
        PROVE  /\ x[2] <= Len(blocks'[x[1]]) <=> x # e /\ x[2] <= Len(blocks[x[1]])
               /\ x[2] <= Len(blocks'[x[1]]) => LevelOf(blocks'[x[1]], x[2]) = LevelOf(blocks[x[1]], x[2])
    <3>1. PICK u \in Tasks, k \in 1..MaxNesting : x = <<u, k>> /\ x[1] = u /\ x[2] = k
      OBVIOUS
    <3>2. CASE u # t
      BY <2>1, <3>1, <3>2
    <3>3. CASE u = t
      <4>1. Len(blocks[t]) \in Nat /\ Len(blocks'[t]) = Len(blocks[t]) - 1 /\ (x = e <=> k = n)
        BY <1>1, <2>1, <3>1, <3>3
      <4>2. k <= Len(blocks'[u]) <=> k # n /\ k <= Len(blocks[u])
        BY <3>1, <3>3, <4>1
      <4>3. k <= Len(blocks'[u]) => LevelOf(blocks'[u], k) = LevelOf(blocks[u], k)
        <5>1. k <= Len(blocks'[t]) => k \in 1..(n - 1)
          BY <3>1, <4>1
        <5>2. k \in 1..(n - 1) => LevelOf(blocks'[t], k) = LevelOf(blocks[t], k)
          BY <2>1
        <5>3. QED
          BY <3>3, <5>1, <5>2
      <4>4. QED
        BY <3>1, <4>1, <4>2, <4>3
    <3>4. QED
      BY <3>2, <3>3
  <2> HIDE DEF n, e
  <2>4. Entered' = Entered \ {e}
    BY <2>2, <2>3 DEF Entered
  <2>5. Cardinality(Entered') = depth - 1
    BY <1>1, <1>2, <2>2, <2>4, FS_RemoveElement
  <2>6. ASSUME NEW d \in Clocks
        PROVE  Cardinality(EnteredOf(d)') = IF d = c THEN Len(tokens[d]) - 1 ELSE Len(tokens[d])
    <3>1. LevelOf(blocks[e[1]], e[2]) = c
      BY <2>1, <2>2
    <3>2. e \in EnteredOf(d) <=> d = c
      BY <2>2, <3>1 DEF EnteredOf
    <3>3. EnteredOf(d)' = EnteredOf(d) \ {e}
      BY <2>2, <2>3, <2>4 DEF EnteredOf, Entered
    <3>4. QED
      BY <1>1, <1>2, <3>2, <3>3, FS_RemoveElement
  <2>7. QED
    BY <2>5, <2>6
<1>5. QED
  BY <1>3, <1>4

LEMMA PythonEnter ==
  ASSUME PythonConstants, PythonInv, NEW t \in Tasks, NEW c \in Clocks, Y!Enter(t, c)
  PROVE  PythonInv'
<1> DEFINE n == Len(blocks[t]) + 1
           token == [task |-> t, old |-> active[t]]
<1>1. Y!TypeOK /\ BlocksCounted /\ NameIsOurs /\ TokensNest
  BY DEF PythonInv
<1>2. /\ blocks \in [Tasks -> Seq(Clocks)] /\ active \in [Tasks -> Clocks \cup {None}]
      /\ tokens \in [Clocks -> Seq(Token)] /\ depth \in Nat /\ MaxNesting \in Nat
      /\ n \in Nat /\ n <= MaxNesting /\ Len(blocks[t]) \in Nat
  <2>1. depth \in Nat
    BY <1>1, EnteredFinite DEF BlocksCounted
  <2>2. QED
    BY <1>1, <2>1, CountsAlike DEF Y!TypeOK, BlocksCounted, Y!Enter, PythonConstants
<1>3. /\ tokens' = [tokens EXCEPT ![c] = Append(@, token)]
      /\ active' = [active EXCEPT ![t] = c]
      /\ blocks' = [blocks EXCEPT ![t] = <<c>> \o @]
      /\ shared' = IF \E u \in Tasks \ {t} : c \in Y!Range(blocks[u]) THEN shared \cup {c} ELSE shared
      /\ overlaid' = overlaid /\ depth' = depth + 1
      /\ patched' = IF depth = 0 THEN <<"ours">> ELSE patched
  BY DEF Y!Enter, Y!InstallPatches
<1>4. token \in Token /\ token.task = t /\ token.old = active[t]
  BY <1>2 DEF Token
<1>5. /\ blocks'[t] = <<c>> \o blocks[t] /\ \A u \in Tasks \ {t} : blocks'[u] = blocks[u]
      /\ blocks'[t] \in Seq(Clocks) /\ Len(blocks'[t]) = n
      /\ blocks'[t] # <<>> /\ Head(blocks'[t]) = c
      /\ LevelOf(blocks'[t], n) = c
      /\ \A j \in 1..Len(blocks[t]) : LevelOf(blocks'[t], j) = LevelOf(blocks[t], j)
  BY <1>2, <1>3, PushShape
<1> HIDE DEF token
<1>6. /\ tokens'[c] = Append(tokens[c], token) /\ tokens'[c] \in Seq(Token)
      /\ Len(tokens'[c]) = Len(tokens[c]) + 1 /\ tokens'[c][Len(tokens[c]) + 1] = token
      /\ \A i \in 1..Len(tokens[c]) : tokens'[c][i] = tokens[c][i]
      /\ \A d \in Clocks \ {c} : tokens'[d] = tokens[d]
      /\ tokens' \in [Clocks -> Seq(Token)]
  BY <1>2, <1>3, <1>4
<1>7. /\ Cardinality(Entered') = depth'
      /\ \A d \in Clocks : Cardinality(EnteredOf(d)') = Len(tokens'[d])
  BY <1>2, <1>3, <1>6, EnteredStep DEF Y!Enter
<1>8. BlocksCounted'
  <2>1. \A u \in Tasks : Len(blocks'[u]) <= MaxNesting
    BY <1>1, <1>2, <1>5 DEF BlocksCounted
  <2>2. QED
    BY <1>6, <1>7, <2>1 DEF BlocksCounted
<1>9. depth' \in 0..(MaxNesting * Cardinality(Tasks))
  <2>1. Entered' \in SUBSET (Tasks \X (1..MaxNesting))
    BY DEF Entered
  <2>3. Cardinality(Entered') \in 0..(MaxNesting * Cardinality(Tasks))
    BY <2>1, PairsFinite
  <2>4. QED
    BY <1>7, <2>3
<1>10. Y!TypeOK'
  <2>1. blocks' \in [Tasks -> Seq(Clocks)] /\ active' \in [Tasks -> Clocks \cup {None}]
    BY <1>2, <1>3, <1>5
  <2>2. patched' \in {<<>>, <<"ours">>, <<"other">>, <<"other", "ours">>}
    BY <1>1, <1>3, CountsAlike DEF Y!TypeOK
  <2>3. shared' \subseteq Clocks /\ overlaid' \in BOOLEAN
    BY <1>1, <1>3, CountsAlike DEF Y!TypeOK
  <2>4. \A d \in Clocks : tokens'[d] \in Seq([task : Tasks, old : Clocks \cup {None}])
    BY <1>6 DEF Token
  <2>5. QED
    BY <1>9, <2>1, <2>2, <2>3, <2>4, CountsAlike DEF Y!TypeOK
<1>11. NameIsOurs'
  <2>1. "ours" \in Y!Range(<<"ours">>)
    BY DEF Y!Range
  <2>2. QED
    BY <1>1, <1>2, <1>3, <2>1 DEF NameIsOurs
<1>12. TokensNest'
  <2>1. SUFFICES ASSUME shared' = {}
        PROVE  /\ \A v, u \in Tasks : \A j \in 1..Len(blocks'[v]), k \in 1..Len(blocks'[u]) :
                    LevelOf(blocks'[v], j) = LevelOf(blocks'[u], k) => v = u
               /\ \A v \in Tasks : \A j \in 1..Len(blocks'[v]) :
                    LET tok == tokens'[LevelOf(blocks'[v], j)][Cardinality(Upto(blocks'[v], j))]
                    IN tok.task = v /\ (j > 1 => tok.old = LevelOf(blocks'[v], j - 1))
               /\ \A v \in Tasks : blocks'[v] # <<>> => active'[v] = Head(blocks'[v])
    BY DEF TokensNest
  <2>2. shared = {} /\ \A u \in Tasks \ {t} : c \notin Y!Range(blocks[u])
    BY <1>3, <2>1
  <2>3. ASSUME NEW u \in Tasks \ {t}, NEW k \in 1..Len(blocks[u]) PROVE LevelOf(blocks[u], k) # c
    BY <1>2, <2>2 DEF LevelOf, Y!Range
  <2>4. /\ \A v, u \in Tasks : \A j \in 1..Len(blocks[v]), k \in 1..Len(blocks[u]) :
             LevelOf(blocks[v], j) = LevelOf(blocks[u], k) => v = u
        /\ \A v \in Tasks : \A j \in 1..Len(blocks[v]) :
             LET tok == tokens[LevelOf(blocks[v], j)][Cardinality(Upto(blocks[v], j))]
             IN tok.task = v /\ (j > 1 => tok.old = LevelOf(blocks[v], j - 1))
        /\ \A v \in Tasks : blocks[v] # <<>> => active[v] = Head(blocks[v])
    BY <1>1, <2>2 DEF TokensNest
  <2>5. ASSUME NEW v \in Tasks, NEW j \in 1..Len(blocks'[v])
        PROVE  \/ v = t /\ j = n /\ LevelOf(blocks'[v], j) = c
               \/ j \in 1..Len(blocks[v]) /\ LevelOf(blocks'[v], j) = LevelOf(blocks[v], j)
    <3>1. CASE v # t
      BY <1>5, <3>1
    <3>2. CASE v = t /\ j = n
      BY <1>5, <3>2
    <3>3. CASE v = t /\ j # n
      <4>1. j \in 1..n
        BY <1>5, <3>3
      <4>2. j \in 1..Len(blocks[t])
        <5> DEFINE len == Len(blocks[t])
        <5>1. len \in Nat /\ j # len + 1 /\ j \in 1..(len + 1)
          BY <1>2, <3>3, <4>1
        <5> HIDE DEF len
        <5>2. j \in 1..len
          BY <5>1
        <5>3. QED
          BY <5>2 DEF len
      <4>3. QED
        BY <1>5, <3>3, <4>2
    <3>4. QED
      BY <3>1, <3>2, <3>3
  <2>6. ASSUME NEW v \in Tasks, NEW u \in Tasks,
               NEW j \in 1..Len(blocks'[v]), NEW k \in 1..Len(blocks'[u]),
               LevelOf(blocks'[v], j) = LevelOf(blocks'[u], k)
        PROVE  v = u
    BY <2>3, <2>4, <2>5, <2>6
  <2>7. Cardinality(Upto(blocks'[t], n)) = Len(tokens'[c])
    <3>1. Y!TypeOK' /\ BlocksCounted'
      BY <1>8, <1>10
    <3>2. LET s == blocks'[t] IN s \in Seq(Clocks) /\ n \in 1..Len(s) /\ n = Len(s)
      BY <1>2, <1>5
    <3> DEFINE U == Upto(blocks'[t], n)
    <3>3. EnteredOf(c)' = {t} \X U
      <4>1. ASSUME NEW e \in EnteredOf(c)' PROVE e \in {t} \X U
        <5>1. PICK v \in Tasks, k \in 1..MaxNesting :
                e = <<v, k>> /\ k <= Len(blocks'[v]) /\ LevelOf(blocks'[v], k) = c
          BY <4>1 DEF EnteredOf, Entered
        <5>2. k \in 1..Len(blocks'[v])
          BY <1>2, <1>5, <5>1
        <5>3. v = t
          BY <2>3, <2>5, <5>1, <5>2
        <5>4. k \in 1..n /\ LevelOf(blocks'[t], k) = LevelOf(blocks'[t], n)
          BY <1>5, <5>1, <5>2, <5>3
        <5>5. QED
          BY <5>1, <5>3, <5>4 DEF Upto
      <4>2. ASSUME NEW k \in U PROVE <<t, k>> \in EnteredOf(c)'
        <5>1. k \in 1..n /\ LevelOf(blocks'[t], k) = c
          BY <1>5 DEF Upto
        <5>2. k \in 1..MaxNesting /\ k <= Len(blocks'[t])
          BY <1>2, <1>5, <5>1
        <5>3. QED
          BY <5>1, <5>2 DEF EnteredOf, Entered
      <4>3. QED
        BY <4>1, <4>2
    <3>4. IsFiniteSet(U) /\ Cardinality(U) \in Nat
      BY <1>2, UptoCounts
    <3>5. IsFiniteSet({t}) /\ Cardinality({t}) = 1
      BY FS_Singleton
    <3>6. Cardinality({t} \X U) = Cardinality({t}) * Cardinality(U)
      BY <3>4, <3>5, FS_Product
    <3>7. Cardinality({t} \X U) = Cardinality(U)
      BY <3>4, <3>5, <3>6
    <3>8. Cardinality(EnteredOf(c)') = Len(tokens'[c])
      BY <1>7
    <3> HIDE DEF U
    <3>9. QED
      BY <3>3, <3>7, <3>8 DEF U
  <2>8. ASSUME NEW v \in Tasks, NEW j \in 1..Len(blocks'[v])
        PROVE  LET tok == tokens'[LevelOf(blocks'[v], j)][Cardinality(Upto(blocks'[v], j))]
               IN tok.task = v /\ (j > 1 => tok.old = LevelOf(blocks'[v], j - 1))
    <3>1. CASE v = t /\ j = n
      <4>1. tokens'[LevelOf(blocks'[v], j)][Cardinality(Upto(blocks'[v], j))] = token
        BY <1>5, <1>6, <2>7, <3>1
      <4>2. ASSUME j > 1 PROVE token.old = LevelOf(blocks'[v], j - 1)
        <5>1. blocks[t] # <<>> /\ Len(blocks[t]) = j - 1
          BY <1>2, <3>1, <4>2
        <5>2. Head(blocks[t]) = LevelOf(blocks[t], j - 1)
          BY <1>2, <5>1, PopShape
        <5>3. LevelOf(blocks'[t], j - 1) = LevelOf(blocks[t], j - 1)
          <6>1. j - 1 \in 1..Len(blocks[t])
            BY <1>2, <3>1, <4>2
          <6>2. QED
            BY <1>5, <6>1
        <5>4. QED
          BY <1>4, <2>4, <3>1, <5>1, <5>2, <5>3
      <4>3. QED
        BY <1>4, <3>1, <4>1, <4>2
    <3>2. CASE ~(v = t /\ j = n)
      <4>1. j \in 1..Len(blocks[v]) /\ LevelOf(blocks'[v], j) = LevelOf(blocks[v], j)
        BY <2>5, <3>2
      <4>2. \A k \in 1..j : LevelOf(blocks'[v], k) = LevelOf(blocks[v], k)
        <5>1. \A k \in 1..j : k \in 1..Len(blocks[v])
          BY <1>2, <4>1
        <5>2. QED
          BY <1>5, <5>1
      <4>9. blocks'[v] \in Seq(Clocks) /\ blocks[v] \in Seq(Clocks) /\ j \in Nat \ {0}
        <5>1. blocks[v] \in Seq(Clocks) /\ blocks'[v] \in Seq(Clocks)
          BY <1>2, <1>5
        <5>2. j \in Nat \ {0}
          BY <4>1, <5>1
        <5>3. QED
          BY <5>1, <5>2
      <4>3. Upto(blocks'[v], j) = Upto(blocks[v], j)
        BY <4>2, <4>9, UptoKept
      <4> DEFINE d == LevelOf(blocks[v], j)
                 p == Cardinality(Upto(blocks[v], j))
      <4>4. d \in Clocks
        BY <1>2, <4>1 DEF LevelOf
      <4>5. p \in 1..Len(tokens[d])
        <5>1. p \in 1..j
          BY <4>9, UptoCounts
        <5>2. {v} \X Upto(blocks[v], j) \in SUBSET EnteredOf(d)
          <6>1. ASSUME NEW k \in Upto(blocks[v], j) PROVE <<v, k>> \in EnteredOf(d)
            <7>1. k \in 1..j /\ LevelOf(blocks[v], k) = d
              BY DEF Upto
            <7>2. k \in 1..MaxNesting /\ k <= Len(blocks[v])
              BY <1>1, <1>2, <4>1, <7>1 DEF BlocksCounted
            <7>3. QED
              BY <7>1, <7>2 DEF EnteredOf, Entered
          <6>2. QED
            BY <6>1
        <5>3. IsFiniteSet(Upto(blocks[v], j)) /\ IsFiniteSet({v}) /\ Cardinality({v}) = 1
          BY <4>9, UptoCounts, FS_Singleton
        <5>4. Cardinality({v} \X Upto(blocks[v], j)) = Cardinality({v}) * p
          BY <5>3, FS_Product
        <5>5. IsFiniteSet(EnteredOf(d)) /\ Cardinality(EnteredOf(d)) \in Nat
          BY EnteredFinite
        <5>6. Cardinality({v} \X Upto(blocks[v], j)) <= Cardinality(EnteredOf(d))
          BY <5>2, <5>5, FS_Subset
        <5>7. Len(tokens[d]) = Cardinality(EnteredOf(d))
          BY <1>1, <4>4 DEF BlocksCounted
        <5>8. QED
          BY <1>2, <4>1, <5>1, <5>3, <5>4, <5>5, <5>6, <5>7
      <4>6. tokens'[d][p] = tokens[d][p]
        BY <1>6, <4>4, <4>5
      <4>7. j > 1 => j - 1 \in 1..j /\ LevelOf(blocks'[v], j - 1) = LevelOf(blocks[v], j - 1)
        BY <1>2, <4>1, <4>2
      <4>8. QED
        BY <2>4, <4>1, <4>3, <4>6, <4>7
    <3>3. QED
      BY <3>1, <3>2
  <2>9. ASSUME NEW v \in Tasks, blocks'[v] # <<>> PROVE active'[v] = Head(blocks'[v])
    BY <1>2, <1>3, <1>5, <2>4, <2>9
  <2>10. QED
    BY <2>6, <2>8, <2>9
<1>13. QED
  BY <1>8, <1>10, <1>11, <1>12 DEF PythonInv

LEMMA PythonExit ==
  ASSUME PythonConstants, PythonInv, NEW t \in Tasks, Y!Exit(t) PROVE PythonInv'
<1> DEFINE n == Len(blocks[t])
           c == Head(blocks[t])
           token == Y!Last(tokens[c])
<1>1. Y!TypeOK /\ BlocksCounted /\ NameIsOurs /\ TokensNest
  BY DEF PythonInv
<1>2. /\ blocks \in [Tasks -> Seq(Clocks)] /\ active \in [Tasks -> Clocks \cup {None}]
      /\ tokens \in [Clocks -> Seq(Token)] /\ depth \in Nat /\ MaxNesting \in Nat
      /\ blocks[t] # <<>>
  <2>1. depth \in Nat
    BY <1>1, EnteredFinite DEF BlocksCounted
  <2>2. QED
    BY <1>1, <2>1, CountsAlike DEF Y!TypeOK, BlocksCounted, Y!Exit, PythonConstants
<1>3. /\ tokens' = [tokens EXCEPT ![c] = Y!Front(@)]
      /\ active' = IF token.task = t THEN [active EXCEPT ![t] = token.old] ELSE active
      /\ blocks' = [blocks EXCEPT ![t] = Tail(@)]
      /\ shared' = shared /\ overlaid' = overlaid /\ depth' = depth - 1
      /\ patched' = IF depth = 1 /\ patched # <<>> /\ Head(patched) = "ours" THEN <<>> ELSE patched
  BY DEF Y!Exit, Y!RemovePatches
<1>4. /\ blocks'[t] = Tail(blocks[t]) /\ \A u \in Tasks \ {t} : blocks'[u] = blocks[u]
      /\ blocks'[t] \in Seq(Clocks) /\ Len(blocks'[t]) = n - 1 /\ n > 0 /\ n \in Nat
      /\ c \in Clocks /\ c = LevelOf(blocks[t], n)
      /\ \A j \in 1..(n - 1) : LevelOf(blocks'[t], j) = LevelOf(blocks[t], j)
      /\ blocks'[t] # <<>> => n > 1 /\ Head(blocks'[t]) = LevelOf(blocks[t], n - 1)
  BY <1>2, <1>3, PopShape
<1> HIDE DEF n, c
<1>5. /\ Cardinality(Entered') = depth'
      /\ \A d \in Clocks : Cardinality(EnteredOf(d)') =
                            IF d = c THEN Len(tokens[d]) - 1 ELSE Len(tokens[d])
  BY <1>2, <1>3, <1>4, EnteredStep DEF c
<1>6. depth' \in 0..(MaxNesting * Cardinality(Tasks)) /\ Len(tokens[c]) - 1 \in Nat
  <2>1. Entered' \in SUBSET (Tasks \X (1..MaxNesting))
    BY DEF Entered
  <2>2. IsFiniteSet(Entered') /\ Cardinality(Entered') \in 0..(MaxNesting * Cardinality(Tasks))
    BY <2>1, PairsFinite
  <2>6. Len(tokens[c]) - 1 \in Nat
    <3>1. ASSUME NEW d \in Clocks, d = c PROVE Len(tokens[d]) - 1 \in Nat
      <4>1. EnteredOf(d)' \in SUBSET Entered'
        BY DEF EnteredOf
      <4>2. IsFiniteSet(EnteredOf(d)')
        BY <2>2, <4>1, FS_Subset
      <4>3. Cardinality(EnteredOf(d)') \in Nat
        BY <4>2, FS_CardinalityType
      <4>4. QED
        BY <1>5, <3>1, <4>3
    <3>2. QED
      BY <1>4, <3>1
  <2>7. depth' \in 0..(MaxNesting * Cardinality(Tasks))
    BY <1>5, <2>2
  <2>8. QED
    BY <2>6, <2>7
<1>7. /\ tokens'[c] \in Seq(Token) /\ Len(tokens'[c]) = Len(tokens[c]) - 1
      /\ \A i \in 1..(Len(tokens[c]) - 1) : tokens'[c][i] = tokens[c][i]
      /\ \A d \in Clocks \ {c} : tokens'[d] = tokens[d]
      /\ tokens' \in [Clocks -> Seq(Token)]
      /\ token \in Token /\ token = tokens[c][Len(tokens[c])]
  <2> DEFINE s == tokens[c]
  <2>1. s \in Seq(Token) /\ Len(s) - 1 \in Nat
    BY <1>2, <1>4, <1>6
  <2>2. /\ Y!Front(s) \in Seq(Token) /\ Len(Y!Front(s)) = Len(s) - 1
        /\ \A i \in 1..(Len(s) - 1) : Y!Front(s)[i] = s[i]
        /\ Y!Last(s) \in Token /\ Y!Last(s) = s[Len(s)]
    BY <2>1 DEF Y!Front, Y!Last
  <2>3. tokens'[c] = Y!Front(s) /\ \A d \in Clocks \ {c} : tokens'[d] = tokens[d]
    BY <1>2, <1>3, <1>4
  <2>4. tokens' \in [Clocks -> Seq(Token)]
    BY <1>2, <1>3, <2>2
  <2> HIDE DEF s
  <2>5. token = Y!Last(s)
    BY DEF s
  <2>6. QED
    BY <2>2, <2>3, <2>4, <2>5 DEF s
<1> HIDE DEF token
<1>8. BlocksCounted'
  <2>1. \A u \in Tasks : Len(blocks'[u]) <= MaxNesting
    <3>1. \A u \in Tasks : Len(blocks[u]) <= MaxNesting
      BY <1>1 DEF BlocksCounted
    <3>2. n <= MaxNesting
      BY <3>1 DEF n
    <3>3. n - 1 <= MaxNesting
      BY <1>2, <1>4, <3>2
    <3>4. QED
      BY <1>4, <3>1, <3>3
  <2>2. \A d \in Clocks : Len(tokens'[d]) = Cardinality(EnteredOf(d)')
    BY <1>5, <1>7
  <2>3. QED
    BY <1>5, <1>7, <2>1, <2>2 DEF BlocksCounted
<1>9. Y!TypeOK'
  <2>1. blocks' \in [Tasks -> Seq(Clocks)]
    BY <1>2, <1>3, <1>4
  <2>2. patched' \in {<<>>, <<"ours">>, <<"other">>, <<"other", "ours">>}
    BY <1>1, <1>3, CountsAlike DEF Y!TypeOK
  <2>3. shared' \subseteq Clocks /\ overlaid' \in BOOLEAN
    BY <1>1, <1>3, CountsAlike DEF Y!TypeOK
  <2>4. \A d \in Clocks : tokens'[d] \in Seq([task : Tasks, old : Clocks \cup {None}])
    BY <1>7 DEF Token
  <2>5. active' \in [Tasks -> Clocks \cup {None}]
    BY <1>2, <1>3, <1>7 DEF Token
  <2>6. QED
    BY <1>6, <2>1, <2>2, <2>3, <2>4, <2>5, CountsAlike DEF Y!TypeOK
<1>10. NameIsOurs'
  <2>1. /\ depth > 0 => "ours" \in Y!Range(patched)
        /\ ~overlaid => patched = IF depth = 0 THEN <<>> ELSE <<"ours">>
    BY <1>1 DEF NameIsOurs
  <2>2. depth' \in Nat /\ depth = depth' + 1
    BY <1>2, <1>3, <1>6
  <2>6. depth # 0
    <3>1. depth \in Nat /\ depth - 1 \in Nat
      BY <1>2, <1>3, <2>2
    <3>2. QED
      BY ONLY <3>1
  <2>3. depth' > 0 => "ours" \in Y!Range(patched')
    BY <1>3, <2>1, <2>2
  <2>4. ASSUME ~overlaid PROVE patched' = IF depth' = 0 THEN <<>> ELSE <<"ours">>
    <3>1. patched = <<"ours">>
      BY <2>1, <2>4, <2>6
    <3>2. patched # <<>> /\ Head(patched) = "ours"
      BY <3>1
    <3>3. QED
      BY <1>3, <2>2, <3>1, <3>2
  <2>5. QED
    BY <1>3, <2>3, <2>4 DEF NameIsOurs
<1>11. TokensNest'
  <2>1. SUFFICES ASSUME shared = {}
        PROVE  /\ \A v, u \in Tasks : \A j \in 1..Len(blocks'[v]), k \in 1..Len(blocks'[u]) :
                    LevelOf(blocks'[v], j) = LevelOf(blocks'[u], k) => v = u
               /\ \A v \in Tasks : \A j \in 1..Len(blocks'[v]) :
                    LET tok == tokens'[LevelOf(blocks'[v], j)][Cardinality(Upto(blocks'[v], j))]
                    IN tok.task = v /\ (j > 1 => tok.old = LevelOf(blocks'[v], j - 1))
               /\ \A v \in Tasks : blocks'[v] # <<>> => active'[v] = Head(blocks'[v])
    BY <1>3 DEF TokensNest
  <2>2. /\ \A v, u \in Tasks : \A j \in 1..Len(blocks[v]), k \in 1..Len(blocks[u]) :
             LevelOf(blocks[v], j) = LevelOf(blocks[u], k) => v = u
        /\ \A v \in Tasks : \A j \in 1..Len(blocks[v]) :
             LET tok == tokens[LevelOf(blocks[v], j)][Cardinality(Upto(blocks[v], j))]
             IN tok.task = v /\ (j > 1 => tok.old = LevelOf(blocks[v], j - 1))
        /\ \A v \in Tasks : blocks[v] # <<>> => active[v] = Head(blocks[v])
    BY <1>1, <2>1 DEF TokensNest
  <2>3. ASSUME NEW v \in Tasks, NEW j \in 1..Len(blocks'[v])
        PROVE  /\ j \in 1..Len(blocks[v]) /\ j \in Nat \ {0} /\ (v = t => j < n)
               /\ LevelOf(blocks'[v], j) = LevelOf(blocks[v], j)
    <3>1. CASE v # t
      <4>1. blocks'[v] = blocks[v] /\ blocks[v] \in Seq(Clocks)
        BY <1>2, <1>4, <3>1
      <4>2. QED
        BY <3>1, <4>1
    <3>2. CASE v = t
      <4>1. j \in 1..(n - 1) /\ n \in Nat
        BY <1>4, <3>2
      <4>2. j \in 1..n /\ j \in Nat \ {0} /\ j < n
        BY <4>1
      <4>3. QED
        BY <1>4, <3>2, <4>1, <4>2 DEF n
    <3>3. QED
      BY <3>1, <3>2
  <2>4. Cardinality(Upto(blocks[t], n)) = Len(tokens[c])
    <3>1. n \in 1..Len(blocks[t])
      BY <1>4 DEF n
    <3>2. Cardinality(EnteredOf(LevelOf(blocks[t], n))) = Cardinality(Upto(blocks[t], n))
      BY <2>1, <3>1, OneTaskCounts DEF n
    <3>3. QED
      BY <1>1, <1>4, <3>2 DEF BlocksCounted
  <2>5. token.task = t /\ (n > 1 => token.old = LevelOf(blocks[t], n - 1))
    <3>1. n \in 1..Len(blocks[t])
      BY <1>4 DEF n
    <3>2. QED
      BY <1>4, <1>7, <2>2, <2>4, <3>1
  <2>6. ASSUME NEW v \in Tasks, NEW u \in Tasks,
               NEW j \in 1..Len(blocks'[v]), NEW k \in 1..Len(blocks'[u]),
               LevelOf(blocks'[v], j) = LevelOf(blocks'[u], k)
        PROVE  v = u
    <3>1. j \in 1..Len(blocks[v]) /\ k \in 1..Len(blocks[u])
      BY <2>3
    <3>2. LevelOf(blocks[v], j) = LevelOf(blocks[u], k)
      BY <2>3, <2>6
    <3>3. QED
      BY <2>2, <3>1, <3>2
  <2>7. ASSUME NEW v \in Tasks, NEW j \in 1..Len(blocks'[v])
        PROVE  LET tok == tokens'[LevelOf(blocks'[v], j)][Cardinality(Upto(blocks'[v], j))]
               IN tok.task = v /\ (j > 1 => tok.old = LevelOf(blocks'[v], j - 1))
    <3> DEFINE d == LevelOf(blocks[v], j)
               p == Cardinality(Upto(blocks[v], j))
    <3>1. j \in 1..Len(blocks[v]) /\ j \in Nat \ {0} /\ LevelOf(blocks'[v], j) = d
      BY <2>3
    <3>2. \A k \in 1..j : k \in 1..Len(blocks'[v])
      BY <3>1
    <3>3. \A k \in 1..j : LevelOf(blocks'[v], k) = LevelOf(blocks[v], k)
      BY <2>3, <3>2
    <3>4. blocks'[v] \in Seq(Clocks) /\ blocks[v] \in Seq(Clocks)
      BY <1>2, <1>4
    <3>5. Upto(blocks'[v], j) = Upto(blocks[v], j)
      BY <3>1, <3>3, <3>4, UptoKept
    <3>6. d \in Clocks /\ p \in Nat \ {0}
      <4>1. p \in 1..j
        BY <3>1, UptoCounts
      <4>2. QED
        BY <3>1, <3>4, <4>1 DEF LevelOf
    <3>7. tokens'[d][p] = tokens[d][p]
      <4>1. CASE d # c
        BY <1>7, <3>6, <4>1
      <4>2. CASE d = c
        <5>1. v = t
          <6>1. n \in 1..Len(blocks[t]) /\ LevelOf(blocks[v], j) = LevelOf(blocks[t], n)
            BY <1>4, <4>2 DEF n
          <6>2. QED
            BY <2>2, <3>1, <6>1
        <5>2. j \in 1..(n - 1) /\ n \in Nat \ {0}
          BY <1>4, <2>3, <5>1
        <5>3. LevelOf(blocks[t], j) = LevelOf(blocks[t], n)
          BY <1>4, <4>2, <5>1
        <5>4. p < Cardinality(Upto(blocks[t], n))
          BY <5>1, <5>2, <5>3, UptoCounts
        <5>5. p \in 1..(Len(tokens[c]) - 1)
          BY <1>6, <2>4, <3>6, <5>4
        <5>6. QED
          BY <1>7, <4>2, <5>5
      <4>3. QED
        BY <4>1, <4>2
    <3>8. j > 1 => LevelOf(blocks'[v], j - 1) = LevelOf(blocks[v], j - 1)
      BY <3>1, <3>3
    <3>9. QED
      BY <2>2, <3>1, <3>5, <3>7, <3>8
  <2>8. ASSUME NEW v \in Tasks, blocks'[v] # <<>> PROVE active'[v] = Head(blocks'[v])
    BY <1>2, <1>3, <1>4, <2>2, <2>5, <2>8
  <2>9. QED
    BY <2>6, <2>7, <2>8
<1>12. QED
  BY <1>8, <1>9, <1>10, <1>11 DEF PythonInv

(* Other code on top of nothing, or of the patch.                          *)
LEMMA OverlayShape ==
  <<"other">> \o <<>> = <<"other">> /\ <<"other">> \o <<"ours">> = <<"other", "ours">>
<1> DEFINE mine == {"other", "ours"}
           a == <<"other">>
           b == <<"ours">>
           t == <<"other", "ours">>
<1>1. a \in Seq(mine) /\ b \in Seq(mine) /\ t \in Seq(mine)
  OBVIOUS
<1>2. Len(a) = 1 /\ Len(b) = 1 /\ Len(t) = 2 /\ a[1] = "other" /\ b[1] = "ours" /\ t[1] = "other" /\ t[2] = "ours"
  OBVIOUS
<1> HIDE DEF a, b, t, mine
<1>3. a \o b \in Seq(mine) /\ Len(a \o b) = 2 /\ (a \o b)[1] = "other" /\ (a \o b)[2] = "ours"
  <2>1. a \o b \in Seq(mine) /\ Len(a \o b) = Len(a) + Len(b)
    BY <1>1, ConcatProperties
  <2>2. \A i \in 1..2 : (a \o b)[i] = IF i <= Len(a) THEN a[i] ELSE b[i - Len(a)]
    BY <1>1, <1>2, <2>1, ConcatProperties
  <2>3. (a \o b)[1] = a[1] /\ (a \o b)[2] = b[1]
    BY <1>2, <2>2
  <2>4. QED
    BY <1>2, <2>1, <2>3
<1>4. a \o b = t
  <2>1. \A i \in 1..2 : (a \o b)[i] = t[i]
    BY <1>2, <1>3
  <2>2. QED
    BY <1>1, <1>2, <1>3, <2>1, SeqEqual
<1>5. a \o <<>> = a
  BY <1>1, ConcatEmptySeq
<1>6. QED
  BY <1>4, <1>5 DEF a, b, t

LEMMA PythonStep == ASSUME PythonConstants PROVE PythonInv /\ [Y!Next]_Y!pythonVars => PythonInv'
<1>1. SUFFICES ASSUME PythonInv, [Y!Next]_Y!pythonVars PROVE PythonInv'
  OBVIOUS
<1>2. Y!TypeOK /\ BlocksCounted /\ NameIsOurs /\ TokensNest
  BY <1>1 DEF PythonInv
<1>3. ASSUME NEW t \in Tasks, Y!Exit(t) PROVE PythonInv'
  BY <1>1, <1>3, PythonExit
<1>4. ASSUME NEW t \in Tasks, NEW c \in Clocks, Y!Enter(t, c) PROVE PythonInv'
  BY <1>1, <1>4, PythonEnter
<1>5. ASSUME UNCHANGED <<depth, tokens, blocks, shared>> PROVE BlocksCounted'
  BY <1>2, <1>5 DEF BlocksCounted, Entered, EnteredOf
<1>6. ASSUME NEW t \in Tasks, NEW u \in Tasks, Y!CreateTask(t, u) PROVE PythonInv'
  <2>1. UNCHANGED <<patched, depth, tokens, blocks, shared, overlaid>>
        /\ active' = [active EXCEPT ![u] = active[t]] /\ blocks[u] = <<>>
    BY <1>6 DEF Y!CreateTask
  <2>2. Y!TypeOK'
    BY <1>2, <2>1, CountsAlike DEF Y!TypeOK
  <2>3. NameIsOurs'
    BY <1>2, <2>1 DEF NameIsOurs
  <2>4. \A v \in Tasks : blocks[v] # <<>> => active'[v] = active[v]
    BY <1>2, <2>1, CountsAlike DEF Y!TypeOK
  <2>5. TokensNest'
    BY <1>2, <2>1, <2>4 DEF TokensNest
  <2>6. QED
    BY <1>5, <2>1, <2>2, <2>3, <2>5 DEF PythonInv
<1>7. ASSUME UNCHANGED <<depth, active, tokens, blocks, shared>> PROVE TokensNest'
  BY <1>2, <1>7 DEF TokensNest
<1>8. CASE Y!Overlay
  <2>1. UNCHANGED <<depth, active, tokens, blocks, shared>> /\ overlaid' = TRUE
        /\ patched' = <<"other">> \o patched /\ "other" \notin Y!Range(patched)
    BY <1>8 DEF Y!Overlay
  <2>2. \/ patched = <<>> /\ patched' = <<"other">>
        \/ patched = <<"ours">> /\ patched' = <<"other", "ours">>
    <3>1. "other" \in Y!Range(<<"other">>) /\ "other" \in Y!Range(<<"other", "ours">>)
      BY DEF Y!Range
    <3>3. patched \in {<<>>, <<"ours">>, <<"other">>, <<"other", "ours">>}
      BY <1>2, CountsAlike DEF Y!TypeOK
    <3>4. QED
      BY <2>1, <3>1, <3>3, OverlayShape
  <2>3. "ours" \notin Y!Range(<<>>) /\ "ours" \in Y!Range(<<"other", "ours">>)
    BY DEF Y!Range
  <2>4. Y!TypeOK' /\ NameIsOurs'
    BY <1>2, <2>1, <2>2, <2>3, CountsAlike DEF Y!TypeOK, NameIsOurs
  <2>5. QED
    BY <1>5, <1>7, <2>1, <2>4 DEF PythonInv
<1>9. CASE Y!Unlay
  <2>1. UNCHANGED <<depth, active, tokens, blocks, shared, overlaid>>
        /\ patched' = Tail(patched) /\ patched # <<>> /\ Head(patched) = "other"
    BY <1>9 DEF Y!Unlay
  <2>2. \/ patched = <<"other">> /\ patched' = <<>>
        \/ patched = <<"other", "ours">> /\ patched' = <<"ours">>
    <3>1. patched \in {<<>>, <<"ours">>, <<"other">>, <<"other", "ours">>}
      BY <1>2, CountsAlike DEF Y!TypeOK
    <3>2. /\ Head(<<"ours">>) # "other"
          /\ Tail(<<"other">>) = <<>> /\ Tail(<<"other", "ours">>) = <<"ours">>
      OBVIOUS
    <3>3. QED
      BY <2>1, <3>1, <3>2
  <2>3. "ours" \notin Y!Range(<<"other">>) /\ "ours" \in Y!Range(<<"ours">>)
    BY DEF Y!Range
  <2>4. overlaid
    BY <1>2, <2>2 DEF NameIsOurs
  <2>5. Y!TypeOK' /\ NameIsOurs'
    BY <1>2, <2>1, <2>2, <2>3, <2>4, CountsAlike DEF Y!TypeOK, NameIsOurs
  <2>6. QED
    BY <1>5, <1>7, <2>1, <2>5 DEF PythonInv
<1>10. CASE UNCHANGED Y!pythonVars
  BY <1>2, <1>5, <1>7, <1>10, CountsAlike DEF PythonInv, Y!TypeOK, NameIsOurs, Y!pythonVars
<1>11. QED
  BY <1>1, <1>3, <1>4, <1>6, <1>8, <1>9, <1>10 DEF Y!Next

LEMMA PythonGoal == ASSUME PythonConstants PROVE PythonInv => Y!ScopedTime
<1>1. SUFFICES ASSUME PythonInv PROVE Y!ScopedTime
  OBVIOUS
<1>2. Y!TypeOK /\ BlocksCounted /\ NameIsOurs /\ TokensNest
  BY <1>1 DEF PythonInv
<1>3. IsFiniteSet(Entered) /\ depth \in Nat /\ depth = Cardinality(Entered)
  BY <1>2, EnteredFinite DEF BlocksCounted
<1>4. depth = 0 <=> Entered = {}
  BY <1>3, FS_EmptySet
<1>5. ASSUME NEW t \in Tasks, blocks[t] # <<>> PROVE Entered # {}
  <2>1. blocks[t] \in Seq(Clocks) /\ Len(blocks[t]) <= MaxNesting
    BY <1>2, CountsAlike DEF Y!TypeOK, BlocksCounted
  <2>2. Len(blocks[t]) \in Nat /\ Len(blocks[t]) >= 1 /\ MaxNesting \in Nat
    BY <1>5, <2>1 DEF PythonConstants
  <2>3. <<t, 1>> \in Entered
    BY <2>1, <2>2 DEF Entered
  <2>4. QED
    BY <2>3
<1>6. ASSUME NEW e \in Entered PROVE \E t \in Tasks : blocks[t] # <<>>
  <2>1. PICK t \in Tasks, k \in 1..MaxNesting : e = <<t, k>> /\ k <= Len(blocks[t])
    BY DEF Entered
  <2>2. Len(<<>>) = 0
    OBVIOUS
  <2>3. QED
    BY <2>1, <2>2
<1>7. depth = 0 <=> \A t \in Tasks : blocks[t] = <<>>
  BY <1>4, <1>5, <1>6
<1>8. depth > 0 => "ours" \in Y!Range(patched)
  BY <1>2 DEF NameIsOurs
<1>9. \A t \in Tasks : blocks[t] # <<>> /\ shared = {} => Y!Reads(t) = Head(blocks[t])
  BY <1>2, <1>3, <1>7, <1>8 DEF TokensNest, Y!Reads
<1>10. QED
  BY <1>2, <1>7, <1>8, <1>9 DEF Y!ScopedTime, NameIsOurs

-----------------------------------------------------------------------------
(* Pressure                                                                *)

Pressures ==
  [active : [P!Domains -> Drivers \cup {None}], within : [P!Domains -> Runs \cup {None}],
   owners : SUBSET Drivers, watchdog : Runs \cup {None}, loaded : SUBSET (Runs \X P!Domains)]

Active(s) == {s.active[dom] : dom \in P!Domains} \ {None}

(* The watchdog runs for those that are active, each in its own domain.    *)
Sound(s) ==
  /\ s \in Pressures
  /\ s.owners = Active(s)
  /\ s.watchdog # None <=> Active(s) # {}
  /\ \A dom \in P!Domains : s.active[dom] # None => Domain[s.active[dom]] = dom

PressureConstants ==
  /\ Domain \in [Drivers -> P!Domains]
  /\ None \notin Drivers /\ None \notin Runs

PressureInv == installed \subseteq Drivers /\ Sound(pressure) /\ Active(pressure) \subseteq installed

(* stopCpuPressure() and stopMemoryPressure() end the pressure of their    *)
(* domain, and the watchdog with the last.                                 *)
LEMMA StopIsSound ==
  ASSUME PressureConstants, NEW s, Sound(s), NEW dom \in P!Domains, NEW r \in Runs \cup {None}
  PROVE  /\ Sound(P!Stopped(s, dom, r))
         /\ P!Stopped(s, dom, r).active = [s.active EXCEPT ![dom] = None]
<1> DEFINE t == P!Stopped(s, dom, r)
<1>1. CASE s.active[dom] = None
  <2>1. t = s
    BY <1>1 DEF P!Stopped
  <2>2. s.active = [s.active EXCEPT ![dom] = None]
    BY <1>1 DEF Sound, Pressures
  <2>3. QED
    BY <2>1, <2>2
<1>2. CASE s.active[dom] # None
  <2> DEFINE d == s.active[dom]
  <2>1. /\ t.active = [s.active EXCEPT ![dom] = None]
        /\ t.owners = s.owners \ {d}
        /\ t.watchdog = IF s.owners \ {d} = {} THEN None ELSE s.watchdog
        /\ t \in Pressures
    BY <1>2 DEF P!Stopped, P!Released, Sound, Pressures
  <2>2. Active(t) = Active(s) \ {d}
    BY <1>2, <2>1 DEF Active, Sound, Pressures
  <2>3. t.owners = Active(t) /\ (t.watchdog # None <=> Active(t) # {})
    BY <2>1, <2>2 DEF Sound
  <2>4. ASSUME NEW other \in P!Domains, t.active[other] # None
        PROVE  Domain[t.active[other]] = other
    BY <2>1, <2>4 DEF Sound, Pressures
  <2>5. QED
    BY <2>1, <2>3, <2>4 DEF Sound
<1>3. QED
  BY <1>1, <1>2

LEMMA BeganFields ==
  ASSUME NEW s \in Pressures, NEW d \in Drivers, NEW r \in Runs, Domain[d] \in P!Domains
  PROVE  /\ P!Began(s, d, r) \in Pressures
         /\ P!Began(s, d, r).active = [s.active EXCEPT ![Domain[d]] = d]
         /\ P!Began(s, d, r).owners = s.owners
         /\ P!Began(s, d, r).watchdog = s.watchdog
<1> DEFINE acting == [s.active EXCEPT ![Domain[d]] = d]
           within == [s.within EXCEPT ![Domain[d]] = r]
           load == s.loaded \cup {<<r, Domain[d]>>}
<1>1. /\ acting \in [P!Domains -> Drivers \cup {None}]
      /\ within \in [P!Domains -> Runs \cup {None}]
      /\ load \in SUBSET (Runs \X P!Domains)
  BY DEF Pressures
<1>2. s.owners \in SUBSET Drivers /\ s.watchdog \in Runs \cup {None}
  BY DEF Pressures
<1> HIDE DEF acting, within, load
<1>3. P!Began(s, d, r) =
        [active |-> acting, within |-> within, owners |-> s.owners,
         watchdog |-> s.watchdog, loaded |-> load]
  <2>1. P!Began(s, d, r) = [s EXCEPT !.active = acting, !.within = within, !.loaded = load]
    BY Zenon DEF P!Began, acting, within, load
  <2>2. QED
    BY <2>1 DEF Pressures
<1>4. P!Began(s, d, r) \in Pressures
  BY <1>1, <1>2, <1>3 DEF Pressures
<1>5. /\ P!Began(s, d, r).active = acting
      /\ P!Began(s, d, r).owners = s.owners
      /\ P!Began(s, d, r).watchdog = s.watchdog
  BY <1>3
<1>6. QED
  BY <1>4, <1>5 DEF acting

LEMMA GuardedFields ==
  ASSUME NEW s \in Pressures, NEW d \in Drivers, NEW r \in Runs
  PROVE  /\ P!Guarded(s, d, r) \in Pressures
         /\ P!Guarded(s, d, r).active = s.active
         /\ P!Guarded(s, d, r).owners = s.owners \cup {d}
         /\ P!Guarded(s, d, r).watchdog = IF s.watchdog = None THEN r ELSE s.watchdog
BY DEF P!Guarded, Pressures

(* startPressure() leaves the driver active and its pressure guarded.      *)
LEMMA StartIsSound ==
  ASSUME PressureConstants, NEW s, Sound(s), NEW d \in Drivers, NEW r \in Runs
  PROVE  /\ Sound(P!Started(s, d, r))
         /\ Active(P!Started(s, d, r)) \subseteq Active(s) \cup {d}
<1> DEFINE dom == Domain[d]
           t == P!Stopped(s, dom, r)
           u == P!Started(s, d, r)
<1>1. dom \in P!Domains
  BY DEF PressureConstants
<1>2. Sound(t) /\ t.active = [s.active EXCEPT ![dom] = None]
  BY <1>1, StopIsSound
<1>3. /\ u.active = [s.active EXCEPT ![dom] = d]
      /\ u.owners = t.owners \cup {d}
      /\ u.watchdog = IF t.watchdog = None THEN r ELSE t.watchdog
      /\ u \in Pressures
  <2> HIDE DEF t
  <2>1. u = P!Guarded(P!Began(t, d, r), d, r)
    BY DEF P!Started, t
  <2>2. P!Began(t, d, r) \in Pressures
    BY <1>1, <1>2, BeganFields DEF Sound
  <2>3. P!Began(t, d, r).active = [s.active EXCEPT ![dom] = d]
    BY <1>1, <1>2, BeganFields DEF Sound, Pressures
  <2>4. P!Began(t, d, r).owners = t.owners /\ P!Began(t, d, r).watchdog = t.watchdog
    BY <1>1, <1>2, BeganFields DEF Sound
  <2>5. QED
    BY <2>1, <2>2, <2>3, <2>4, GuardedFields
<1>4. Active(u) = Active(t) \cup {d}
  BY <1>1, <1>2, <1>3 DEF Active, Sound, Pressures, PressureConstants
<1>5. Active(t) \subseteq Active(s)
  BY <1>1, <1>2 DEF Active, Sound, Pressures
<1>6. u.owners = Active(u) /\ u.watchdog # None
  BY <1>2, <1>3, <1>4 DEF Sound, PressureConstants
<1>7. ASSUME NEW other \in P!Domains, u.active[other] # None
      PROVE  Domain[u.active[other]] = other
  BY <1>1, <1>3, <1>7 DEF Sound, Pressures
<1>8. QED
  BY <1>3, <1>4, <1>5, <1>6, <1>7 DEF Sound

LEMMA PressureInit == ASSUME PressureConstants PROVE P!Init => PressureInv
<1>1. SUFFICES ASSUME P!Init PROVE PressureInv
  OBVIOUS
<1>2. P!Idle \in Pressures /\ Active(P!Idle) = {}
  BY DEF P!Idle, Pressures, Active, P!Domains
<1>3. Sound(P!Idle)
  BY <1>2 DEF Sound, P!Idle, P!Domains
<1>4. QED
  BY <1>1, <1>2, <1>3 DEF P!Init, PressureInv

LEMMA PressureStep == ASSUME PressureConstants PROVE PressureInv /\ [P!Next]_P!pressureVars => PressureInv'
<1>1. SUFFICES ASSUME PressureInv, [P!Next]_P!pressureVars PROVE PressureInv'
  OBVIOUS
<1>2. CASE UNCHANGED P!pressureVars
  BY <1>1, <1>2 DEF PressureInv, P!pressureVars
<1>3. ASSUME NEW d \in Drivers, P!Install(d) PROVE PressureInv'
  BY <1>1, <1>3 DEF PressureInv, P!Install
<1>4. ASSUME NEW d \in Drivers, NEW r \in Runs, P!ApplyScheduledFault(d, r) PROVE PressureInv'
  <2>1. Sound(P!Started(pressure, d, r)) /\ Active(P!Started(pressure, d, r)) \subseteq Active(pressure) \cup {d}
    BY <1>1, StartIsSound DEF PressureInv
  <2>2. QED
    BY <1>1, <1>4, <2>1 DEF PressureInv, P!ApplyScheduledFault
<1>5. ASSUME NEW s, Sound(s), Active(s) \subseteq installed, NEW dom \in P!Domains,
             NEW r \in Runs \cup {None}
      PROVE  Sound(P!Stopped(s, dom, r)) /\ Active(P!Stopped(s, dom, r)) \subseteq installed
  <2>1. Sound(P!Stopped(s, dom, r)) /\ P!Stopped(s, dom, r).active = [s.active EXCEPT ![dom] = None]
    BY <1>5, StopIsSound
  <2>2. QED
    BY <1>5, <2>1 DEF Active, Sound, Pressures
<1>6. ASSUME NEW dom \in P!Domains, P!DurationOver(dom) PROVE PressureInv'
  <2>1. pressure.within[dom] \in Runs \cup {None}
    BY <1>1 DEF PressureInv, Sound, Pressures
  <2>2. QED
    BY <1>1, <1>5, <1>6, <2>1 DEF PressureInv, P!DurationOver
<1>7. CASE P!WatchdogAborts
  <2> DEFINE r == pressure.watchdog
             s == P!Stopped(pressure, "CPU", r)
  <2>1. r \in Runs \cup {None} /\ "CPU" \in P!Domains /\ "MEMORY" \in P!Domains
    BY <1>1 DEF PressureInv, Sound, Pressures, P!Domains
  <2>2. Sound(s) /\ Active(s) \subseteq installed
    BY <1>1, <1>5, <2>1 DEF PressureInv
  <2>3. Sound(P!Stopped(s, "MEMORY", r)) /\ Active(P!Stopped(s, "MEMORY", r)) \subseteq installed
    <3> HIDE DEF s, r
    <3>1. QED
      BY <1>5, <2>1, <2>2
  <2>4. QED
    BY <1>1, <1>7, <2>3 DEF PressureInv, P!WatchdogAborts
<1>8. ASSUME NEW d \in Drivers, P!Uninstall(d) PROVE PressureInv'
  <2> DEFINE dom == Domain[d]
             s == P!Stopped(pressure, dom, None)
             t == P!Released(s, d)
  <2>1. dom \in P!Domains
    BY DEF PressureConstants
  <2>2. Sound(s) /\ s.active = [pressure.active EXCEPT ![dom] = None] /\ Active(s) \subseteq installed
    BY <1>1, <1>5, <2>1, StopIsSound DEF PressureInv
  <2>3. d \notin Active(s)
    BY <1>1, <2>1, <2>2 DEF PressureInv, Active, Sound, Pressures
  <2>4. Sound(t) /\ Active(t) = Active(s)
    <3> HIDE DEF s
    <3>1. /\ t.active = s.active /\ t.owners = s.owners \ {d} /\ t \in Pressures
          /\ t.watchdog = IF s.owners \ {d} = {} THEN None ELSE s.watchdog
      BY <2>2 DEF P!Released, Sound, Pressures
    <3>2. Active(t) = Active(s)
      BY <3>1 DEF Active
    <3>3. QED
      BY <2>2, <2>3, <3>1, <3>2 DEF Sound
  <2>5. QED
    BY <1>1, <1>8, <2>2, <2>3, <2>4 DEF PressureInv, P!Uninstall
<1>9. QED
  BY <1>1, <1>2, <1>3, <1>4, <1>6, <1>7, <1>8 DEF P!Next

-----------------------------------------------------------------------------
(* Files and processes: the operators of the second instance are those of  *)
(* the first.                                                              *)

LEMMA CallIsSame ==
  ASSUME NEW r \in Runs, NEW k, K!Call(r, k) PROVE F!Call(r, k)
<1>1. /\ \A x : K!DomainOf(x) = F!DomainOf(x) /\ K!FaultsOf(x) = F!FaultsOf(x)
      /\ K!Pass = F!Pass
  BY DEF K!DomainOf, F!DomainOf, K!FaultsOf, F!FaultsOf, K!Pass, F!Pass
<1>2. \A x, fault : K!FsScripts(x, fault) = F!FsScripts(x, fault)
  BY <1>1 DEF K!FsScripts, F!FsScripts
<1>3. \A fault : K!HttpScript(fault) = F!HttpScript(fault) /\ K!GrpcScript(fault) = F!GrpcScript(fault)
  BY <1>1 DEF K!HttpScript, F!HttpScript, K!GrpcScript, F!GrpcScript
<1>4. \A x, fault : K!Scripts(x, fault) = F!Scripts(x, fault)
  BY <1>1, <1>2, <1>3 DEF K!Scripts, F!Scripts
<1>5. \A x : K!Roll(r, x) = F!Roll(r, x)
  BY CountsAlike DEF K!Roll, F!Roll
<1>6. \A x, fault : K!Decide(r, x, fault) => F!Decide(r, x, fault)
  BY <1>5 DEF K!Decide, F!Decide, K!RecordEvent, F!RecordEvent
<1>7. CASE context
  <2>1. /\ r \in engines /\ left[r] = <<>> /\ Len(calls[r]) < MaxCalls
        /\ calls' = [calls EXCEPT ![r] = Append(@, K!DomainOf(k))]
        /\ UNCHANGED <<context, engines>>
    BY <1>7 DEF K!Call
  <2>2. PICK fault \in K!FaultsOf(K!DomainOf(k)) \cup {None} :
          /\ K!Decide(r, K!DomainOf(k), fault)
          /\ \E script \in K!Scripts(k, fault) : left' = [left EXCEPT ![r] = script]
    BY <1>7 DEF K!Call
  <2>3. QED
    BY <1>1, <1>4, <1>6, <1>7, <2>1, <2>2 DEF F!Call
<1>8. CASE ~context
  BY <1>1, <1>8 DEF K!Call, F!Call
<1>9. QED
  BY <1>7, <1>8

LEMMA FilesStep ==
  ASSUME RoutingConstants, Files \subseteq KnownKinds, RoutingInv, [K!Next]_K!routingVars
  PROVE  RoutingInv'
<1>1. CASE K!Toggle
  BY <1>1, RoutingStep DEF K!Toggle, F!Toggle, F!Next
<1>2. ASSUME NEW r \in Runs, K!StartRun(r) \/ K!Proceed(r) PROVE RoutingInv'
  BY <1>2, RoutingStep DEF K!StartRun, F!StartRun, K!Proceed, F!Proceed, F!Next
<1>3. ASSUME NEW r \in Runs, NEW k \in Files, K!Call(r, k) PROVE RoutingInv'
  BY <1>3, CallIsSame, CallKeeps
<1>4. CASE UNCHANGED K!routingVars
  BY <1>4, RoutingStep DEF K!routingVars, F!routingVars
<1>5. QED
  BY <1>1, <1>2, <1>3, <1>4 DEF K!Next

-----------------------------------------------------------------------------
(* All parts, of which one takes steps.                                    *)

FaultsInv ==
  UcbInv /\ SharedInv /\ MctsInv /\ BayesInv /\ MessageInv /\ QueryInv /\ RoutingInv /\ PythonInv /\ PressureInv

LEMMA ConstantsHold ==
  /\ UcbConstants /\ MctsConstants /\ BayesConstants /\ RoutingConstants /\ PythonConstants /\ PressureConstants
  /\ Files \subseteq KnownKinds /\ MaxStrikes \in Nat /\ MaxStatements \in Nat
<1> USE ComponentsAssumption DEF ComponentsAssumption
<1>1. UcbConstants /\ PythonConstants
  BY DEF UcbConstants, PythonConstants
<1>2. RoutingConstants /\ Files \subseteq KnownKinds
  BY DEF RoutingConstants, KnownKinds, KnownFaults
<1>3. PressureConstants
  BY DEF PressureConstants, P!Domains
<1>4. MctsConstants
  BY UcbAssumption DEF MctsConstants
<1>5. BayesConstants
  BY UcbAssumption DEF BayesConstants, B!Templates
<1>6. QED
  BY <1>1, <1>2, <1>3, <1>4, <1>5

LEMMA FaultsInit == Init => FaultsInv
<1>1. SUFFICES ASSUME Init PROVE FaultsInv
  OBVIOUS
<1>2. UcbInit /\ M!Init /\ B!Init /\ P!Init /\ Q!Init /\ G!Init /\ F!Init /\ Y!Init
  BY <1>1 DEF Init
<1>3. UcbInv /\ MessageInv /\ QueryInv
  BY <1>2, ConstantsHold, UcbStarts, MessageInit, QueryInit
<1>4. RoutingInv /\ PythonInv /\ PressureInv
  BY <1>2, ConstantsHold, RoutingInit, PythonInit, PressureInit
<1>5. SharedInv /\ MctsInv /\ BayesInv
  BY <1>2, ConstantsHold, SharedStarts, MctsStarts, BayesStarts
<1>6. QED
  BY <1>3, <1>4, <1>5 DEF FaultsInv

(* A step is one of a part, or leaves the part alone.                      *)
LEMMA EachAlone ==
  ASSUME [Next]_vars
  PROVE  /\ [UcbNext]_ucbVars /\ [M!Next]_M!vars /\ [B!Next]_B!bayesVars
         /\ [G!Next]_G!messageVars /\ [Q!Next]_Q!queryVars
         /\ [F!Next]_F!routingVars \/ [K!Next]_K!routingVars
         /\ [Y!Next]_Y!pythonVars /\ [P!Next]_P!pressureVars
<1> USE DEF Search, FaultDrivers, Judging, Python, Server, searchVars, driverVars
<1>1. UcbNext \/ UNCHANGED ucbVars
  BY DEF Next, vars
<1>2. G!Next \/ UNCHANGED messageVars
  BY DEF Next, vars
<1>3. Q!Next \/ UNCHANGED queryVars
  BY DEF Next, vars
<1>4. F!Next \/ K!Next \/ UNCHANGED routingVars
  BY DEF Next, vars
<1>5. Y!Next \/ UNCHANGED pythonVars
  BY DEF Next, vars
<1>6. P!Next \/ UNCHANGED pressureVars
  BY DEF Next, vars
<1>7. /\ messageVars = G!messageVars /\ queryVars = Q!queryVars /\ routingVars = F!routingVars
      /\ pythonVars = Y!pythonVars /\ pressureVars = P!pressureVars
  BY DEF messageVars, G!messageVars, queryVars, Q!queryVars, routingVars, F!routingVars,
         pythonVars, Y!pythonVars, pressureVars, P!pressureVars
<1>8. /\ [G!Next]_G!messageVars /\ [Q!Next]_Q!queryVars
      /\ [Y!Next]_Y!pythonVars /\ [P!Next]_P!pressureVars
  BY <1>2, <1>3, <1>5, <1>6
     DEF messageVars, G!messageVars, queryVars, Q!queryVars, pythonVars, Y!pythonVars,
         pressureVars, P!pressureVars
<1>9. [F!Next]_F!routingVars \/ [K!Next]_K!routingVars
  BY <1>4 DEF routingVars, F!routingVars
<1>10. (M!Next \/ UNCHANGED mctsVars) /\ (B!Next \/ UNCHANGED bayesVars)
  BY DEF Next, vars
<1>11. [M!Next]_M!vars /\ [B!Next]_B!bayesVars
  BY <1>10 DEF mctsVars, M!vars, bayesVars, B!bayesVars
<1>12. QED
  BY <1>1, <1>8, <1>9, <1>11

LEMMA FaultsStep == FaultsInv /\ [Next]_vars => FaultsInv'
<1>1. SUFFICES ASSUME FaultsInv, [Next]_vars PROVE FaultsInv'
  OBVIOUS
<1>2. /\ [UcbNext]_ucbVars /\ [M!Next]_M!vars /\ [B!Next]_B!bayesVars
      /\ [G!Next]_G!messageVars /\ [Q!Next]_Q!queryVars
      /\ [F!Next]_F!routingVars \/ [K!Next]_K!routingVars
      /\ [Y!Next]_Y!pythonVars /\ [P!Next]_P!pressureVars
  BY <1>1, EachAlone
<1>3. UcbInv'
  BY <1>1, <1>2, ConstantsHold, UcbStep DEF FaultsInv
<1>4. MessageInv' /\ QueryInv'
  BY <1>1, <1>2, ConstantsHold, MessageStep, QueryStep DEF FaultsInv
<1>5. RoutingInv'
  BY <1>1, <1>2, ConstantsHold, RoutingStep, FilesStep DEF FaultsInv
<1>6. PythonInv' /\ PressureInv'
  BY <1>1, <1>2, ConstantsHold, PythonStep, PressureStep DEF FaultsInv
<1>7. SharedInv'
  BY <1>1, <1>2, ConstantsHold, SharedStep DEF FaultsInv, UcbInv
<1>8. MctsInv' /\ BayesInv'
  BY <1>1, <1>2, ConstantsHold, MctsStep, BayesStep DEF FaultsInv
<1>9. QED
  BY <1>3, <1>4, <1>5, <1>6, <1>7, <1>8 DEF FaultsInv

LEMMA FaultsInvariant == Spec => []FaultsInv
BY FaultsInit, FaultsStep, PTL DEF Spec

(* For any templates, buckets and workers: the set a shrinking ends with   *)
(* is the smallest seen to fail since it began, and each of its faults was *)
(* tried without (ucb1.ts:137-143).                                        *)
THEOREM FailuresAreShrunk == Spec => []ShrunkToMinimal
<1>1. FaultsInv => ShrunkToMinimal
  BY ConstantsHold, UcbGoal DEF FaultsInv, ShrunkToMinimal
<1>2. QED
  BY <1>1, FaultsInvariant, PTL

(* For any templates, buckets and workers, over resumes and malformed      *)
(* schedules: workers of UCB1 share a bucket only when all were visited,   *)
(* nodes of the tree are credited with runs of their own buckets and the   *)
(* Bayesian history has every report, once (ucb1.ts:22, mcts.ts:49,        *)
(* bayesian.ts:106).                                                       *)
THEOREM StrategiesAreCredited == Spec => []StrategiesCredit
<1>1. ASSUME FaultsInv PROVE StrategiesCredit
  <2>1. UnvisitedShared /\ MctsInv /\ BayesInv
    BY <1>1 DEF FaultsInv, SharedInv
  <2>2. M!VisitsAddUp /\ M!CreditEarned /\ B!ReportsCount
    BY <2>1, ConstantsHold, MctsGoal, BayesGoal
  <2>3. QED
    BY <2>1, <2>2 DEF StrategiesCredit
<1>2. QED
  BY <1>1, FaultsInvariant, PTL

(* For any number of messages, deliveries and faults: a message that is    *)
(* neither handled nor with the broker was lost by MESSAGE_LOSS            *)
(* (kafka-wrapper.ts, sqs-wrapper.ts).                                     *)
THEOREM MessagesAreKept == Spec => []OnlyLossLoses
<1>1. FaultsInv => OnlyLossLoses
  BY DEF FaultsInv, MessageInv, OnlyLossLoses
<1>2. QED
  BY <1>1, FaultsInvariant, PTL

(* For any number of statements, whatever the pool, rollbacks and other    *)
(* faults did to them: PARTIAL_COMMIT breaks a transaction between its     *)
(* statements (query-fault.ts:94).                                         *)
THEOREM PartialCommitsAreHalf == Spec => []PartialIsHalf
<1>1. FaultsInv => PartialIsHalf
  BY DEF FaultsInv, QueryInv, PartialIsHalf
<1>2. QED
  BY <1>1, FaultsInvariant, PTL

(* For any number of runs and calls, of the network or of files and        *)
(* processes: repetitions of a run meet the faults of the original,        *)
(* however their calls interleave (engine.ts:73, orchestrator.ts:282), and *)
(* their timelines differ only in the pids of the children that a PROCESS  *)
(* fault killed (process-wrapper.ts:29).                                   *)
THEOREM RepetitionsMeetTheirFaults == Spec => []FaultsReplay
<1>1. FaultsInv => FaultsReplay
  BY RoutingGoal DEF FaultsInv, FaultsReplay
<1>2. QED
  BY <1>1, FaultsInvariant, PTL

(* For any clocks, any finite number of tasks and any depth of nesting: a  *)
(* task reads the clock of its innermost block, and time is patched as     *)
(* long as a block is open (clock.py:198).                                 *)
THEOREM TasksReadTheirClocks == Spec => []ScopedTime
<1>1. FaultsInv => ScopedTime
  BY ConstantsHold, PythonGoal DEF FaultsInv, ScopedTime
<1>2. QED
  BY <1>1, FaultsInvariant, PTL

(* For any number of drivers, runs and sessions: no pressure without its   *)
(* watchdog, no watchdog without pressure, and no pressure of a driver     *)
(* that is not installed (resource/src/index.ts:26-55, watchdog.ts:7).     *)
THEOREM PressureStaysGuarded == Spec => []PressureIsGuarded
<1>1. PressureInv => P!PressureIsGuarded
  BY DEF PressureInv, Sound, Active, P!PressureIsGuarded
<1>2. FaultsInv => PressureIsGuarded
  BY <1>1 DEF FaultsInv, PressureIsGuarded
<1>3. QED
  BY <1>2, FaultsInvariant, PTL

=============================================================================
