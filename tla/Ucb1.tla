-------------------------------- MODULE Ucb1 --------------------------------
(***************************************************************************)
(* Ucb1SearchStrategy of packages/core/src/search/ucb1.ts, as the workers  *)
(* of the orchestrator use it: each asks for schedules, executes them and  *)
(* reports, in any order.  The object is a record and its methods are      *)
(* functions of it, because next() and feedback() never await.             *)
(*                                                                         *)
(* Abstractions.  A schedule is known by its id, here <<n, t>>: template t *)
(* in the n-th set issued.  A bucket is <<t, k>>; what probability and     *)
(* delay it stands for is left out.  Scores are logarithms and roots: of   *)
(* the visited buckets any may be the best one, except those that another  *)
(* bucket beats in both terms of the formula.                              *)
(***************************************************************************)
EXTENDS Naturals, Sequences, SequencesExt, FiniteSets

CONSTANTS
  Workers,       \* workers of the orchestrator
  NumTemplates,  \* config.templates
  NumBuckets,    \* buckets of a template: 1, 4 or 16 in the code
  Invalid,       \* buckets whose schedules do not parse: a range beyond [0, 1]
  MaxIssues,     \* bound: sets of schedules issued by exploration
  MaxResumes,    \* bound: how often the process dies and is resumed
  None           \* null

ASSUME UcbAssumption ==
  /\ NumTemplates \in Nat \ {0}
  /\ NumBuckets \in Nat \ {0}
  /\ MaxIssues \in Nat /\ MaxResumes \in Nat

Templates == 1..NumTemplates

(* The space of a template, in the order in which next() looks at it.      *)
TemplateSpace == 1..NumBuckets
Buckets == Templates \X TemplateSpace
Ids == (Nat \ {0}) \X Templates

VARIABLES
  ucb,       \* the strategy
  held,      \* the schedules each worker executes
  snapshot,  \* what the last exportState() returned
  resumes,   \* bound: resumes so far
  smallest,  \* history: length of the shortest set reported failing to this process
  cleared    \* history: sets reported passing to this process

ucbVars == <<ucb, held, snapshot, resumes, smallest, cleared>>

Strategies ==
  [issued : Seq([Templates -> TemplateSpace]),  \* scheduleBuckets
   visits : [Buckets -> Nat],                   \* coverage
   failures : [Buckets -> Nat],
   pending : [Buckets -> Nat],
   shrinkMode : BOOLEAN,
   shrinkAnchor : Seq(Ids) \cup {None},
   shrinkQueue : Seq(Seq(Ids)),
   minimalFailing : Seq(Ids) \cup {None}]

Zero == [b \in Buckets |-> 0]

(* What the constructor makes.                                             *)
New == [issued |-> <<>>, visits |-> Zero, failures |-> Zero, pending |-> Zero,
        shrinkMode |-> FALSE, shrinkAnchor |-> None, shrinkQueue |-> <<>>,
        minimalFailing |-> None]

-----------------------------------------------------------------------------
(* next()                                                                  *)

Shrinking(s) == s.shrinkMode /\ s.shrinkQueue # <<>>

EffectiveVisits(s, b) == s.visits[b] + s.pending[b]

Unvisited(s, t) == {k \in TemplateSpace : EffectiveVisits(s, <<t, k>>) = 0}

(* Bucket c has the higher failure rate and no more visits than b.         *)
Beats(s, c, b) ==
  /\ EffectiveVisits(s, c) <= EffectiveVisits(s, b)
  /\ s.failures[c] * EffectiveVisits(s, b) > s.failures[b] * EffectiveVisits(s, c)

(* An unvisited bucket scores infinity, which no noise and no later        *)
(* infinity exceeds: the first one is taken.                               *)
Best(s, t, k) ==
  IF Unvisited(s, t) # {}
    THEN k \in Unvisited(s, t) /\ \A j \in Unvisited(s, t) : k <= j
    ELSE \A j \in TemplateSpace : ~Beats(s, <<t, j>>, <<t, k>>)

Issue(s, pick) ==
  [s EXCEPT !.shrinkMode = FALSE,
            !.issued = Append(@, pick),
            !.pending = [b \in Buckets |-> @[b] + IF pick[b[1]] = b[2] THEN 1 ELSE 0]]

Fresh(s) == [t \in Templates |-> <<Len(s.issued) + 1, t>>]

-----------------------------------------------------------------------------
(* feedback()                                                              *)

Bucket(s, id) == <<id[2], s.issued[id[1]][id[2]]>>

(* Fault: the last fault is never taken out.                               *)
PrunedButLast(batch) == [i \in 1..(Len(batch) - 1) |-> RemoveAt(batch, i)]

(* generateShrinkQueue(): one fault at a time is taken out.                *)
Pruned(batch) == [i \in 1..Len(batch) |-> RemoveAt(batch, i)]

(* A new failure, or a pruned set that still fails.                        *)
Adopts(s, batch, passed) ==
  /\ ~passed
  /\ \/ ~s.shrinkMode
     \/ s.shrinkAnchor # None /\ Len(batch) < Len(s.shrinkAnchor)

Adopt(s, batch) ==
  [s EXCEPT !.shrinkMode = TRUE,
            !.shrinkAnchor = batch,
            !.shrinkQueue = Pruned(batch),
            !.minimalFailing = IF @ = None \/ Len(batch) < Len(@) THEN batch ELSE @]

(* Fault: a count is released whether or not it is still held.             *)
CoverUnclamped(s, batch, passed) ==
  LET hit == {Bucket(s, batch[i]) : i \in DOMAIN batch}
  IN [s EXCEPT !.pending = [b \in Buckets |-> IF b \in hit THEN @[b] - 1 ELSE @[b]],
               !.visits = [b \in Buckets |-> IF b \in hit THEN @[b] + 1 ELSE @[b]]]

(* Statistics of the buckets the reported ids came from.  A pruned set has *)
(* ids of an earlier set: they are counted again.                          *)
Cover(s, batch, passed) ==
  LET hit == {Bucket(s, batch[i]) : i \in DOMAIN batch}
  IN [s EXCEPT
        !.pending = [b \in Buckets |-> IF b \in hit /\ @[b] > 0 THEN @[b] - 1 ELSE @[b]],
        !.visits = [b \in Buckets |-> IF b \in hit THEN @[b] + 1 ELSE @[b]],
        !.failures = [b \in Buckets |-> IF b \in hit /\ ~passed THEN @[b] + 1 ELSE @[b]]]

Feedback(s, batch, passed) ==
  Cover(IF Adopts(s, batch, passed) THEN Adopt(s, batch) ELSE s, batch, passed)

-----------------------------------------------------------------------------
(* exportState() leaves pending and minimalFailing out, so that            *)
(* importState() finds those of a new object.                              *)
Exported(s) == [s EXCEPT !.pending = Zero, !.minimalFailing = None]

-----------------------------------------------------------------------------
UcbInit ==
  /\ ucb = New
  /\ held = [w \in Workers |-> None]
  /\ snapshot = None
  /\ resumes = 0
  /\ smallest = None
  /\ cleared = {}

Smaller(n) == IF smallest = None \/ n < smallest THEN n ELSE smallest

(* A worker is given the next pruned set.                                  *)
TakePruned(w) ==
  /\ held[w] = None
  /\ Shrinking(ucb)
  /\ ucb' = [ucb EXCEPT !.shrinkQueue = Tail(@)]
  /\ held' = [held EXCEPT ![w] = Head(ucb.shrinkQueue)]
  /\ UNCHANGED <<snapshot, resumes, smallest, cleared>>

Exploring(w, pick) ==
  /\ held[w] = None
  /\ ~Shrinking(ucb)
  /\ Len(ucb.issued) < MaxIssues
  /\ \A t \in Templates : Best(ucb, t, pick[t])

Malformed(pick) == \E t \in Templates : <<t, pick[t]>> \in Invalid

(* A worker is given one bucket of every template.                         *)
Explore(w) ==
  \E pick \in [Templates -> TemplateSpace] :
    /\ Exploring(w, pick)
    /\ ~Malformed(pick)
    /\ ucb' = Issue(ucb, pick)
    /\ held' = [held EXCEPT ![w] = Fresh(ucb)]
    /\ UNCHANGED <<snapshot, resumes, smallest, cleared>>

(* The schedules do not parse: the orchestrator reports a failure with no  *)
(* schedules at once, and nobody ever reports the ids issued.              *)
ExploreMalformed(w) ==
  \E pick \in [Templates -> TemplateSpace] :
    /\ Exploring(w, pick)
    /\ Malformed(pick)
    /\ ucb' = Feedback(Issue(ucb, pick), <<>>, FALSE)
    /\ smallest' = 0
    /\ UNCHANGED <<held, snapshot, resumes, cleared>>

(* recordRun, or the known outcome of a duplicate.                         *)
Report(w) ==
  \E passed \in BOOLEAN :
    /\ held[w] # None
    /\ ucb' = Feedback(ucb, held[w], passed)
    /\ held' = [held EXCEPT ![w] = None]
    /\ smallest' = IF passed THEN smallest ELSE Smaller(Len(held[w]))
    /\ cleared' = IF passed THEN cleared \cup {held[w]} ELSE cleared
    /\ UNCHANGED <<snapshot, resumes>>

ExportStrategy ==
  /\ resumes < MaxResumes
  /\ snapshot' = Exported(ucb)
  /\ UNCHANGED <<ucb, held, resumes, smallest, cleared>>

(* The process dies with its workers; another one imports the last export. *)
ResumeStrategy ==
  /\ snapshot # None
  /\ resumes < MaxResumes
  /\ resumes' = resumes + 1
  /\ ucb' = snapshot
  /\ held' = [w \in Workers |-> None]
  /\ smallest' = None
  /\ cleared' = {}
  /\ UNCHANGED snapshot

UcbNext ==
  \/ \E w \in Workers : TakePruned(w) \/ Explore(w) \/ ExploreMalformed(w) \/ Report(w)
  \/ ExportStrategy
  \/ ResumeStrategy

UcbSpec == UcbInit /\ [][UcbNext]_ucbVars

-----------------------------------------------------------------------------
UcbTypeOK ==
  /\ ucb \in Strategies
  /\ held \in [Workers -> Seq(Ids) \cup {None}]
  /\ snapshot \in Strategies \cup {None}
  /\ smallest \in Nat \cup {None}
  /\ cleared \subseteq Seq(Ids)

IsFresh(batch) == batch # None /\ Len(batch) = NumTemplates

(* Two workers explore one bucket of a template at once only when no       *)
(* bucket of it is left unvisited: whatever was pruned, reported,          *)
(* malformed or resumed before (ucb1.ts:23, concurrent workers do not all  *)
(* pick the same unvisited bucket).                                        *)
UnvisitedShared ==
  \A v, w \in Workers : v # w /\ IsFresh(held[v]) /\ IsFresh(held[w]) =>
    \A t \in Templates :
      Bucket(ucb, held[v][t]) = Bucket(ucb, held[w][t]) => Unvisited(ucb, t) = {}

(* Shrinking ends at a set from which no single fault can be removed       *)
(* (ucb1.ts:141-143): when nothing is queued or under way, every set       *)
(* one fault smaller than minimalFailing was executed and passed, in       *)
(* whichever order reports of other failures came in between.              *)
MinimalWasPruned ==
  /\ ucb.minimalFailing # None
  /\ ucb.shrinkQueue = <<>>
  /\ \A w \in Workers : held[w] = None
  => \A i \in DOMAIN ucb.minimalFailing : RemoveAt(ucb.minimalFailing, i) \in cleared

(* getMinimalFailingSchedule() is as small as any set seen to fail, and    *)
(* null only if nothing has failed (ucb1.ts:165), until a resume.          *)
MinimalIsSmallest ==
  resumes = 0 =>
    smallest = IF ucb.minimalFailing = None THEN None ELSE Len(ucb.minimalFailing)

=============================================================================
