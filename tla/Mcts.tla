-------------------------------- MODULE Mcts --------------------------------
(***************************************************************************)
(* MctsSearchStrategy of packages/core/src/search/mcts.ts under concurrent *)
(* workers.  A node of the tree is the path that leads to it: the buckets  *)
(* chosen for the first templates, in template order.  A path that is not  *)
(* in the domain of `tree` is a move its parent has not expanded.          *)
(*                                                                         *)
(* Abstractions.  Scores as in Ucb1: an unvisited child has an infinite    *)
(* score, and of the visited ones any may be best that no other beats in   *)
(* both terms.  The rollout is any completion of the path.                 *)
(***************************************************************************)
EXTENDS Naturals, Sequences, SequencesExt, FiniteSets

CONSTANTS
  Workers, NumTemplates, NumBuckets,
  Invalid,       \* buckets <<t, k>> whose schedules do not parse
  MaxSets,       \* bound: sets of schedules issued
  MaxResumes,    \* bound: how often the process dies and is resumed
  None

VARIABLES
  tree,             \* visits and failures of every node
  leafBySchedule,   \* the leaf of each set issued, None when deleted or lost
  job,              \* the set each worker executes
  exported,         \* what the last exportState() returned
  resumptions,      \* bound: resumes so far
  reports           \* history: reports of each combination of buckets

vars == <<tree, leafBySchedule, job, exported, resumptions, reports>>

Moves == 1..NumBuckets

(* The buckets of a whole set of schedules: paths of full length.          *)
Picks == [1..NumTemplates -> Moves]

Paths == UNION {[1..n -> Moves] : n \in 0..NumTemplates}

Score == [visits : Nat, failures : Nat]
Unscored == [visits |-> 0, failures |-> 0]

Terminal(p) == Len(p) = NumTemplates
Children(p) == {c \in DOMAIN tree : Len(c) = Len(p) + 1 /\ IsPrefix(p, c)}
UnexpandedMoves(p) == {k \in Moves : ~Terminal(p) /\ Append(p, k) \notin DOMAIN tree}

-----------------------------------------------------------------------------
Init ==
  /\ tree = [p \in {<<>>} |-> Unscored]
  /\ leafBySchedule = <<>>
  /\ job = [w \in Workers |-> None]
  /\ exported = None
  /\ resumptions = 0
  /\ reports = [k \in Picks |-> Unscored]

(* uctScore: child c of p may have the highest.                            *)
BestChild(c, p) ==
  \/ tree[p].visits = 0
  \/ tree[c].visits = 0
  \/ /\ \A d \in Children(p) : tree[d].visits > 0
     /\ ~\E d \in Children(p) :
          /\ tree[d].visits <= tree[c].visits
          /\ tree[d].failures * tree[c].visits > tree[c].failures * tree[d].visits

(* selectPromisingNode() may end at p: every node above is expanded and    *)
(* the path follows a best child.                                          *)
Promising(p) ==
  /\ \A i \in 0..(Len(p) - 1) :
       /\ UnexpandedMoves(SubSeq(p, 1, i)) = {}
       /\ BestChild(SubSeq(p, 1, i + 1), SubSeq(p, 1, i))
  /\ Terminal(p) \/ UnexpandedMoves(p) # {}

(* expand(): the new children p may get, p itself when it is terminal.     *)
Expand(p) == IF Terminal(p) THEN {p} ELSE {Append(p, k) : k \in UnexpandedMoves(p)}

Malformed(pick) == \E t \in 1..NumTemplates : <<t, pick[t]>> \in Invalid

(* next(): selection, expansion, rollout.  Of schedules that do not parse  *)
(* the orchestrator keeps none, so that feedback() finds no leaf.          *)
NextSchedules(w) ==
  /\ job[w] = None
  /\ Len(leafBySchedule) < MaxSets
  /\ \E p \in DOMAIN tree :
       /\ Promising(p)
       /\ \E leaf \in Expand(p), pick \in Picks :
            /\ IsPrefix(leaf, pick)
            /\ tree' = [q \in DOMAIN tree \cup {leaf} |->
                          IF q = leaf /\ ~Terminal(p) THEN Unscored ELSE tree[q]]
            /\ leafBySchedule' = Append(leafBySchedule, leaf)
            /\ job' = IF Malformed(pick) THEN job
                        ELSE [job EXCEPT ![w] = [issue |-> Len(leafBySchedule) + 1,
                                                 pick |-> pick]]
  /\ UNCHANGED <<exported, resumptions, reports>>

Plus(score, passed) ==
  [visits |-> score.visits + 1, failures |-> score.failures + IF passed THEN 0 ELSE 1]

(* Fault: the report goes to the leaf that was chosen last.                *)
BackpropagateLast(issue, passed) ==
  LET leaf == leafBySchedule[Len(leafBySchedule)]
  IN tree' = [q \in DOMAIN tree |->
                IF leaf # None /\ IsPrefix(q, leaf) THEN Plus(tree[q], passed) ELSE tree[q]]

(* From the leaf up to the root.                                           *)
Backpropagate(issue, passed) ==
  LET leaf == leafBySchedule[issue]
  IN tree' = [q \in DOMAIN tree |-> IF IsPrefix(q, leaf) THEN Plus(tree[q], passed)
                                                        ELSE tree[q]]

(* feedback() of an executed run or of a duplicate.                        *)
Feedback(w) ==
  \E passed \in BOOLEAN :
    /\ job[w] # None
    /\ Backpropagate(job[w].issue, passed)
    /\ leafBySchedule' = [leafBySchedule EXCEPT ![job[w].issue] = None]
    /\ job' = [job EXCEPT ![w] = None]
    /\ reports' = [reports EXCEPT ![job[w].pick] = Plus(@, passed)]
    /\ UNCHANGED <<exported, resumptions>>

(* exportState() serializes the tree only.                                 *)
ExportTree ==
  /\ resumptions < MaxResumes
  /\ exported' = tree
  /\ UNCHANGED <<tree, leafBySchedule, job, resumptions, reports>>

ResumeTree ==
  /\ exported # None
  /\ resumptions < MaxResumes
  /\ resumptions' = resumptions + 1
  /\ tree' = exported
  /\ leafBySchedule' = [i \in DOMAIN leafBySchedule |-> None]
  /\ job' = [w \in Workers |-> None]
  /\ UNCHANGED <<exported, reports>>

Next ==
  \/ \E w \in Workers : NextSchedules(w) \/ Feedback(w)
  \/ ExportTree
  \/ ResumeTree

-----------------------------------------------------------------------------
TypeOK ==
  /\ tree \in [DOMAIN tree -> Score]
  /\ DOMAIN tree \subseteq Paths
  /\ leafBySchedule \in Seq(Paths \cup {None})
  /\ \A w \in Workers : job[w] # None =>
       job[w].issue \in DOMAIN leafBySchedule /\ job[w].pick \in Picks

(* Runs counted together: pairs of a node, or of a combination of buckets, *)
(* and a number.                                                           *)
RunsOf(count, nodes) == UNION {{x} \X (1..count[x]) : x \in nodes}
Visits(scores, nodes) == Cardinality(RunsOf([x \in nodes |-> scores[x].visits], nodes))
Failures(scores, nodes) == Cardinality(RunsOf([x \in nodes |-> scores[x].failures], nodes))

(* The visits of a node are those of its children and at most one of its   *)
(* own, from the run that expanded it; the root has none of its own.  With *)
(* workers that report in any order no run is counted twice on a path, and *)
(* no subtree is expanded over.                                            *)
VisitsAddUp ==
  \A p \in DOMAIN tree : ~Terminal(p) =>
    LET below == Visits(tree, Children(p))
    IN tree[p].visits \in below..(below + IF p = <<>> THEN 0 ELSE 1)

(* What a node has been credited with was earned by runs of its own        *)
(* buckets, whichever order the runs finished in (mcts.ts:49-51).          *)
CreditEarned ==
  \A p \in DOMAIN tree :
    LET own == {k \in Picks : IsPrefix(p, k)}
    IN /\ tree[p].visits <= Visits(reports, own)
       /\ tree[p].failures <= Failures(reports, own)

=============================================================================
