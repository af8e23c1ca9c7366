------------------------------ MODULE Bayesian ------------------------------
(***************************************************************************)
(* BayesianSearchStrategy of packages/core/src/search/bayesian.ts under    *)
(* concurrent workers.                                                     *)
(*                                                                         *)
(* Abstractions.  A delay is a small number.  Random ids never meet.  The  *)
(* estimator is left out: any delay of the range may be drawn.  A schedule *)
(* that does not parse comes at random.                                    *)
(***************************************************************************)
EXTENDS Naturals, FiniteSets, Functions

CONSTANTS
  Workers,
  Delays,      \* [templates -> what delayMs may be, {} if the spec has none]
  MaxSets,     \* bound: sets of schedules issued
  MaxResumes,
  None

VARIABLES
  scheduleTemplates, \* the template of each schedule id
  history,           \* records of each template, delay and outcome
  job,               \* by worker: the delay of each schedule id it executes
  exported,
  resumptions,       \* bound
  reports            \* history: what was reported of each template

bayesVars == <<scheduleTemplates, history, job, exported, resumptions, reports>>

Templates == DOMAIN Delays
Records == UNION {[template : {t}, delay : Delays[t], passed : BOOLEAN] : t \in Templates}

(* An id is that of a set of schedules and of the template it was made     *)
(* from, which nobody reads off it.                                        *)
Ids(set) == {set} \X Templates
Issued == Cardinality(DOMAIN scheduleTemplates) \div Cardinality(Templates)

Init ==
  /\ scheduleTemplates = <<>>
  /\ history = [r \in Records |-> 0]
  /\ job = [w \in Workers |-> None]
  /\ exported = None /\ resumptions = 0
  /\ reports = history

(* next(): a schedule of every template, with a new id.                    *)
NextSchedules(w) ==
  LET ids == Ids(Issued + 1)
      ranged == {id \in ids : Delays[id[2]] # {}}
  IN /\ job[w] = None /\ Issued < MaxSets
     /\ scheduleTemplates' = [id \in DOMAIN scheduleTemplates \cup ids |-> id[2]]
     /\ \/ \E delays \in [ranged -> UNION {Delays[t] : t \in Templates}] :
             /\ \A id \in ranged : delays[id] \in Delays[id[2]]
             /\ job' = [job EXCEPT ![w] = delays]
        \/ UNCHANGED job  \* malformed: no schedules are kept
     /\ UNCHANGED <<history, exported, resumptions, reports>>

(* feedback(): a record for every schedule that has a delay.               *)
Recorded(w, passed) ==
  [r \in Records |->
     history[r] + Cardinality({id \in DOMAIN job[w] \cap DOMAIN scheduleTemplates :
                                 /\ scheduleTemplates[id] = r.template
                                 /\ job[w][id] = r.delay /\ r.passed = passed})]

Feedback(w) ==
  \E passed \in BOOLEAN :
    /\ job[w] # None
    /\ history' = Recorded(w, passed)
    /\ reports' = [r \in Records |->
         reports[r] + IF r.passed = passed /\ \E id \in DOMAIN job[w] :
                            id[2] = r.template /\ job[w][id] = r.delay THEN 1 ELSE 0]
    /\ job' = [job EXCEPT ![w] = None]
    /\ UNCHANGED <<scheduleTemplates, exported, resumptions>>

(* exportState() leaves out scheduleTemplates.                             *)
ExportHistory ==
  /\ resumptions < MaxResumes
  /\ exported' = [history |-> history, reports |-> reports]
  /\ UNCHANGED <<scheduleTemplates, history, job, resumptions, reports>>

(* Another process imports the state; the ids it does not know are those   *)
(* of runs that ended with the first.  (They stay in the domain, so that   *)
(* ids keep being new.)                                                    *)
ResumeHistory ==
  /\ exported # None /\ resumptions < MaxResumes
  /\ resumptions' = resumptions + 1
  /\ scheduleTemplates' = [id \in DOMAIN scheduleTemplates |-> None]
  /\ history' = exported.history /\ reports' = exported.reports
  /\ job' = [w \in Workers |-> None]
  /\ UNCHANGED exported

Next ==
  \/ \E w \in Workers : NextSchedules(w) \/ Feedback(w)
  \/ ExportHistory \/ ResumeHistory

-----------------------------------------------------------------------------
TypeOK ==
  /\ \A id \in DOMAIN scheduleTemplates : scheduleTemplates[id] \in {id[2], None}
  /\ history \in [Records -> 0..MaxSets] /\ reports \in [Records -> 0..MaxSets]
  /\ resumptions \in 0..MaxResumes

(* Every report of a run counts for each of its templates, with the delay  *)
(* its own schedule had, once - whichever order workers report in, after   *)
(* malformed schedules and over a resume (bayesian.ts:34: the history was  *)
(* once never recorded, and the search never left uniform sampling).       *)
ReportsCount == history = reports

=============================================================================
