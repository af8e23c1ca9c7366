---------------------------- MODULE RunExplorer ----------------------------
(***************************************************************************)
(* The run explorer of the dashboard: two queries (useApiQuery), the runs  *)
(* of a filter and, keyed by the run selected among them, its details,     *)
(* over an API that gets runs in the meantime.                             *)
(*                                                                         *)
(* Abstractions.  An answer is the key it was asked for and the runs the   *)
(* API had.  React renders at once and runs the effects of a rendering     *)
(* some time later; an answer may come in between.  What is aborted is     *)
(* forgotten: its answer is ignored (signal.aborted).                      *)
(***************************************************************************)
EXTENDS Naturals, Sequences, FiniteSets, Functions

CONSTANTS
  RunIds,
  Filters,
  Matches,     \* [Filters -> SUBSET RunIds]
  ListLimit,   \* RUN_LIST_LIMIT
  MaxReloads,  \* bound: attempts of each query
  None

VARIABLES
  stored,   \* the API's runs, newest first
  filter,   \* statusFilter
  chosen,   \* chosenRunId
  list,     \* the two hooks
  detail,
  heard     \* history: the runs of the completed sessions the page heard of

explorerVars == <<stored, filter, chosen, list, detail, heard>>

Undefined == [key |-> None, runs |-> <<>>]  \* data: undefined

(* useState(), and the last effect: its key and attempt, and its request.  *)
Hook ==
  [attempt |-> 0,
   settled |-> [key |-> None, attempt |-> MaxReloads + 1, data |-> Undefined, error |-> FALSE],
   effect |-> [key |-> None, attempt |-> 0],
   request |-> "none", answer |-> Undefined]

(* Fault: the data is kept whatever its key.                               *)
SettleKeeping(hook, ok) ==
  LET asked == hook.effect
  IN [hook EXCEPT !.settled = [key |-> asked.key, attempt |-> asked.attempt, error |-> ~ok,
                               data |-> IF ok THEN hook.answer ELSE hook.settled.data],
                  !.request = "none", !.answer = Undefined]

(* The request settles: a failure keeps the data of the same key.          *)
Settle(hook, ok) ==
  LET asked == hook.effect
      data == IF ok THEN hook.answer
              ELSE IF hook.settled.key = asked.key THEN hook.settled.data ELSE Undefined
  IN [hook EXCEPT !.settled = [key |-> asked.key, attempt |-> asked.attempt,
                               data |-> data, error |-> ~ok],
                  !.request = "none", !.answer = Undefined]

(* What the hook returns for a key.                                        *)
SameKey(hook, key) == key # None /\ hook.settled.key = key
Data(hook, key) == IF SameKey(hook, key) THEN hook.settled.data ELSE Undefined
IsLoading(hook, key) ==
  key # None /\ (~SameKey(hook, key) \/ hook.settled.attempt # hook.attempt)
Error(hook, key) == SameKey(hook, key) /\ ~IsLoading(hook, key) /\ hook.settled.error

(* The key of the list is its filter; the user's choice while it is        *)
(* listed, else the newest run.                                            *)
Feed == Data(list, filter).runs
SelectedRunId ==
  IF chosen \in Range(Feed) THEN chosen
  ELSE IF Feed = <<>> THEN None ELSE Head(Feed)

-----------------------------------------------------------------------------
Init ==
  /\ stored = <<>> /\ heard = {}
  /\ filter \in Filters /\ chosen = None
  /\ list = Hook /\ detail = Hook

(* A session is uploaded.                                                  *)
RunStored(r) ==
  /\ r \notin Range(stored)
  /\ stored' = <<r>> \o stored
  /\ UNCHANGED <<filter, chosen, list, detail, heard>>

(* reload(), for the button or onRetry.                                    *)
Reloaded(hook) == [hook EXCEPT !.attempt = @ + 1]

(* onSessionCompleted: the list is reloaded.                               *)
SessionCompleted ==
  /\ list.attempt < MaxReloads
  /\ list' = Reloaded(list)
  /\ heard' = Range(stored)
  /\ UNCHANGED <<stored, filter, chosen, detail>>

ReloadDetail ==
  /\ detail.attempt < MaxReloads
  /\ detail' = Reloaded(detail)
  /\ UNCHANGED <<stored, filter, chosen, list, heard>>

SetFilter(f) ==
  /\ f # filter
  /\ filter' = f
  /\ UNCHANGED <<stored, chosen, list, detail, heard>>

OnSelectRun(r) ==
  /\ r \in Range(Feed)
  /\ chosen' = r
  /\ UNCHANGED <<stored, filter, list, detail, heard>>

(* The effect of a rendering with another key or attempt aborts the last   *)
(* request and asks for the key, unless it is null.                        *)
Stale(hook, key) == hook.effect # [key |-> key, attempt |-> hook.attempt]
Fetching(hook, key) ==
  [hook EXCEPT !.effect = [key |-> key, attempt |-> hook.attempt],
               !.request = IF key = None THEN "none" ELSE "sent",
               !.answer = Undefined]

ListEffect ==
  /\ Stale(list, filter)
  /\ list' = Fetching(list, filter)
  /\ UNCHANGED <<stored, filter, chosen, detail, heard>>

(* GET /runs/:id: a run does not change, so its answer is known.           *)
DetailEffect ==
  /\ Stale(detail, SelectedRunId)
  /\ detail' = IF SelectedRunId = None THEN Fetching(detail, None)
               ELSE [Fetching(detail, SelectedRunId) EXCEPT
                       !.request = "answered",
                       !.answer = [key |-> SelectedRunId, runs |-> <<>>]]
  /\ UNCHANGED <<stored, filter, chosen, list, heard>>

(* GET /runs: the newest that match.                                       *)
Listed(f) ==
  LET matching == {i \in DOMAIN stored : stored[i] \in Matches[f]}
      place(i) == Cardinality({j \in matching : j <= i})
      many == IF Cardinality(matching) < ListLimit THEN Cardinality(matching) ELSE ListLimit
  IN [k \in 1..many |-> stored[CHOOSE i \in matching : place(i) = k]]

ListAnswered ==
  /\ list.request = "sent"
  /\ list' = [list EXCEPT !.request = "answered",
                          !.answer = [key |-> list.effect.key, runs |-> Listed(list.effect.key)]]
  /\ UNCHANGED <<stored, filter, chosen, detail, heard>>

(* apiGet() resolves with the answer, or throws: an error status, no JSON, *)
(* no network, or eight seconds without a response.                        *)
Outcomes(hook) ==
  (IF hook.request = "answered" THEN {TRUE} ELSE {})
    \cup (IF hook.request = "none" THEN {} ELSE {FALSE})

ListSettles ==
  /\ \E ok \in Outcomes(list) : list' = Settle(list, ok)
  /\ UNCHANGED <<stored, filter, chosen, detail, heard>>

DetailSettles ==
  /\ \E ok \in Outcomes(detail) : detail' = Settle(detail, ok)
  /\ UNCHANGED <<stored, filter, chosen, list, heard>>

Next ==
  \/ \E r \in RunIds : RunStored(r) \/ OnSelectRun(r)
  \/ \E f \in Filters : SetFilter(f)
  \/ SessionCompleted \/ ReloadDetail
  \/ ListEffect \/ DetailEffect
  \/ ListAnswered
  \/ ListSettles \/ DetailSettles

-----------------------------------------------------------------------------
Answers == [key : Filters \cup RunIds \cup {None}, runs : Seq(RunIds)]

TypeOK ==
  /\ stored \in Seq(RunIds) /\ heard \subseteq RunIds
  /\ filter \in Filters /\ chosen \in RunIds \cup {None}
  /\ \A hook \in {list, detail} :
       /\ hook.attempt \in 0..MaxReloads
       /\ hook.request \in {"none", "sent", "answered"}
       /\ hook.answer \in Answers /\ hook.settled.data \in Answers
       /\ hook.effect.key \in Filters \cup RunIds \cup {None}

(* A previous key's data is never shown (useApiQuery.ts:6), nor that of an *)
(* older request over a newer one: what the list shows is an answer for    *)
(* its filter, the details are those of the run that is selected, and a    *)
(* list that neither loads nor reports an error has the runs of all        *)
(* sessions the page heard of, as far as the limit goes - however filters, *)
(* selections, reloads and late answers interleave.                        *)
ShowsWhatWasAsked ==
  LET shown == Data(list, filter)
      read == Data(detail, SelectedRunId)
  IN /\ shown.key \in {filter, None}
     /\ read.key \in {SelectedRunId, None}
     /\ ~IsLoading(list, filter) /\ ~Error(list, filter) =>
          heard \cap Matches[filter] \subseteq Range(shown.runs) \/ Len(shown.runs) = ListLimit

(* A request for the current key in flight is a query that loads           *)
(* (useApiQuery.ts:10).                                                    *)
LoadingIsShown ==
  /\ list.request # "none" /\ list.effect.key = filter => IsLoading(list, filter)
  /\ detail.request # "none" /\ detail.effect.key = SelectedRunId => IsLoading(detail, SelectedRunId)

=============================================================================
