------------------------------ MODULE Promises ------------------------------
(***************************************************************************)
(* The promises of promise.ts: sub-promises combined by allOf() or         *)
(* anyOf(), one of them a snapshot promise, evaluated for the runs of a    *)
(* session by executePromise().  The runs of several workers evaluate      *)
(* concurrently, and share the snapshot file.                              *)
(*                                                                         *)
(* Abstractions.  The other sub-promise is what its evaluate() gives, for  *)
(* each run anew; the evidence of a run is one of a few values.  The file  *)
(* is read and written without an await in between.                        *)
(***************************************************************************)
EXTENDS Naturals, Sequences, SequencesExt

CONSTANTS
  Runs,
  Evidence,
  Torn,         \* what a failed write leaves in the file
  MaxSessions,  \* bound
  None

VARIABLES
  combinator,      \* "allOf" or "anyOf"
  promises,        \* the sub-promises, "snapshot" and the "other"
  updateSnapshots, \* of the session
  evidence,        \* by run: what it extracts
  results,         \* by run: results of its sub-promises so far
  verdict,         \* by run: passed, None while it evaluates
  snapshot,        \* the file, None if there is none, Torn if a write of it failed
  writer,          \* history: the last session that wrote it
  written,         \* history: what that session wrote
  session          \* bound: sessions so far

promiseVars == <<combinator, promises, updateSnapshots, evidence, results, verdict,
                 snapshot, writer, written, session>>

(* evaluate() returns a boolean or { passed }, an object whose passed is   *)
(* some other true value, something without passed, null, or it throws.    *)
Given == {"passes", "fails", "truthy", "text", "null", "throws"}

(* `typeof res === 'boolean' ? res : res.passed`, as a condition.          *)
Passes(res) == res \in {"passes", "truthy"}
Crashes(res) == res \in {"null", "throws"}

(* executePromise() of a sub-promise by itself.                            *)
Alone(res) == res = "passes"

Fresh ==
  /\ evidence' \in [Runs -> Evidence]
  /\ results' = [r \in Runs |-> <<>>]
  /\ verdict' = [r \in Runs |-> None]

Init ==
  /\ combinator \in {"allOf", "anyOf"}
  /\ promises \in {<<"snapshot", "other">>, <<"other", "snapshot">>}
  /\ updateSnapshots \in BOOLEAN
  /\ evidence \in [Runs -> Evidence]
  /\ results = [r \in Runs |-> <<>>]
  /\ verdict = [r \in Runs |-> None]
  /\ snapshot = None /\ writer = 0 /\ written = {} /\ session = 1

(* The workflow may have changed when the next session is started.         *)
NextSession ==
  /\ session < MaxSessions /\ \A r \in Runs : verdict[r] # None
  /\ session' = session + 1
  /\ updateSnapshots' \in BOOLEAN
  /\ Fresh
  /\ UNCHANGED <<combinator, promises, snapshot, writer, written>>

(* Fault: a snapshot that is there is kept.                                *)
WriteOnce(content) == snapshot' = IF snapshot = None THEN content ELSE snapshot

Write(content) == snapshot' = content

(* writeFileSync(), of everything or, if it fails, of less.                *)
Writes(content) ==
  /\ Write(content)
  /\ writer' = session
  /\ written' = (IF writer = session THEN written ELSE {}) \cup {content}

Gives(r, res) == results' = [results EXCEPT ![r] = Append(@, res)]

(* snapshotPromise(), after the evidence was awaited.  Extracting it may   *)
(* throw, and so may every operation on the file.                          *)
EvaluateSnapshot(r) ==
  \/ Gives(r, "throws") /\ UNCHANGED <<snapshot, writer, written>>
  \/ updateSnapshots /\ Gives(r, "throws") /\ Writes(Torn)
  \/ updateSnapshots /\ Gives(r, "passes") /\ Writes(evidence[r])
  \/ /\ ~updateSnapshots
     /\ Gives(r, IF snapshot = evidence[r] THEN "passes" ELSE "fails")
     /\ UNCHANGED <<snapshot, writer, written>>

EvaluateOther(r) ==
  /\ \E res \in Given : Gives(r, res)
  /\ UNCHANGED <<snapshot, writer, written>>

(* allOf() evaluates all, unless one throws; anyOf() stops at one that     *)
(* passes, and at null, which has no passed.                               *)
Ended(s) ==
  \/ Len(s) = Len(promises)
  \/ s # <<>> /\ IF combinator = "allOf" THEN Last(s) = "throws"
                 ELSE Passes(Last(s)) \/ Crashes(Last(s))

Evaluate(r) ==
  /\ verdict[r] = None /\ ~Ended(results[r])
  /\ IF promises[Len(results[r]) + 1] = "snapshot" THEN EvaluateSnapshot(r) ELSE EvaluateOther(r)
  /\ UNCHANGED <<combinator, promises, updateSnapshots, evidence, verdict, session>>

(* What the combinator returns, false if it crashes.                       *)
Combined(s) ==
  /\ ~\E i \in DOMAIN s : Crashes(s[i])
  /\ IF combinator = "allOf" THEN \A i \in DOMAIN s : Passes(s[i])
     ELSE \E i \in DOMAIN s : Passes(s[i])

Conclude(r) ==
  /\ verdict[r] = None /\ Ended(results[r])
  /\ verdict' = [verdict EXCEPT ![r] = Combined(results[r])]
  /\ UNCHANGED <<combinator, promises, updateSnapshots, evidence, results, snapshot,
                 writer, written, session>>

Next == NextSession \/ \E r \in Runs : Evaluate(r) \/ Conclude(r)

-----------------------------------------------------------------------------
TypeOK ==
  /\ combinator \in {"allOf", "anyOf"}
  /\ promises \in Seq({"snapshot", "other"})
  /\ updateSnapshots \in BOOLEAN
  /\ evidence \in [Runs -> Evidence]
  /\ results \in [Runs -> Seq(Given)]
  /\ verdict \in [Runs -> BOOLEAN \cup {None}]
  /\ snapshot \in Evidence \cup {Torn, None}
  /\ written \subseteq Evidence \cup {Torn} /\ writer \in 0..session /\ session \in 1..MaxSessions

(* A run is judged by its sub-promises as each would be by itself, and by  *)
(* the snapshot of the last session that wrote it (promise.ts:95-179),     *)
(* though evaluations end early and the file may fail at any time: allOf() *)
(* passes if and only if all of them were evaluated and do; anyOf() does   *)
(* if one does and none before it crashes; and a snapshot promise fails    *)
(* for a run only if some run of that session had other evidence, or the   *)
(* writing of the file failed.  (A passed that is no boolean counts here,  *)
(* and is invalid alone.)                                                  *)
JudgedByItsParts ==
  \A r \in Runs :
    LET gave == results[r]
        kept(i) == Alone(gave[i]) \/ gave[i] = "truthy"
    IN /\ verdict[r] # None =>
            IF combinator = "allOf"
              THEN verdict[r] <=> Len(gave) = Len(promises) /\ \A i \in DOMAIN gave : kept(i)
              ELSE verdict[r] <=> \E i \in DOMAIN gave :
                                    kept(i) /\ \A j \in 1..(i - 1) : ~Crashes(gave[j])
       /\ \A i \in DOMAIN gave :
            promises[i] = "snapshot" /\ ~updateSnapshots =>
              /\ gave[i] = "passes" => evidence[r] \in written
              /\ gave[i] = "fails" => written # {evidence[r]}

=============================================================================
