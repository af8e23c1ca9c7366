---------------------------- MODULE SessionStore ----------------------------
(***************************************************************************)
(* The session store of the API (packages/api/src/store.ts): one file per  *)
(* session, loaded at the start into two indexes in memory; uploads that   *)
(* check the index, write a file, rename it into place and then index it;  *)
(* the hourly retention sweep (server.ts), and crashes of the process.     *)
(*                                                                         *)
(* Abstractions.  A session is the upload that brought it, with its id and *)
(* its run ids.  Only `old` is kept of createdAt and of the cutoff: the    *)
(* uploads a sweep that starts now would remove.  A temporary file is      *)
(* never read, so it is not in `files`.  The look-ups change nothing; of   *)
(* them, getRun is Answer.                                                 *)
(*                                                                         *)
(* The indexes compare ids as they are spelled, while fileFor puts them    *)
(* into lower case: ids that differ in nothing else share a file.          *)
(*                                                                         *)
(* Assumed: a sweep is over before the next hourly one, and an upload does *)
(* not take as long as a session is retained.                              *)
(***************************************************************************)
EXTENDS Naturals

CONSTANTS
  Uploads,    \* bound: requests POST /api/v1/sessions
  Ids,        \* session ids, as they are spelled
  Names,      \* the names of files, as numbers in their order
  FileFor,    \* [Ids -> Names]: the id in lower case
  RunIds,
  MaxCrashes, \* bound: crashes of the process
  None        \* no session

ASSUME StoreAssumption ==
  /\ Names \subseteq Nat
  /\ FileFor \in [Ids -> Names]
  /\ None \notin Uploads /\ None \notin Ids /\ None \notin Names
  /\ MaxCrashes \in Nat

VARIABLES
  up,         \* the process is running
  pc,         \* where each upload is in createSession
  id,         \* the session id it brings
  runs,       \* the run ids it brings
  files,      \* the session in the file of each name
  sessions,   \* this.sessions
  runIndex,   \* this.runIndex
  old,        \* uploads whose createdAt is before the cutoff
  todo,       \* sessions the sweep has still to remove
  removing,   \* the session whose file it has removed
  contested,  \* names two uploads, or an upload and a session of another
              \* spelling, had at once
  crashes

requestVars == <<pc, id, runs, contested>>
memoryVars == <<sessions, runIndex>>
sweepVars == <<todo, removing>>
vars == <<up, requestVars, files, memoryVars, old, sweepVars, crashes>>

InFlight == {u \in Uploads : pc[u] \in {"writing", "renamed"}}

NameOf(u) == FileFor[id[u]]

(* The names that are in use when session i is uploaded.                   *)
Rivals(i) ==
  {NameOf(v) : v \in InFlight} \cup {FileFor[j] : j \in {k \in Ids \ {i} : sessions[k] # None}}

Init ==
  /\ up = TRUE
  /\ pc = [u \in Uploads |-> "new"]
  /\ id = [u \in Uploads |-> None]
  /\ runs = [u \in Uploads |-> {}]
  /\ files = [n \in Names |-> None]
  /\ sessions = [i \in Ids |-> None]
  /\ runIndex = [r \in RunIds |-> None]
  /\ old = {}
  /\ todo = {}
  /\ removing = None
  /\ contested = {}
  /\ crashes = 0

-----------------------------------------------------------------------------
(* Fault: nobody looks whether there is a session with the id.             *)
ReceiveUnchecked(u, i, rs) ==
  /\ up
  /\ pc[u] = "new"
  /\ id' = [id EXCEPT ![u] = i]
  /\ runs' = [runs EXCEPT ![u] = rs]
  /\ pc' = [pc EXCEPT ![u] = "writing"]
  /\ contested' = contested \cup ({FileFor[i]} \cap Rivals(i))
  /\ UNCHANGED <<up, files, memoryVars, old, sweepVars, crashes>>

(* createSession up to its await: 409 if a session with the id is there,   *)
(* in the same spelling.                                                   *)
Receive(u, i, rs) ==
  /\ up
  /\ pc[u] = "new"
  /\ id' = [id EXCEPT ![u] = i]
  /\ runs' = [runs EXCEPT ![u] = rs]
  /\ IF sessions[i] # None
     THEN /\ pc' = [pc EXCEPT ![u] = "conflict"]
          /\ UNCHANGED contested
     ELSE /\ pc' = [pc EXCEPT ![u] = "writing"]
          /\ contested' = contested \cup ({FileFor[i]} \cap Rivals(i))
  /\ UNCHANGED <<up, files, memoryVars, old, sweepVars, crashes>>

(* Writing the temporary file or renaming it failed: 500.                  *)
WriteFails(u) ==
  /\ pc[u] = "writing"
  /\ pc' = [pc EXCEPT ![u] = "failed"]
  /\ UNCHANGED <<up, id, runs, contested, files, memoryVars, old, sweepVars, crashes>>

(* The temporary file is complete and gets its name.                       *)
Rename(u) ==
  /\ pc[u] = "writing"
  /\ pc' = [pc EXCEPT ![u] = "renamed"]
  /\ files' = [files EXCEPT ![NameOf(u)] = u]
  /\ UNCHANGED <<up, id, runs, contested, memoryVars, old, sweepVars, crashes>>

(* Fault: persist is not awaited.                                          *)
IndexUnwritten(u) ==
  /\ pc[u] \in {"writing", "renamed"}
  /\ pc' = [pc EXCEPT ![u] = "created"]
  /\ sessions' = [sessions EXCEPT ![id[u]] = u]
  /\ runIndex' = [r \in RunIds |-> IF r \in runs[u] THEN id[u] ELSE runIndex[r]]
  /\ UNCHANGED <<up, id, runs, contested, files, old, sweepVars, crashes>>

(* The rest of createSession: the session is indexed and answered, 201.    *)
Index(u) ==
  /\ pc[u] = "renamed"
  /\ pc' = [pc EXCEPT ![u] = "created"]
  /\ sessions' = [sessions EXCEPT ![id[u]] = u]
  /\ runIndex' = [r \in RunIds |-> IF r \in runs[u] THEN id[u] ELSE runIndex[r]]
  /\ UNCHANGED <<up, id, runs, contested, files, old, sweepVars, crashes>>

-----------------------------------------------------------------------------
(* Time passes: u falls behind the cutoff.                                 *)
Age(u) ==
  /\ pc[u] \in {"created", "lost"}
  /\ u \notin old
  /\ old' = old \cup {u}
  /\ UNCHANGED <<up, requestVars, files, memoryVars, sweepVars, crashes>>

(* deleteOlderThan takes its list of sessions.                             *)
StartSweep ==
  /\ up
  /\ todo = {}
  /\ todo' = old \cap {sessions[i] : i \in Ids}
  /\ UNCHANGED <<up, requestVars, files, memoryVars, old, removing, crashes>>

(* Fault: rm, with force, of a name that is not there.                     *)
UnlinkNothing(u) ==
  /\ u \in todo
  /\ removing = None
  /\ removing' = u
  /\ UNCHANGED <<up, requestVars, files, memoryVars, old, todo, crashes>>

(* The rm the sweep awaits, for one of them: its file is gone.             *)
Unlink(u) ==
  /\ u \in todo
  /\ removing = None
  /\ removing' = u
  /\ files' = [files EXCEPT ![NameOf(u)] = None]
  /\ UNCHANGED <<up, requestVars, memoryVars, old, todo, crashes>>

(* It fails, and the sweep with it.                                        *)
UnlinkFails ==
  /\ todo # {}
  /\ removing = None
  /\ todo' = {}
  /\ UNCHANGED <<up, requestVars, files, memoryVars, old, removing, crashes>>

(* Fault: its runs are dropped although another session answers for them.  *)
ForgetRuns ==
  /\ removing # None
  /\ runIndex' = [r \in RunIds |-> IF r \in runs[removing] THEN None ELSE runIndex[r]]
  /\ sessions' = [sessions EXCEPT ![id[removing]] = None]
  /\ todo' = todo \ {removing}
  /\ removing' = None
  /\ UNCHANGED <<up, requestVars, files, old, crashes>>

(* The sweep goes on: the session leaves both indexes.                     *)
Forget ==
  /\ removing # None
  /\ runIndex' = [r \in RunIds |->
                    IF r \in runs[removing] /\ runIndex[r] = id[removing] THEN None
                    ELSE runIndex[r]]
  /\ sessions' = [sessions EXCEPT ![id[removing]] = None]
  /\ todo' = todo \ {removing}
  /\ removing' = None
  /\ UNCHANGED <<up, requestVars, files, old, crashes>>

-----------------------------------------------------------------------------
Crash ==
  /\ up
  /\ crashes < MaxCrashes
  /\ crashes' = crashes + 1
  /\ up' = FALSE
  /\ pc' = [u \in Uploads |-> IF u \in InFlight THEN "lost" ELSE pc[u]]
  /\ sessions' = [i \in Ids |-> None]
  /\ runIndex' = [r \in RunIds |-> None]
  /\ todo' = {}
  /\ removing' = None
  /\ UNCHANGED <<id, runs, contested, files, old>>

(* The session with id i among the files.                                  *)
Loaded(i) ==
  IF files[FileFor[i]] # None /\ id[files[FileFor[i]]] = i THEN files[FileFor[i]] ELSE None

Holders(r) == {i \in Ids : Loaded(i) # None /\ r \in runs[Loaded(i)]}

(* The constructor indexes the files in the order of readdir, by name: for *)
(* a run that several sessions have, the last of them wins.                *)
Restart ==
  /\ ~up
  /\ up' = TRUE
  /\ sessions' = [i \in Ids |-> Loaded(i)]
  /\ runIndex' \in [RunIds -> Ids \cup {None}]
  /\ \A r \in RunIds :
       IF Holders(r) = {} THEN runIndex'[r] = None
       ELSE /\ runIndex'[r] \in Holders(r)
            /\ \A i \in Holders(r) : FileFor[i] <= FileFor[runIndex'[r]]
  /\ UNCHANGED <<requestVars, files, old, sweepVars, crashes>>

Next ==
  \/ \E u \in Uploads :
       \/ \E i \in Ids, rs \in SUBSET RunIds : Receive(u, i, rs)
       \/ WriteFails(u) \/ Rename(u) \/ Index(u)
       \/ Age(u)
       \/ Unlink(u)
  \/ StartSweep \/ UnlinkFails \/ Forget
  \/ Crash \/ Restart

Spec == Init /\ [][Next]_vars

-----------------------------------------------------------------------------
(* (A file is whole: the upload in it was renamed into place, and may have *)
(* been answered or lost in a crash since; ARCHITECTURE.md:243-244.)       *)
TypeOK ==
  /\ up \in BOOLEAN
  /\ pc \in [Uploads -> {"new", "conflict", "writing", "failed", "renamed", "created", "lost"}]
  /\ id \in [Uploads -> Ids \cup {None}]
  /\ runs \in [Uploads -> SUBSET RunIds]
  /\ \A u \in Uploads : pc[u] # "new" => id[u] # None
  /\ files \in [Names -> Uploads \cup {None}]
  /\ sessions \in [Ids -> Uploads \cup {None}]
  /\ \A n \in Names : files[n] # None =>
       NameOf(files[n]) = n /\ pc[files[n]] \in {"renamed", "created", "lost"}
  /\ \A i \in Ids : sessions[i] # None =>
       id[sessions[i]] = i /\ pc[sessions[i]] \in {"created", "lost"}
  /\ runIndex \in [RunIds -> Ids \cup {None}]
  /\ old \subseteq Uploads
  /\ todo \subseteq old
  /\ removing \in todo \cup {None}
  /\ contested \subseteq Names
  /\ crashes \in 0..MaxCrashes

(* What the API answers is what a restart would load, whatever uploads,    *)
(* sweeps and crashes did, but for an upload between rename and index and  *)
(* a removal between rm and index.  (Uploads of one id at the same time    *)
(* both pass the check, and may leave one in memory and the other on disk, *)
(* store.ts:72; and an upload of an id in another spelling replaces the    *)
(* file of the first, store.ts:228.)                                       *)
MemoryMatchesDisk ==
  up => \A i \in Ids : FileFor[i] \notin contested =>
    \/ sessions[i] = Loaded(i)
    \/ sessions[i] = None /\ Loaded(i) \in InFlight
    \/ files[FileFor[i]] = None /\ sessions[i] = removing

(* "Plain files ... renamed into place" (store.ts:201-204): a session that *)
(* was answered with 201 is there, in memory and on disk, through sweeps   *)
(* of others and crashes, until it is older than the retention.            *)
AnsweredIsDurable ==
  \A u \in Uploads \ old :
    pc[u] = "created" /\ NameOf(u) \notin contested =>
      files[NameOf(u)] = u /\ (up => sessions[id[u]] = u)

(* Uploads, the sweep and crashes between any two of their steps leave a   *)
(* map that a request stores in and only the retention removes from: no    *)
(* rename replaces the file of another session and no rm removes one       *)
(* (store.ts:201-204).  An id counts there without regard to its spelling. *)
Map == INSTANCE SessionMap WITH
         Ids <- Names,
         Sessions <- Uploads,
         id <- [u \in Uploads |-> IF id[u] = None THEN None ELSE NameOf(u)],
         stored <- [n \in Names |-> IF n \in contested THEN None ELSE files[n]],
         disputed <- contested,
         answered <- {u \in Uploads : pc[u] = "created"},
         expired <- old

ImplementsMap == Map!Spec

(* getRun: the session that answers for run r.                             *)
Answer(r) ==
  IF runIndex[r] # None /\ sessions[runIndex[r]] # None /\ r \in runs[sessions[runIndex[r]]]
  THEN runIndex[r] ELSE None

(* A run that is listed with its session is found by its id.  "The same    *)
(* run uploaded twice maps to one entry" (store.ts:67), which the sweep of *)
(* another session with the run may remove: only then is it not found.     *)
RunFound ==
  \A i \in Ids : FileFor[i] \notin contested /\ sessions[i] # None =>
    \A r \in runs[sessions[i]] :
      \/ Answer(r) # None
      \/ \E v \in Uploads \ {sessions[i]} : r \in runs[v] /\ (v \in old \/ NameOf(v) \in contested)

(* While the process runs, a run that a session answers for stays found    *)
(* until that session is removed, whichever other session with the run is  *)
(* uploaded or swept (store.ts:180: only entries of its own).              *)
FoundStaysFound ==
  [][\A r \in RunIds :
       Answer(r) # None /\ up' /\ FileFor[Answer(r)] \notin contested' =>
         Answer(r)' # None \/ sessions'[Answer(r)] = None]_vars

=============================================================================
