----------------------------- MODULE SessionMap -----------------------------
(***************************************************************************)
(* What the session store promises its clients, with no files, no index,   *)
(* no sweep and no crashes: a map from ids to sessions.  A session is      *)
(* stored under an id that is free, is answered only once it is stored,    *)
(* and is removed only after it expired; a removed session never returns,  *)
(* and nothing else happens to the map.  Ids count without regard to upper *)
(* and lower case.  Of an id that was requested twice at the same time, or *)
(* in two spellings, nothing is promised from then on.                     *)
(***************************************************************************)
CONSTANTS Ids, Sessions, None

VARIABLES
  id,       \* the id each session was uploaded with
  stored,   \* the session of each id
  disputed, \* ids that were requested twice at the same time, or in two spellings
  answered, \* sessions that were answered with 201
  expired   \* sessions older than the retention

vars == <<id, stored, disputed, answered, expired>>

Init ==
  /\ id = [s \in Sessions |-> None]
  /\ stored = [i \in Ids |-> None]
  /\ disputed = {}
  /\ answered = {}
  /\ expired = {}

Request(s, i) ==
  /\ id[s] = None
  /\ id' = [id EXCEPT ![s] = i]
  /\ \/ UNCHANGED <<stored, disputed>>
     \/ disputed' = disputed \cup {i} /\ stored' = [stored EXCEPT ![i] = None]
  /\ UNCHANGED <<answered, expired>>

Store(s) ==
  /\ id[s] \in Ids \ disputed
  /\ stored[id[s]] = None
  /\ s \notin answered \cup expired
  /\ stored' = [stored EXCEPT ![id[s]] = s]
  /\ UNCHANGED <<id, disputed, answered, expired>>

Answer(s) ==
  /\ id[s] \in Ids
  /\ id[s] \in disputed \/ stored[id[s]] = s
  /\ answered' = answered \cup {s}
  /\ UNCHANGED <<id, stored, disputed, expired>>

Expire(s) ==
  /\ expired' = expired \cup {s}
  /\ UNCHANGED <<id, stored, disputed, answered>>

Remove(s) ==
  /\ s \in expired
  /\ id[s] \in Ids /\ stored[id[s]] = s
  /\ stored' = [stored EXCEPT ![id[s]] = None]
  /\ UNCHANGED <<id, disputed, answered, expired>>

Next ==
  \E s \in Sessions :
    \/ \E i \in Ids : Request(s, i)
    \/ Store(s) \/ Answer(s) \/ Expire(s) \/ Remove(s)

Spec == Init /\ [][Next]_vars

=============================================================================
