------------------------- MODULE SessionStoreProofs -------------------------
(***************************************************************************)
(* The session store, proved for any number of uploads, ids and crashes.   *)
(* Files and memory agree because an upload of a name that is not          *)
(* contested is alone with it (FlightAlone), a session in memory is the    *)
(* only one of its name, in whatever spelling (SpellingAlone), and because *)
(* what a sweep has on its list stays in memory until the sweep forgets it *)
(* (SweepHolds).                                                           *)
(***************************************************************************)
EXTENDS SessionStore, TLAPS

(* Nothing is under way while the process is down.                         *)
DownIsIdle ==
  ~up => /\ InFlight = {}
         /\ \A i \in Ids : sessions[i] = None
         /\ todo = {}

(* An upload under way whose name is not contested is alone with it.       *)
FlightAlone ==
  \A u \in InFlight : NameOf(u) \notin contested =>
    /\ \A i \in Ids : FileFor[i] = NameOf(u) => sessions[i] = None
    /\ pc[u] = "renamed" => files[NameOf(u)] = u
    /\ \A v \in InFlight : NameOf(v) = NameOf(u) => v = u

(* Of the spellings of one id, one is in memory, unless it is contested.   *)
SpellingAlone ==
  \A i, j \in Ids :
    FileFor[i] = FileFor[j] /\ FileFor[i] \notin contested
      /\ sessions[i] # None /\ sessions[j] # None => i = j

(* Sessions the sweep has listed are in memory, without the file of the    *)
(* one it removes.                                                         *)
SweepHolds ==
  \A u \in todo : NameOf(u) \notin contested =>
    /\ sessions[id[u]] = u
    /\ removing = u => files[NameOf(u)] = None

OldIsOver == \A u \in old : pc[u] \notin {"new", "writing", "renamed"}

IInv ==
  /\ TypeOK
  /\ DownIsIdle
  /\ FlightAlone
  /\ SpellingAlone
  /\ SweepHolds
  /\ OldIsOver
  /\ MemoryMatchesDisk
  /\ AnsweredIsDurable

LEMMA InitInv ==
  ASSUME StoreAssumption
  PROVE  Init => IInv
BY DEF StoreAssumption, Init, IInv, TypeOK, DownIsIdle, FlightAlone, SpellingAlone, SweepHolds, OldIsOver,
   MemoryMatchesDisk, AnsweredIsDurable, InFlight, Loaded

-----------------------------------------------------------------------------
LEMMA HasName ==
  ASSUME StoreAssumption, TypeOK, NEW u \in Uploads, pc[u] # "new"
  PROVE  id[u] \in Ids /\ id[u] # None /\ NameOf(u) \in Names
BY DEF StoreAssumption, TypeOK, NameOf

LEMMA HasLoaded ==
  ASSUME StoreAssumption, TypeOK, NEW i \in Ids
  PROVE  /\ Loaded(i) \in Uploads \cup {None}
         /\ FileFor[i] \in Names
         /\ Loaded(i) # None => Loaded(i) = files[FileFor[i]] /\ id[Loaded(i)] = i
BY DEF StoreAssumption, TypeOK, Loaded

LEMMA ReceiveInv ==
  ASSUME StoreAssumption, IInv,
         NEW u \in Uploads, NEW i \in Ids, NEW rs \in SUBSET RunIds, Receive(u, i, rs)
  PROVE  IInv'
<1> USE DEF IInv, Receive, memoryVars, sweepVars
<1>1. TypeOK'
  <2>1. \A v \in Uploads : v # u => id'[v] = id[v] /\ pc'[v] = pc[v]
    BY DEF TypeOK
  <2>2. /\ \A n \in Names : files[n] # u
        /\ \A j \in Ids : sessions[j] # u
    BY DEF TypeOK, StoreAssumption
  <2>3. id'[u] # None
    BY DEF TypeOK, StoreAssumption
  <2>4. contested' \subseteq Names
    <3>1. contested \subseteq Names /\ FileFor[i] \in Names
      BY DEF TypeOK, StoreAssumption
    <3>2. QED
      BY <3>1
  <2>5. /\ pc' \in [Uploads -> {"new", "conflict", "writing", "failed", "renamed", "created", "lost"}]
        /\ id' \in [Uploads -> Ids \cup {None}]
        /\ runs' \in [Uploads -> SUBSET RunIds]
    BY DEF TypeOK
  <2>6. ASSUME NEW j \in Ids
        PROVE  sessions[j] # None => id'[sessions[j]] = j /\ pc'[sessions[j]] = pc[sessions[j]]
    <3>1. sessions[j] # None => sessions[j] \in Uploads /\ id[sessions[j]] = j
      BY DEF TypeOK
    <3>2. QED
      BY <2>1, <2>2, <3>1
  <2>7. ASSUME NEW n \in Names
        PROVE  files[n] # None => NameOf(files[n])' = n /\ pc'[files[n]] = pc[files[n]]
    <3>1. files[n] # None => files[n] \in Uploads /\ NameOf(files[n]) = n
      BY DEF TypeOK
    <3>2. QED
      BY <2>1, <2>2, <3>1 DEF NameOf
  <2>8. QED
    BY <2>1, <2>3, <2>4, <2>5, <2>6, <2>7 DEF TypeOK
<1>2. \A v \in Uploads : pc[v] # "new" => id'[v] = id[v] /\ pc'[v] = pc[v]
  BY DEF TypeOK
<1>3. contested \subseteq contested'
  OBVIOUS
<1>4. \A v \in Uploads : pc[v] # "new" => NameOf(v)' = NameOf(v)
  BY <1>2 DEF NameOf
<1>5. DownIsIdle'
  BY DEF DownIsIdle, InFlight
<1>6. FlightAlone'
  <2>1. CASE sessions[i] # None
    <3>1. InFlight' = InFlight
      BY <2>1 DEF TypeOK, InFlight
    <3>2. \A v \in InFlight : pc[v] # "new"
      BY DEF InFlight
    <3>3. QED
      BY <1>2, <1>3, <1>4, <3>1, <3>2 DEF FlightAlone, InFlight
  <2>2. CASE sessions[i] = None
    <3> SUFFICES ASSUME NEW w \in InFlight', NameOf(w)' \notin contested'
        PROVE  /\ \A j \in Ids : FileFor[j] = NameOf(w)' => sessions[j] = None
               /\ pc'[w] = "renamed" => files[NameOf(w)'] = w
               /\ \A v \in InFlight' : NameOf(v)' = NameOf(w)' => v = w
      BY DEF FlightAlone
    <3>1. InFlight' = InFlight \cup {u} /\ u \notin InFlight /\ InFlight \subseteq Uploads
      BY <2>2 DEF TypeOK, InFlight
    <3>2. \A v \in InFlight : NameOf(v)' = NameOf(v) /\ pc'[v] = pc[v]
      BY <1>2, <1>4 DEF InFlight
    <3>3. NameOf(u)' = FileFor[i] /\ pc'[u] = "writing"
      BY <2>2 DEF TypeOK, NameOf
    <3>4. FileFor[i] \notin contested' =>
            /\ \A v \in InFlight : NameOf(v) # FileFor[i]
            /\ \A j \in Ids : FileFor[j] = FileFor[i] => sessions[j] = None
      BY <2>2 DEF Rivals
    <3>5. CASE w = u
      BY <3>1, <3>2, <3>3, <3>4, <3>5
    <3>6. CASE w \in InFlight
      BY <1>3, <3>1, <3>2, <3>3, <3>4, <3>6 DEF FlightAlone
    <3>7. QED
      BY <3>1, <3>5, <3>6
  <2>3. QED
    BY <2>1, <2>2
<1>7. SpellingAlone'
  BY <1>3 DEF SpellingAlone
<1>8. SweepHolds'
  BY <1>2, <1>3, <1>4 DEF SweepHolds, OldIsOver, TypeOK
<1>9. OldIsOver'
  BY <1>2 DEF OldIsOver, TypeOK
<1>10. MemoryMatchesDisk'
  <2>1. \A j \in Ids : Loaded(j)' = Loaded(j)
    <3>1. \A n \in Names : files[n] # None => files[n] \in Uploads /\ pc[files[n]] # "new"
      BY DEF TypeOK
    <3>2. QED
      BY <1>2, <3>1 DEF Loaded, StoreAssumption
  <2>2. \A v \in InFlight : v \in InFlight'
    BY <1>2 DEF InFlight
  <2>3. QED
    BY <1>3, <2>1, <2>2 DEF MemoryMatchesDisk
<1>11. AnsweredIsDurable'
  BY <1>2, <1>3, <1>4 DEF AnsweredIsDurable, TypeOK
<1>12. QED
  BY <1>1, <1>5, <1>6, <1>7, <1>8, <1>9, <1>10, <1>11

LEMMA FailsInv ==
  ASSUME StoreAssumption, IInv, NEW u \in Uploads, WriteFails(u)
  PROVE  IInv'
<1> USE DEF IInv, WriteFails, InFlight, memoryVars, sweepVars
<1>1. TypeOK'
  BY DEF TypeOK, NameOf
<1>2. DownIsIdle' /\ FlightAlone'
  BY DEF DownIsIdle, FlightAlone, TypeOK, NameOf
<1>3. SpellingAlone' /\ SweepHolds' /\ OldIsOver'
  BY DEF SpellingAlone, SweepHolds, OldIsOver, TypeOK, NameOf
<1>4. MemoryMatchesDisk'
  <2>1. \A j \in Ids : Loaded(j)' = Loaded(j) /\ Loaded(j) # u
    BY DEF Loaded, TypeOK, StoreAssumption
  <2>2. QED
    BY <2>1 DEF MemoryMatchesDisk, TypeOK
<1>5. AnsweredIsDurable'
  BY DEF AnsweredIsDurable, TypeOK, NameOf
<1>6. QED
  BY <1>1, <1>2, <1>3, <1>4, <1>5

LEMMA RenameInv ==
  ASSUME StoreAssumption, IInv, NEW u \in Uploads, Rename(u)
  PROVE  IInv'
<1> USE DEF IInv, Rename, memoryVars, sweepVars
<1>1. u \in InFlight /\ up /\ id[u] \in Ids /\ NameOf(u) \in Names /\ u # None
  BY HasName DEF DownIsIdle, InFlight, StoreAssumption
<1>2. \A v \in Uploads : NameOf(v)' = NameOf(v)
  BY DEF NameOf
<1>3. /\ InFlight' = InFlight /\ InFlight \subseteq Uploads
      /\ \A v \in Uploads \ {u} : pc'[v] = pc[v]
      /\ pc'[u] = "renamed"
  BY DEF TypeOK, InFlight
<1>4. /\ files'[NameOf(u)] = u
      /\ \A n \in Names \ {NameOf(u)} : files'[n] = files[n]
  BY <1>1 DEF TypeOK
<1>5. TypeOK'
  <2>1. /\ pc' \in [Uploads -> {"new", "conflict", "writing", "failed", "renamed", "created", "lost"}]
        /\ files' \in [Names -> Uploads \cup {None}]
    BY DEF TypeOK
  <2>2. ASSUME NEW n \in Names, files'[n] # None
        PROVE  FileFor[id[files'[n]]] = n /\ pc'[files'[n]] \in {"renamed", "created", "lost"}
    <3>1. CASE n = NameOf(u)
      BY <1>3, <1>4, <3>1 DEF NameOf
    <3>2. CASE n # NameOf(u)
      <4>1. files'[n] = files[n] /\ files[n] \in Uploads
        BY <1>4, <2>2, <3>2 DEF TypeOK
      <4>2. FileFor[id[files[n]]] = n /\ pc[files[n]] \in {"renamed", "created", "lost"}
        BY <2>2, <4>1 DEF TypeOK, NameOf
      <4>3. QED
        BY <1>3, <3>2, <4>1, <4>2 DEF NameOf
    <3>3. QED
      BY <3>1, <3>2
  <2>3. \A i \in Ids : sessions[i] # None =>
          id[sessions[i]] = i /\ pc'[sessions[i]] \in {"created", "lost"}
    BY <1>3 DEF TypeOK
  <2>4. \A v \in Uploads : pc'[v] # "new" => id[v] # None
    BY <1>3 DEF TypeOK
  <2>5. QED
    BY <2>1, <2>2, <2>3, <2>4 DEF TypeOK, NameOf
<1>6. DownIsIdle' /\ OldIsOver' /\ SpellingAlone'
  BY <1>1, <1>3 DEF DownIsIdle, OldIsOver, SpellingAlone, TypeOK, InFlight
<1>7. NameOf(u) \notin contested =>
        /\ \A i \in Ids : FileFor[i] = NameOf(u) => sessions[i] = None
        /\ \A v \in InFlight : NameOf(v) = NameOf(u) => v = u
  BY <1>1 DEF FlightAlone
<1>8. FlightAlone'
  <2>1. \A v \in InFlight : NameOf(v) \in Names
    BY HasName DEF InFlight
  <2>2. QED
    BY <1>2, <1>3, <1>4, <1>7, <2>1 DEF FlightAlone
<1>9. SweepHolds'
  <2>1. \A v \in todo : v \in Uploads /\ v # None /\ id[v] \in Ids /\ NameOf(v) \in Names
    BY HasName DEF OldIsOver, TypeOK, StoreAssumption
  <2>2. QED
    BY <1>2, <1>4, <1>7, <2>1 DEF SweepHolds, NameOf
<1>10. MemoryMatchesDisk'
  <2> SUFFICES ASSUME NEW i \in Ids, FileFor[i] \notin contested
      PROVE  \/ sessions[i] = Loaded(i)'
             \/ sessions[i] = None /\ Loaded(i)' \in InFlight
             \/ files'[FileFor[i]] = None /\ sessions[i] = removing
    BY <1>3 DEF MemoryMatchesDisk
  <2>1. FileFor[i] \in Names
    BY DEF StoreAssumption
  <2>2. CASE FileFor[i] = NameOf(u)
    <3>1. sessions[i] = None
      BY <1>7, <2>2
    <3>2. Loaded(i)' \in {u, None}
      BY <1>4, <2>2 DEF Loaded
    <3>3. QED
      BY <1>1, <3>1, <3>2
  <2>3. CASE FileFor[i] # NameOf(u)
    <3>1. Loaded(i)' = Loaded(i) /\ files'[FileFor[i]] = files[FileFor[i]]
      BY <1>4, <2>1, <2>3 DEF Loaded
    <3>2. QED
      BY <1>1, <3>1 DEF MemoryMatchesDisk
  <2>4. QED
    BY <2>2, <2>3
<1>11. AnsweredIsDurable'
  <2> SUFFICES ASSUME NEW v \in Uploads \ old, pc'[v] = "created", NameOf(v) \notin contested
      PROVE  files'[NameOf(v)] = v /\ sessions[id[v]] = v
    BY <1>2 DEF AnsweredIsDurable
  <2>1. pc[v] = "created" /\ v # None
    BY <1>3 DEF StoreAssumption
  <2>2. files[NameOf(v)] = v /\ sessions[id[v]] = v
    BY <1>1, <2>1 DEF AnsweredIsDurable
  <2>3. id[v] \in Ids /\ NameOf(v) \in Names
    BY <2>1, HasName
  <2>4. NameOf(v) # NameOf(u)
    BY <1>7, <2>1, <2>2, <2>3 DEF NameOf
  <2>5. QED
    BY <1>4, <2>2, <2>3, <2>4
<1>12. QED
  BY <1>5, <1>6, <1>8, <1>9, <1>10, <1>11

LEMMA IndexInv ==
  ASSUME StoreAssumption, IInv, NEW u \in Uploads, Index(u)
  PROVE  IInv'
<1> USE DEF IInv, Index, sweepVars
<1>1. u \in InFlight /\ up /\ id[u] \in Ids /\ NameOf(u) \in Names /\ u # None
  BY HasName DEF DownIsIdle, InFlight, StoreAssumption
<1>2. /\ \A v \in Uploads : NameOf(v)' = NameOf(v)
      /\ \A i \in Ids : Loaded(i)' = Loaded(i)
  BY DEF NameOf, Loaded
<1>3. /\ InFlight' = InFlight \ {u} /\ InFlight \subseteq Uploads
      /\ \A v \in Uploads \ {u} : pc'[v] = pc[v]
      /\ pc'[u] = "created"
  BY DEF TypeOK, InFlight
<1>4. /\ sessions'[id[u]] = u
      /\ \A i \in Ids \ {id[u]} : sessions'[i] = sessions[i]
  BY <1>1 DEF TypeOK
<1>5. TypeOK'
  <2>1. /\ pc' \in [Uploads -> {"new", "conflict", "writing", "failed", "renamed", "created", "lost"}]
        /\ sessions' \in [Ids -> Uploads \cup {None}]
        /\ runIndex' \in [RunIds -> Ids \cup {None}]
    BY <1>1 DEF TypeOK
  <2>2. \A n \in Names : files[n] # None =>
          NameOf(files[n])' = n /\ pc'[files[n]] \in {"renamed", "created", "lost"}
    BY <1>2, <1>3 DEF TypeOK
  <2>3. \A i \in Ids : sessions'[i] # None =>
          id[sessions'[i]] = i /\ pc'[sessions'[i]] \in {"created", "lost"}
    BY <1>3, <1>4 DEF TypeOK
  <2>4. \A v \in Uploads : pc'[v] # "new" => id[v] # None
    BY <1>3 DEF TypeOK
  <2>5. QED
    BY <2>1, <2>2, <2>3, <2>4 DEF TypeOK
<1>6. DownIsIdle' /\ OldIsOver'
  BY <1>1, <1>3 DEF DownIsIdle, OldIsOver, TypeOK
<1>7. NameOf(u) \notin contested =>
        /\ \A i \in Ids : FileFor[i] = NameOf(u) => sessions[i] = None
        /\ \A v \in InFlight : NameOf(v) = NameOf(u) => v = u
        /\ files[NameOf(u)] = u
  BY <1>1 DEF FlightAlone
<1>8. FileFor[id[u]] = NameOf(u)
  BY DEF NameOf
<1>9. FlightAlone'
  BY <1>2, <1>3, <1>4, <1>7, <1>8 DEF FlightAlone
<1>10. SpellingAlone'
  BY <1>4, <1>7, <1>8 DEF SpellingAlone
<1>11. SweepHolds'
  <2>1. \A v \in todo : v \in Uploads /\ v # None /\ id[v] \in Ids /\ FileFor[id[v]] = NameOf(v)
    BY HasName DEF OldIsOver, TypeOK, StoreAssumption, NameOf
  <2>2. QED
    <3> SUFFICES ASSUME NEW v \in todo, NameOf(v) \notin contested
        PROVE  sessions'[id[v]] = v /\ (removing = v => files[NameOf(v)] = None)
      BY <1>2, <2>1 DEF SweepHolds
    <3>1. sessions[id[v]] = v /\ (removing = v => files[NameOf(v)] = None)
      BY DEF SweepHolds
    <3>2. id[v] # id[u]
      BY <1>7, <1>8, <2>1, <3>1
    <3>3. QED
      BY <1>4, <2>1, <3>1, <3>2
<1>12. MemoryMatchesDisk'
  <2> SUFFICES ASSUME NEW i \in Ids, FileFor[i] \notin contested
      PROVE  \/ sessions'[i] = Loaded(i)
             \/ sessions'[i] = None /\ Loaded(i) \in InFlight'
             \/ files[FileFor[i]] = None /\ sessions'[i] = removing
    BY <1>2 DEF MemoryMatchesDisk
  <2>1. CASE i = id[u]
    BY <1>1, <1>4, <1>7, <1>8, <2>1 DEF Loaded
  <2>2. CASE i # id[u] /\ FileFor[i] = NameOf(u)
    <3>1. Loaded(i) = None /\ sessions'[i] = None
      BY <1>4, <1>7, <2>2 DEF Loaded
    <3>2. QED
      BY <3>1
  <2>3. CASE FileFor[i] # NameOf(u)
    <3>1. sessions'[i] = sessions[i]
      BY <1>4, <1>8, <2>3
    <3>2. Loaded(i) # u
      BY <1>1, <1>8, <2>3, HasLoaded
    <3>3. QED
      BY <1>1, <1>3, <3>1, <3>2 DEF MemoryMatchesDisk
  <2>4. QED
    BY <2>1, <2>2, <2>3
<1>13. AnsweredIsDurable'
  <2> SUFFICES ASSUME NEW v \in Uploads \ old, pc'[v] = "created", NameOf(v) \notin contested
      PROVE  files[NameOf(v)] = v /\ sessions'[id[v]] = v
    BY <1>2 DEF AnsweredIsDurable
  <2>1. CASE v = u
    BY <1>4, <1>7, <2>1
  <2>2. CASE v # u
    <3>1. pc[v] = "created" /\ v # None
      BY <1>3, <2>2 DEF StoreAssumption
    <3>2. files[NameOf(v)] = v /\ sessions[id[v]] = v
      BY <1>1, <3>1 DEF AnsweredIsDurable
    <3>3. id[v] \in Ids /\ FileFor[id[v]] = NameOf(v)
      BY <3>1, HasName DEF NameOf
    <3>4. QED
      BY <1>4, <1>7, <1>8, <3>1, <3>2, <3>3
  <2>3. QED
    BY <2>1, <2>2
<1>14. QED
  BY <1>5, <1>6, <1>9, <1>10, <1>11, <1>12, <1>13

-----------------------------------------------------------------------------
LEMMA AgeInv ==
  ASSUME IInv, NEW u \in Uploads, Age(u)
  PROVE  IInv'
BY DEF IInv, Age, TypeOK, DownIsIdle, FlightAlone, SpellingAlone, SweepHolds, OldIsOver,
   MemoryMatchesDisk, AnsweredIsDurable, InFlight, NameOf, Loaded, requestVars, memoryVars,
   sweepVars

LEMMA SweepStartInv ==
  ASSUME StoreAssumption, IInv, StartSweep
  PROVE  IInv'
<1> USE DEF IInv, StartSweep, requestVars, memoryVars
<1>1. /\ \A v \in Uploads : NameOf(v)' = NameOf(v)
      /\ \A i \in Ids : Loaded(i)' = Loaded(i)
      /\ InFlight' = InFlight /\ InFlight \subseteq Uploads
  BY DEF NameOf, Loaded, InFlight
<1>2. TypeOK'
  BY <1>1 DEF TypeOK
<1>3. SweepHolds'
  BY <1>1 DEF TypeOK, SweepHolds, StoreAssumption
<1>4. DownIsIdle' /\ FlightAlone' /\ SpellingAlone' /\ OldIsOver'
  BY <1>1 DEF DownIsIdle, FlightAlone, SpellingAlone, OldIsOver
<1>5. MemoryMatchesDisk' /\ AnsweredIsDurable'
  BY <1>1 DEF MemoryMatchesDisk, AnsweredIsDurable
<1>6. QED
  BY <1>2, <1>3, <1>4, <1>5

LEMMA UnlinkInv ==
  ASSUME StoreAssumption, IInv, NEW u \in Uploads, Unlink(u)
  PROVE  IInv'
<1> USE DEF IInv, Unlink, requestVars, memoryVars
<1>1. up /\ u \in old /\ id[u] \in Ids /\ NameOf(u) \in Names /\ FileFor[id[u]] = NameOf(u)
      /\ u # None
  BY HasName DEF DownIsIdle, OldIsOver, TypeOK, NameOf, StoreAssumption
<1>2. NameOf(u) \notin contested => sessions[id[u]] = u
  BY DEF SweepHolds
<1>3. /\ \A v \in Uploads : NameOf(v)' = NameOf(v)
      /\ InFlight' = InFlight /\ InFlight \subseteq Uploads
  BY DEF NameOf, InFlight
<1>4. /\ files'[NameOf(u)] = None
      /\ \A n \in Names \ {NameOf(u)} : files'[n] = files[n]
  BY <1>1 DEF TypeOK
<1>5. TypeOK'
  <2>1. files' \in [Names -> Uploads \cup {None}]
    BY DEF TypeOK
  <2>2. ASSUME NEW n \in Names, files'[n] # None
        PROVE  FileFor[id[files'[n]]] = n /\ pc[files'[n]] \in {"renamed", "created", "lost"}
    BY <1>4, <2>2 DEF TypeOK, NameOf
  <2>3. removing' \in todo
    OBVIOUS
  <2>4. QED
    BY <2>1, <2>2, <2>3 DEF TypeOK, NameOf
<1>6. DownIsIdle' /\ OldIsOver' /\ SpellingAlone'
  BY <1>3 DEF DownIsIdle, OldIsOver, SpellingAlone
<1>7. FlightAlone'
  <2>1. \A v \in InFlight : NameOf(v) \in Names
    BY HasName DEF InFlight
  <2>2. \A v \in InFlight : NameOf(v) \notin contested => NameOf(v) # NameOf(u)
    BY <1>1, <1>2 DEF FlightAlone
  <2>3. QED
    BY <1>3, <1>4, <2>1, <2>2 DEF FlightAlone
<1>8. SweepHolds'
  <2>1. \A v \in todo : v \in Uploads /\ NameOf(v) \in Names
    BY HasName DEF OldIsOver, TypeOK
  <2>2. QED
    BY <1>1, <1>3, <1>4, <2>1 DEF SweepHolds, TypeOK
<1>9. \A i \in Ids : FileFor[i] = NameOf(u) /\ FileFor[i] \notin contested /\ i # id[u] =>
        sessions[i] = None
  BY <1>1, <1>2 DEF SpellingAlone
<1>10. MemoryMatchesDisk'
  <2> SUFFICES ASSUME NEW i \in Ids, FileFor[i] \notin contested
      PROVE  \/ sessions[i] = Loaded(i)'
             \/ sessions[i] = None /\ Loaded(i)' \in InFlight
             \/ files'[FileFor[i]] = None /\ sessions[i] = removing'
    BY <1>3 DEF MemoryMatchesDisk
  <2>1. FileFor[i] \in Names
    BY DEF StoreAssumption
  <2>2. CASE FileFor[i] = NameOf(u)
    <3>1. Loaded(i)' = None
      BY <1>4, <2>2 DEF Loaded
    <3>2. CASE i = id[u]
      BY <1>2, <1>4, <2>2, <3>2
    <3>3. CASE i # id[u]
      BY <1>9, <2>2, <3>1, <3>3
    <3>4. QED
      BY <3>2, <3>3
  <2>3. CASE FileFor[i] # NameOf(u)
    <3>1. Loaded(i)' = Loaded(i) /\ files'[FileFor[i]] = files[FileFor[i]]
      BY <1>4, <2>1, <2>3 DEF Loaded
    <3>2. sessions[i] = removing => sessions[i] = None
      OBVIOUS
    <3>3. Loaded(i) = None \/ files[FileFor[i]] # None
      BY DEF Loaded
    <3>4. files[FileFor[i]] = None => Loaded(i) = None
      BY DEF Loaded
    <3>5. QED
      BY <1>1, <3>1, <3>2, <3>4 DEF MemoryMatchesDisk
  <2>4. QED
    BY <2>2, <2>3
<1>11. AnsweredIsDurable'
  <2> SUFFICES ASSUME NEW v \in Uploads \ old, pc[v] = "created", NameOf(v) \notin contested
      PROVE  files'[NameOf(v)] = v /\ sessions[id[v]] = v
    BY <1>3 DEF AnsweredIsDurable
  <2>1. files[NameOf(v)] = v /\ sessions[id[v]] = v /\ v # None
    BY <1>1 DEF AnsweredIsDurable, StoreAssumption
  <2>2. id[v] \in Ids /\ NameOf(v) \in Names /\ FileFor[id[v]] = NameOf(v)
    BY HasName DEF NameOf
  <2>3. NameOf(v) # NameOf(u)
    BY <1>1, <1>2, <1>9, <2>1, <2>2
  <2>4. QED
    BY <1>4, <2>1, <2>2, <2>3
<1>12. QED
  BY <1>5, <1>6, <1>7, <1>8, <1>10, <1>11

LEMMA UnlinkFailsInv ==
  ASSUME IInv, UnlinkFails
  PROVE  IInv'
BY DEF IInv, UnlinkFails, TypeOK, DownIsIdle, FlightAlone, SpellingAlone, SweepHolds, OldIsOver,
   MemoryMatchesDisk, AnsweredIsDurable, InFlight, NameOf, Loaded, requestVars, memoryVars

LEMMA ForgetInv ==
  ASSUME StoreAssumption, IInv, Forget
  PROVE  IInv'
<1> USE DEF IInv, Forget, requestVars
<1>1. /\ removing \in todo /\ removing \in old /\ removing \in Uploads /\ up
      /\ id[removing] \in Ids /\ FileFor[id[removing]] = NameOf(removing)
      /\ removing # None
  BY HasName DEF DownIsIdle, OldIsOver, TypeOK, NameOf, StoreAssumption
<1>2. NameOf(removing) \notin contested =>
        sessions[id[removing]] = removing /\ files[NameOf(removing)] = None
  BY <1>1 DEF SweepHolds
<1>3. /\ \A v \in Uploads : NameOf(v)' = NameOf(v)
      /\ \A i \in Ids : Loaded(i)' = Loaded(i)
      /\ InFlight' = InFlight /\ InFlight \subseteq Uploads
  BY DEF NameOf, Loaded, InFlight
<1>4. /\ sessions'[id[removing]] = None
      /\ \A i \in Ids \ {id[removing]} : sessions'[i] = sessions[i]
  BY <1>1 DEF TypeOK
<1>5. TypeOK'
  BY <1>1 DEF TypeOK, NameOf
<1>6. DownIsIdle' /\ OldIsOver' /\ SpellingAlone'
  BY <1>1, <1>4 DEF DownIsIdle, OldIsOver, SpellingAlone
<1>7. FlightAlone'
  BY <1>3, <1>4 DEF FlightAlone
<1>8. SweepHolds'
  <2>1. \A v \in todo : v \in Uploads /\ v # None /\ id[v] \in Ids /\ FileFor[id[v]] = NameOf(v)
    BY HasName DEF OldIsOver, TypeOK, StoreAssumption, NameOf
  <2>2. QED
    BY <1>1, <1>2, <1>3, <1>4, <2>1 DEF SweepHolds, TypeOK
<1>9. MemoryMatchesDisk'
  <2> SUFFICES ASSUME NEW i \in Ids, FileFor[i] \notin contested
      PROVE  \/ sessions'[i] = Loaded(i)
             \/ sessions'[i] = None /\ Loaded(i) \in InFlight
             \/ files[FileFor[i]] = None /\ sessions'[i] = removing'
    BY <1>3 DEF MemoryMatchesDisk
  <2>1. CASE i = id[removing]
    BY <1>1, <1>2, <1>4, <2>1 DEF Loaded
  <2>2. CASE i # id[removing]
    <3>1. sessions'[i] = sessions[i] /\ (sessions[i] # removing)
      BY <1>1, <1>4, <2>2 DEF TypeOK
    <3>2. QED
      BY <1>1, <3>1 DEF MemoryMatchesDisk
  <2>3. QED
    BY <2>1, <2>2
<1>10. AnsweredIsDurable'
  <2> SUFFICES ASSUME NEW v \in Uploads \ old, pc[v] = "created", NameOf(v) \notin contested
      PROVE  files[NameOf(v)] = v /\ sessions'[id[v]] = v
    BY <1>3 DEF AnsweredIsDurable
  <2>1. files[NameOf(v)] = v /\ sessions[id[v]] = v /\ v # None /\ v # removing
    BY <1>1 DEF AnsweredIsDurable, StoreAssumption
  <2>2. id[v] \in Ids /\ FileFor[id[v]] = NameOf(v)
    BY HasName DEF NameOf
  <2>3. id[v] # id[removing]
    BY <1>1, <1>2, <2>1, <2>2
  <2>4. QED
    BY <1>4, <2>1, <2>2, <2>3
<1>11. QED
  BY <1>5, <1>6, <1>7, <1>8, <1>9, <1>10

-----------------------------------------------------------------------------
LEMMA CrashInv ==
  ASSUME StoreAssumption, IInv, Crash
  PROVE  IInv'
<1> USE DEF IInv, Crash, InFlight
<1>1. InFlight' = {}
  BY DEF TypeOK
<1>2. TypeOK'
  <2>1. crashes' \in 0..MaxCrashes
    BY DEF TypeOK, StoreAssumption
  <2>2. pc' \in [Uploads -> {"new", "conflict", "writing", "failed", "renamed", "created", "lost"}]
    BY DEF TypeOK
  <2>3. \A n \in Names : files[n] # None =>
          FileFor[id[files[n]]] = n /\ pc'[files[n]] \in {"renamed", "created", "lost"}
    BY DEF TypeOK, NameOf
  <2>4. QED
    BY <2>1, <2>2, <2>3 DEF TypeOK, NameOf
<1>3. DownIsIdle' /\ FlightAlone' /\ SpellingAlone' /\ SweepHolds' /\ MemoryMatchesDisk'
  BY <1>1 DEF DownIsIdle, FlightAlone, SpellingAlone, SweepHolds, MemoryMatchesDisk
<1>4. OldIsOver' /\ AnsweredIsDurable'
  BY DEF OldIsOver, AnsweredIsDurable, TypeOK, NameOf
<1>5. QED
  BY <1>2, <1>3, <1>4

LEMMA RestartInv ==
  ASSUME StoreAssumption, IInv, Restart
  PROVE  IInv'
<1> USE DEF IInv, Restart, requestVars, sweepVars
<1>1. InFlight = {} /\ todo = {} /\ ~up
  BY DEF DownIsIdle
<1>2. /\ \A v \in Uploads : NameOf(v)' = NameOf(v)
      /\ \A i \in Ids : Loaded(i)' = Loaded(i) /\ sessions'[i] = Loaded(i)
      /\ InFlight' = InFlight
  BY DEF NameOf, Loaded, InFlight
<1>3. TypeOK'
  <2>1. sessions' \in [Ids -> Uploads \cup {None}]
    BY HasLoaded
  <2>2. \A i \in Ids : Loaded(i) # None =>
          id[Loaded(i)] = i /\ pc[Loaded(i)] \in {"created", "lost"}
    <3>1. \A n \in Names : files[n] # None =>
            files[n] \in Uploads /\ pc[files[n]] \in {"created", "lost"}
      BY <1>1 DEF TypeOK, InFlight
    <3>2. QED
      BY <3>1, HasLoaded
  <2>3. \A i \in Ids : sessions'[i] # None =>
          id[sessions'[i]] = i /\ pc[sessions'[i]] \in {"created", "lost"}
    BY <1>2, <2>2
  <2>4. QED
    BY <1>1, <2>1, <2>3 DEF TypeOK, NameOf
<1>4. DownIsIdle' /\ FlightAlone' /\ SweepHolds' /\ OldIsOver'
  BY <1>1, <1>2 DEF DownIsIdle, FlightAlone, SweepHolds, OldIsOver
<1>5. SpellingAlone'
  BY <1>2, HasLoaded DEF SpellingAlone
<1>6. MemoryMatchesDisk'
  BY <1>2 DEF MemoryMatchesDisk
<1>7. AnsweredIsDurable'
  <2> SUFFICES ASSUME NEW v \in Uploads \ old, pc[v] = "created", NameOf(v) \notin contested
      PROVE  files[NameOf(v)] = v /\ sessions'[id[v]] = v
    BY <1>2 DEF AnsweredIsDurable
  <2>1. files[NameOf(v)] = v /\ v # None
    BY DEF AnsweredIsDurable, StoreAssumption
  <2>2. id[v] \in Ids /\ FileFor[id[v]] = NameOf(v)
    BY HasName DEF NameOf
  <2>3. QED
    BY <1>2, <2>1, <2>2 DEF Loaded
<1>8. QED
  BY <1>3, <1>4, <1>5, <1>6, <1>7

LEMMA StutterInv ==
  ASSUME IInv, UNCHANGED vars
  PROVE  IInv'
BY DEF IInv, TypeOK, DownIsIdle, FlightAlone, SpellingAlone, SweepHolds, OldIsOver, MemoryMatchesDisk,
   AnsweredIsDurable, InFlight, NameOf, Loaded, vars, requestVars, memoryVars, sweepVars

LEMMA StepInv ==
  ASSUME StoreAssumption, IInv, [Next]_vars
  PROVE  IInv'
BY ReceiveInv, FailsInv, RenameInv, IndexInv, AgeInv, SweepStartInv, UnlinkInv, UnlinkFailsInv,
   ForgetInv, CrashInv, RestartInv, StutterInv DEF Next

LEMMA Invariant == Spec => []IInv
<1>1. Init => IInv
  BY StoreAssumption, InitInv
<1>2. IInv /\ [Next]_vars => IInv'
  BY StoreAssumption, StepInv
<1>3. QED
  BY <1>1, <1>2, PTL DEF Spec

(* The types, and that a file only ever holds an upload renamed into place.*)
THEOREM StoreTypes == Spec => []TypeOK
<1>1. IInv => TypeOK
  BY DEF IInv
<1>2. QED
  BY <1>1, Invariant, PTL

(* Memory and files agree but for the one upload or removal under way.     *)
THEOREM RestartChangesNothing == Spec => []MemoryMatchesDisk
<1>1. IInv => MemoryMatchesDisk
  BY DEF IInv
<1>2. QED
  BY <1>1, Invariant, PTL

(* A session answered with 201 is kept until it is older than the          *)
(* retention, through crashes and the sweeps of others.                    *)
THEOREM AnsweredIsKept == Spec => []AnsweredIsDurable
<1>1. IInv => AnsweredIsDurable
  BY DEF IInv
<1>2. QED
  BY <1>1, Invariant, PTL

-----------------------------------------------------------------------------
LEMMA AnswerStep ==
  ASSUME StoreAssumption, IInv, [Next]_vars,
         NEW r \in RunIds, Answer(r) # None, up', FileFor[Answer(r)] \notin contested'
  PROVE  Answer(r)' # None \/ sessions'[Answer(r)] = None
<1> DEFINE i == Answer(r)
<1>1. i = runIndex[r] /\ i \in Ids /\ sessions[i] \in Uploads /\ r \in runs[sessions[i]] /\ up
  <2>1. i = runIndex[r] /\ i # None /\ sessions[i] # None /\ r \in runs[sessions[i]]
    BY DEF Answer
  <2> HIDE DEF i
  <2>2. i \in Ids
    BY <2>1 DEF IInv, TypeOK
  <2>3. sessions[i] \in Uploads
    <3>1. sessions \in [Ids -> Uploads \cup {None}]
      BY DEF IInv, TypeOK
    <3>2. QED
      BY <2>1, <2>2, <3>1
  <2>4. up
    BY <2>1, <2>2 DEF IInv, DownIsIdle
  <2>5. QED
    BY <2>1, <2>2, <2>3, <2>4
<1>2. ASSUME NEW u \in Uploads, NEW j \in Ids, NEW rs \in SUBSET RunIds, Receive(u, j, rs)
      PROVE  Answer(r)' = i
  BY <1>1, <1>2 DEF Receive, memoryVars, Answer, IInv, TypeOK, StoreAssumption
<1>3. ASSUME NEW u \in Uploads, Index(u)
      PROVE  Answer(r)' # None
  <2>1. id[u] \in Ids /\ id[u] # None
    BY <1>3 DEF Index, IInv, TypeOK, StoreAssumption
  <2>2. i # id[u] \/ r \in runs[u]
    BY <1>1, <1>3 DEF Index, IInv, FlightAlone, InFlight, StoreAssumption, NameOf
  <2>3. CASE r \in runs[u]
    BY <1>3, <2>1, <2>3 DEF Index, Answer, IInv, TypeOK, StoreAssumption
  <2>4. CASE r \notin runs[u]
    BY <1>1, <1>3, <2>1, <2>2, <2>4 DEF Index, Answer, IInv, TypeOK, StoreAssumption
  <2>5. QED
    BY <2>3, <2>4
<1>4. ASSUME Forget
      PROVE  Answer(r)' # None \/ sessions'[i] = None
  <2>1. CASE i = id[removing]
    BY <1>1, <1>4, <2>1 DEF Forget, IInv, TypeOK
  <2>2. CASE i # id[removing]
    BY <1>1, <1>4, <2>2 DEF Forget, requestVars, Answer, IInv, TypeOK, StoreAssumption
  <2>3. QED
    BY <2>1, <2>2
<1>5. ASSUME UNCHANGED <<memoryVars, runs>>
      PROVE  Answer(r)' = i
  BY <1>5 DEF memoryVars, Answer
<1>6. QED
  BY <1>1, <1>2, <1>3, <1>4, <1>5
     DEF Next, WriteFails, Rename, Age, StartSweep, Unlink, UnlinkFails, Crash, Restart, vars,
         requestVars

(* A run that is found stays found while the session that answers for it   *)
(* is stored.                                                              *)
THEOREM RunsStayFound == Spec => FoundStaysFound
<1>1. IInv /\ [Next]_vars =>
        [\A r \in RunIds :
           Answer(r) # None /\ up' /\ FileFor[Answer(r)] \notin contested' =>
             Answer(r)' # None \/ sessions'[Answer(r)] = None]_vars
  BY StoreAssumption, AnswerStep
<1>2. QED
  BY <1>1, Invariant, PTL DEF Spec, FoundStaysFound

-----------------------------------------------------------------------------
(* Run r of the session stored as i is found, or another upload with the   *)
(* run explains why not.                                                   *)
FoundFor(i, r) ==
  \/ Answer(r) # None
  \/ \E v \in Uploads \ {sessions[i]} : r \in runs[v] /\ (v \in old \/ NameOf(v) \in contested)

(* As long as session i stays and nobody's runs, age or ids change, what   *)
(* explained that its run is not found still explains it.                  *)
LEMMA FoundForStays ==
  ASSUME NEW i \in Ids, NEW r \in RunIds, FoundFor(i, r), UNCHANGED <<runs, id>>,
         sessions'[i] = sessions[i], old \subseteq old', contested \subseteq contested',
         Answer(r) # None => Answer(r)' # None
           \/ \E v \in Uploads \ {sessions[i]} : r \in runs[v] /\ (v \in old \/ NameOf(v) \in contested)
  PROVE  FoundFor(i, r)'
BY DEF FoundFor, NameOf

LEMMA AnswerTypes ==
  ASSUME StoreAssumption, TypeOK, NEW r \in RunIds, Answer(r) # None
  PROVE  /\ Answer(r) = runIndex[r] /\ runIndex[r] \in Ids
         /\ sessions[runIndex[r]] \in Uploads /\ sessions[runIndex[r]] # None
         /\ id[sessions[runIndex[r]]] = runIndex[r]
         /\ r \in runs[sessions[runIndex[r]]]
<1>1. /\ Answer(r) = runIndex[r] /\ runIndex[r] # None
      /\ sessions[runIndex[r]] # None /\ r \in runs[sessions[runIndex[r]]]
  BY DEF Answer
<1>2. runIndex[r] \in Ids
  BY <1>1 DEF TypeOK
<1>3. sessions[runIndex[r]] \in Uploads
  <2>1. sessions[runIndex[r]] \in Uploads \cup {None}
    BY <1>2 DEF TypeOK
  <2>2. QED
    BY <1>1, <2>1
<1>4. id[sessions[runIndex[r]]] = runIndex[r]
  BY <1>1, <1>2 DEF TypeOK
<1>5. QED
  BY <1>1, <1>2, <1>3, <1>4

(* An upload that was not received has brought no runs.                    *)
NewIsEmpty == \A u \in Uploads : pc[u] = "new" => runs[u] = {}

LEMMA NewStep ==
  ASSUME TypeOK, NewIsEmpty, [Next]_vars PROVE NewIsEmpty'
BY DEF TypeOK, NewIsEmpty, Next, Receive, WriteFails, Rename, Index, Age, StartSweep, Unlink,
       UnlinkFails, Forget, Crash, Restart, vars, requestVars, InFlight

LEMMA FoundStep ==
  ASSUME StoreAssumption, IInv, IInv', NewIsEmpty, RunFound, [Next]_vars PROVE RunFound'
<1> SUFFICES ASSUME NEW i \in Ids, FileFor[i] \notin contested', sessions'[i] # None,
                    NEW r \in RunIds, r \in runs'[sessions'[i]]
             PROVE  FoundFor(i, r)'
  BY DEF RunFound, FoundFor, IInv, TypeOK, NameOf
<1>0. TypeOK /\ TypeOK' /\ sessions'[i] \in Uploads
  BY DEF IInv, TypeOK
<1>1. ASSUME UNCHANGED <<memoryVars, runs, id>>, old \subseteq old', UNCHANGED contested
      PROVE  FoundFor(i, r)'
  <2>1. FoundFor(i, r)
    BY <1>1 DEF RunFound, FoundFor, memoryVars
  <2>2. Answer(r)' = Answer(r) /\ sessions'[i] = sessions[i]
    BY <1>1 DEF Answer, memoryVars
  <2>3. QED
    BY <1>1, <2>1, <2>2, FoundForStays
<1>2. ASSUME NEW u \in Uploads, NEW j \in Ids, NEW rs \in SUBSET RunIds, Receive(u, j, rs)
      PROVE  FoundFor(i, r)'
  <2>1. pc[u] = "new" /\ u \notin old /\ UNCHANGED <<sessions, runIndex, old>>
        /\ contested \subseteq contested'
    BY <1>2 DEF Receive, memoryVars, IInv, OldIsOver
  <2>2. \A v \in Uploads \ {u} : runs'[v] = runs[v] /\ id'[v] = id[v]
    BY <1>0, <1>2 DEF Receive, TypeOK
  <2>3. \A k \in Ids : sessions[k] # u
    BY <1>0, <2>1 DEF TypeOK, StoreAssumption
  <2>4. runs'[sessions[i]] = runs[sessions[i]]
    BY <1>0, <2>1, <2>2, <2>3
  <2>5. FoundFor(i, r)
    BY <2>1, <2>4 DEF RunFound, FoundFor
  <2>6. Answer(r) # None => Answer(r)' # None
    BY <1>0, <2>1, <2>2, <2>3, AnswerTypes DEF Answer, StoreAssumption
  <2>7. ASSUME NEW v \in Uploads \ {sessions[i]}, r \in runs[v],
               v \in old \/ NameOf(v) \in contested, v # u
        PROVE  FoundFor(i, r)'
    BY <2>1, <2>2, <2>7 DEF FoundFor, NameOf
  <2>8. r \notin runs[u]
    BY <2>1 DEF NewIsEmpty
  <2>9. QED
    BY <2>1, <2>5, <2>6, <2>7, <2>8 DEF FoundFor
<1>3. ASSUME NEW u \in Uploads, Index(u)
      PROVE  FoundFor(i, r)'
  <2>1. /\ UNCHANGED <<runs, id, old, contested>> /\ id[u] \in Ids /\ id[u] # None
        /\ sessions' = [sessions EXCEPT ![id[u]] = u]
        /\ runIndex' = [q \in RunIds |-> IF q \in runs[u] THEN id[u] ELSE runIndex[q]]
    BY <1>0, <1>3 DEF Index, TypeOK, StoreAssumption
  <2>2. u # None /\ sessions'[id[u]] = u
    BY <1>0, <2>1 DEF StoreAssumption, TypeOK
  <2>3. CASE r \in runs[u]
    BY <2>1, <2>2, <2>3 DEF FoundFor, Answer
  <2>4. CASE r \notin runs[u]
    <3>1. i # id[u]
      BY <2>1, <2>2, <2>4
    <3>2. sessions'[i] = sessions[i]
      BY <1>0, <2>1, <3>1 DEF TypeOK
    <3>3. FoundFor(i, r)
      BY <2>1, <3>2 DEF RunFound, FoundFor
    <3>4. ASSUME Answer(r) # None, Answer(r)' = None
          PROVE  \E v \in Uploads \ {sessions[i]} :
                    r \in runs[v] /\ (v \in old \/ NameOf(v) \in contested)
      <4> DEFINE k == runIndex[r]
      <4>1. /\ k \in Ids /\ sessions[k] \in Uploads /\ sessions[k] # None
            /\ id[sessions[k]] = k /\ r \in runs[sessions[k]] /\ k # None
        BY <1>0, <3>4, AnswerTypes DEF StoreAssumption
      <4>2. runIndex'[r] = k
        BY <2>1, <2>4
      <4>3. k = id[u]
        <5>1. k # id[u] => sessions'[k] = sessions[k]
          BY <1>0, <2>1, <4>1 DEF TypeOK
        <5>2. QED
          BY <2>1, <3>4, <4>1, <4>2, <5>1 DEF Answer
      <4>4. FileFor[k] \in contested
        BY <1>3, <4>1, <4>3 DEF Index, IInv, FlightAlone, InFlight, NameOf
      <4>5. sessions[k] # sessions[i]
        BY <1>0, <2>1, <3>1, <3>2, <4>1, <4>3 DEF TypeOK
      <4>6. QED
        BY <4>1, <4>4, <4>5 DEF NameOf
    <3>5. QED
      BY <2>1, <3>2, <3>3, <3>4, FoundForStays
  <2>5. QED
    BY <2>3, <2>4
<1>4. ASSUME Forget
      PROVE  FoundFor(i, r)'
  <2>1. /\ UNCHANGED <<runs, id, old, contested>> /\ removing \in todo /\ removing \in old
        /\ removing \in Uploads /\ id[removing] \in Ids
        /\ sessions' = [sessions EXCEPT ![id[removing]] = None]
        /\ runIndex' = [q \in RunIds |->
                          IF q \in runs[removing] /\ runIndex[q] = id[removing] THEN None
                          ELSE runIndex[q]]
    BY <1>0, <1>4 DEF Forget, requestVars, TypeOK, IInv, OldIsOver
  <2>2. i # id[removing] /\ sessions'[i] = sessions[i]
    BY <1>0, <2>1 DEF TypeOK
  <2>3. FoundFor(i, r)
    BY <2>1, <2>2 DEF RunFound, FoundFor
  <2>4. ASSUME Answer(r) # None, Answer(r)' = None
        PROVE  \E v \in Uploads \ {sessions[i]} :
                  r \in runs[v] /\ (v \in old \/ NameOf(v) \in contested)
    <3> DEFINE k == runIndex[r]
    <3>1. /\ k \in Ids /\ sessions[k] \in Uploads /\ sessions[k] # None
          /\ id[sessions[k]] = k /\ r \in runs[sessions[k]] /\ k # None
      BY <1>0, <2>4, AnswerTypes DEF StoreAssumption
    <3>2. k = id[removing]
      <4>1. k # id[removing] => sessions'[k] = sessions[k] /\ runIndex'[r] = k
        BY <1>0, <2>1, <3>1 DEF TypeOK
      <4>2. QED
        BY <2>1, <2>4, <3>1, <4>1 DEF Answer
    <3>3. sessions[k] # sessions[i]
      BY <1>0, <2>2, <3>1, <3>2 DEF TypeOK
    <3>4. CASE FileFor[k] \in contested
      BY <3>1, <3>3, <3>4 DEF NameOf
    <3>5. CASE FileFor[k] \notin contested
      <4>1. sessions[k] = removing
        BY <2>1, <3>2, <3>5 DEF IInv, SweepHolds, NameOf
      <4>2. QED
        BY <2>1, <3>1, <3>3, <4>1
    <3>6. QED
      BY <3>4, <3>5
  <2>5. QED
    BY <2>1, <2>2, <2>3, <2>4, FoundForStays
<1>5. CASE Crash
  BY <1>5 DEF Crash
<1>6. CASE Restart
  <2>1. /\ \A k \in Ids : sessions'[k] = Loaded(k)
        /\ runs' = runs
        /\ Holders(r) # {} => runIndex'[r] \in Holders(r)
    BY <1>6 DEF Restart, requestVars
  <2>2. i \in Holders(r)
    BY <2>1 DEF Holders
  <2>3. /\ runIndex'[r] \in Ids /\ sessions'[runIndex'[r]] # None
        /\ r \in runs[sessions'[runIndex'[r]]]
    BY <2>1, <2>2 DEF Holders
  <2>4. Answer(r)' # None
    BY <2>1, <2>3 DEF Answer, StoreAssumption
  <2>5. QED
    BY <2>4 DEF FoundFor
<1>7. CASE UNCHANGED vars
  BY <1>1, <1>7 DEF vars, requestVars
<1>8. QED
  BY <1>1, <1>2, <1>3, <1>4, <1>5, <1>6, <1>7
     DEF Next, WriteFails, Rename, Age, StartSweep, Unlink, UnlinkFails, requestVars

(* A run of a stored session is found by its id, whatever other sessions   *)
(* were uploaded with it, swept or lost in a crash; the one way to lose it *)
(* is that another session with the same run was old enough to be swept    *)
(* (store.ts:67, 180).                                                     *)
THEOREM RunsAreFound == Spec => []RunFound
<1>1. Init => RunFound
  BY DEF Init, RunFound
<1>2. Init => NewIsEmpty
  BY DEF Init, NewIsEmpty
<1>3. TypeOK /\ NewIsEmpty /\ [Next]_vars => NewIsEmpty'
  BY NewStep
<1>4. IInv /\ IInv' /\ NewIsEmpty /\ RunFound /\ [Next]_vars => RunFound'
  BY StoreAssumption, FoundStep
<1>5. QED
  BY <1>1, <1>2, <1>3, <1>4, Invariant, StoreTypes, PTL DEF Spec

-----------------------------------------------------------------------------
(* The map of files.                                                       *)
Stored == [n \in Names |-> IF n \in contested THEN None ELSE files[n]]

MappedId == [u \in Uploads |-> IF id[u] = None THEN None ELSE NameOf(u)]

Answered == {u \in Uploads : pc[u] = "created"}

(* An upload that was not received has no id.                              *)
NewHasNoId == \A u \in Uploads : pc[u] = "new" => id[u] = None

LEMMA NoIdStep ==
  ASSUME TypeOK, NewHasNoId, [Next]_vars PROVE NewHasNoId'
BY DEF TypeOK, NewHasNoId, Next, Receive, WriteFails, Rename, Index, Age, StartSweep, Unlink,
       UnlinkFails, Forget, Crash, Restart, vars, requestVars, InFlight

(* The name an uncontested upload renames to is free, and the file a sweep *)
(* removes is the one it means.                                            *)
LEMMA NameIsFree ==
  ASSUME StoreAssumption, IInv, NEW u \in Uploads, pc[u] = "writing", NameOf(u) \notin contested
  PROVE  files[NameOf(u)] = None
<1>1. /\ TypeOK /\ MemoryMatchesDisk /\ u \in InFlight /\ NameOf(u) \in Names /\ up
      /\ None \notin Ids
  BY HasName DEF IInv, InFlight, DownIsIdle, StoreAssumption
<1>2. /\ \A i \in Ids : FileFor[i] = NameOf(u) => sessions[i] = None
      /\ \A v \in InFlight : NameOf(v) = NameOf(u) => v = u
  BY <1>1 DEF IInv, FlightAlone
<1>3. SUFFICES ASSUME files[NameOf(u)] # None PROVE FALSE
  OBVIOUS
<1> DEFINE f == files[NameOf(u)]
<1>4. f \in Uploads /\ f # None /\ NameOf(f) = NameOf(u) /\ pc[f] \in {"renamed", "created", "lost"}
  BY <1>1, <1>3 DEF TypeOK
<1>5. f # u
  BY <1>4
<1> HIDE DEF f
<1>6. id[f] \in Ids /\ FileFor[id[f]] = NameOf(u)
  BY <1>1, <1>4, HasName DEF NameOf
<1>7. Loaded(id[f]) = f
  BY <1>4, <1>6 DEF Loaded, f
<1>8. sessions[id[f]] = None
  BY <1>2, <1>6
<1>9. f \in InFlight
  BY <1>1, <1>3, <1>4, <1>6, <1>7, <1>8 DEF MemoryMatchesDisk
<1>10. QED
  BY <1>2, <1>4, <1>5, <1>9

LEMMA OwnFile ==
  ASSUME StoreAssumption, IInv, NEW u \in todo, removing = None, NameOf(u) \notin contested
  PROVE  files[NameOf(u)] = u
<1>1. /\ TypeOK /\ MemoryMatchesDisk /\ u \in Uploads /\ u # None /\ id[u] \in Ids /\ up
      /\ FileFor[id[u]] = NameOf(u)
  BY HasName DEF IInv, TypeOK, StoreAssumption, OldIsOver, DownIsIdle, NameOf
<1>2. sessions[id[u]] = u
  BY DEF IInv, SweepHolds
<1>3. Loaded(id[u]) = u
  BY <1>1, <1>2 DEF MemoryMatchesDisk
<1>4. QED
  BY <1>1, <1>3, HasLoaded

LEMMA MapStep ==
  ASSUME StoreAssumption, IInv, NewHasNoId, [Next]_vars
  PROVE  [Map!Next]_Map!vars
<1>0. ASSUME UNCHANGED <<id, contested, old>>, Stored' = Stored, Answered' = Answered
      PROVE  UNCHANGED Map!vars
  <2>1. MappedId' = MappedId
    BY <1>0 DEF MappedId, NameOf
  <2>2. QED
    BY <1>0, <2>1 DEF Map!vars, Stored, Answered, MappedId
<1>1. /\ TypeOK /\ Stored \in [Names -> Uploads \cup {None}]
      /\ None \notin Ids /\ None \notin Uploads /\ None \notin Names
      /\ FileFor \in [Ids -> Names]
  BY DEF IInv, TypeOK, Stored, StoreAssumption
<1>2. ASSUME NEW u \in Uploads, NEW i \in Ids, NEW rs \in SUBSET RunIds, Receive(u, i, rs)
      PROVE  Map!Request(u, FileFor[i])
  <2>1. /\ id[u] = None /\ id' = [id EXCEPT ![u] = i] /\ UNCHANGED <<files, old>>
        /\ contested' \in {contested, contested \cup {FileFor[i]}}
    BY <1>2 DEF Receive, NewHasNoId
  <2>2. Answered' = Answered
    BY <1>1, <1>2 DEF Receive, Answered, TypeOK
  <2>3. MappedId[u] = None /\ MappedId' = [MappedId EXCEPT ![u] = FileFor[i]]
    <3>1. id \in [Uploads -> Ids \cup {None}]
      BY <1>1 DEF TypeOK
    <3>2. QED
      BY <1>1, <2>1, <3>1 DEF MappedId, NameOf
  <2>4. CASE contested' = contested
    <3>1. Stored' = Stored
      BY <2>1, <2>4 DEF Stored
    <3>2. QED
      BY <2>1, <2>2, <2>3, <2>4, <3>1 DEF Map!Request, Stored, Answered, MappedId
  <2>5. CASE contested' = contested \cup {FileFor[i]}
    <3>1. Stored' = [Stored EXCEPT ![FileFor[i]] = None]
      BY <2>1, <2>5 DEF Stored
    <3>2. QED
      BY <2>1, <2>2, <2>3, <2>5, <3>1 DEF Map!Request, Stored, Answered, MappedId
  <2>6. QED
    BY <2>1, <2>4, <2>5
<1>3. ASSUME NEW u \in Uploads, Rename(u)
      PROVE  [Map!Next]_Map!vars
  <2>1. /\ pc[u] = "writing" /\ UNCHANGED <<id, contested, old>>
        /\ files' = [files EXCEPT ![NameOf(u)] = u] /\ u \notin Answered /\ u \notin old
    BY <1>1, <1>3 DEF Rename, TypeOK, Answered, IInv, OldIsOver
  <2>2. /\ Answered' = Answered /\ NameOf(u) \in Names
        /\ MappedId[u] = NameOf(u) /\ MappedId' = MappedId
    BY <1>1, <1>3, HasName DEF Rename, Answered, TypeOK, MappedId, NameOf
  <2>3. CASE NameOf(u) \in contested
    <3>1. Stored' = Stored
      BY <1>1, <2>1, <2>3 DEF Stored, TypeOK
    <3>2. QED
      BY <1>0, <2>1, <2>2, <3>1
  <2>4. CASE NameOf(u) \notin contested
    <3>1. Stored[NameOf(u)] = None
      BY <2>1, <2>2, <2>4, NameIsFree DEF Stored
    <3>2. Stored' = [Stored EXCEPT ![NameOf(u)] = u]
      <4>1. files \in [Names -> Uploads \cup {None}]
        BY <1>1 DEF TypeOK
      <4>2. QED
        BY <2>1, <2>4, <4>1 DEF Stored
    <3>3. Map!Store(u)
      BY <2>1, <2>2, <2>4, <3>1, <3>2 DEF Map!Store, Stored, Answered, MappedId
    <3>4. QED
      BY <3>3 DEF Map!Next
  <2>5. QED
    BY <2>3, <2>4
<1>4. ASSUME NEW u \in Uploads, Index(u)
      PROVE  [Map!Next]_Map!vars
  <2>1. /\ pc[u] = "renamed" /\ UNCHANGED <<id, contested, old, files>>
    BY <1>1, <1>4 DEF Index, TypeOK
  <2>2. Answered' = Answered \cup {u} /\ Stored' = Stored
    BY <1>1, <1>4 DEF Index, Answered, Stored, TypeOK
  <2>3. /\ NameOf(u) \in Names /\ MappedId[u] = NameOf(u) /\ MappedId' = MappedId
    BY <1>1, <2>1, HasName DEF MappedId, NameOf
  <2>4. NameOf(u) \notin contested => Stored[NameOf(u)] = u
    BY <2>1, <2>3 DEF Stored, IInv, FlightAlone, InFlight
  <2>5. Map!Answer(u)
    BY <2>1, <2>2, <2>3, <2>4 DEF Map!Answer, Stored, Answered, MappedId
  <2>6. QED
    BY <2>5 DEF Map!Next
<1>5. ASSUME NEW u \in Uploads, Age(u)
      PROVE  [Map!Next]_Map!vars
  <2>1. MappedId' = MappedId
    BY <1>5 DEF Age, requestVars, MappedId, NameOf
  <2>2. Map!Expire(u)
    BY <1>5, <2>1 DEF Age, requestVars, Map!Expire, MappedId
  <2>3. QED
    BY <2>2 DEF Map!Next
<1>6. ASSUME NEW u \in Uploads, Unlink(u)
      PROVE  [Map!Next]_Map!vars
  <2>1. /\ u \in todo /\ removing = None /\ u \in old /\ pc[u] # "new"
        /\ UNCHANGED <<id, contested, old, pc>> /\ files' = [files EXCEPT ![NameOf(u)] = None]
    BY <1>1, <1>6 DEF Unlink, requestVars, TypeOK, IInv, OldIsOver
  <2>2. /\ Answered' = Answered /\ NameOf(u) \in Names
        /\ MappedId[u] = NameOf(u) /\ MappedId' = MappedId
    BY <1>1, <2>1, HasName DEF Answered, MappedId, NameOf
  <2>3. CASE NameOf(u) \in contested
    <3>1. Stored' = Stored
      BY <1>1, <2>1, <2>3 DEF Stored, TypeOK
    <3>2. QED
      BY <1>0, <2>1, <2>2, <3>1
  <2>4. CASE NameOf(u) \notin contested
    <3>1. Stored[NameOf(u)] = u
      BY <2>1, <2>2, <2>4, OwnFile DEF Stored
    <3>2. Stored' = [Stored EXCEPT ![NameOf(u)] = None]
      BY <1>1, <2>1, <2>4 DEF Stored, TypeOK
    <3>3. Map!Remove(u)
      BY <2>1, <2>2, <3>1, <3>2 DEF Map!Remove, Stored, Answered, MappedId
    <3>4. QED
      BY <3>3 DEF Map!Next
  <2>5. QED
    BY <2>3, <2>4
<1>7. ASSUME UNCHANGED <<id, contested, old, files>>, Answered' = Answered
      PROVE  UNCHANGED Map!vars
  <2>1. Stored' = Stored
    BY <1>7 DEF Stored
  <2>2. QED
    BY <1>0, <1>7, <2>1
<1>8. ASSUME NEW u \in Uploads, WriteFails(u)
      PROVE  UNCHANGED Map!vars
  <2>1. Answered' = Answered
    BY <1>1, <1>8 DEF WriteFails, Answered, TypeOK
  <2>2. QED
    BY <1>7, <1>8, <2>1 DEF WriteFails
<1>9. CASE Crash
  <2>1. Answered' = Answered
    BY <1>9 DEF Crash, Answered, InFlight
  <2>2. QED
    BY <1>7, <1>9, <2>1 DEF Crash
<1>10. CASE StartSweep \/ UnlinkFails \/ Forget \/ Restart \/ UNCHANGED vars
  <2>1. UNCHANGED <<id, contested, old, files, pc>>
    BY <1>10 DEF StartSweep, UnlinkFails, Forget, Restart, vars, requestVars
  <2>2. QED
    BY <1>7, <2>1 DEF Answered
<1>11. QED
  BY <1>1, <1>2, <1>3, <1>4, <1>5, <1>6, <1>8, <1>9, <1>10 DEF Next, Map!Next

(* For any number of uploads, sweeps and crashes: what is on disk is a map *)
(* that only requests and the retention change (store.ts:72-84, 172-184,   *)
(* 205-225).                                                               *)
THEOREM MapImplemented == Spec => ImplementsMap
<1>1. Init => Map!Init
  BY DEF Init, Map!Init
<1>2. Init => NewHasNoId
  BY DEF Init, NewHasNoId
<1>3. TypeOK /\ NewHasNoId /\ [Next]_vars => NewHasNoId'
  BY NoIdStep
<1>4. IInv /\ NewHasNoId /\ [Next]_vars => [Map!Next]_Map!vars
  BY StoreAssumption, MapStep
<1>5. QED
  BY <1>1, <1>2, <1>3, <1>4, Invariant, StoreTypes, PTL DEF Spec, ImplementsMap, Map!Spec

=============================================================================
