--------------------------- MODULE ServicesProofs ---------------------------
(***************************************************************************)
(* The safety of the services, for any number of subscriptions, projects,  *)
(* commands, events and workers: each service has an inductive invariant,  *)
(* and the steps of the others leave its variables alone.  The invariants  *)
(* of the search and of the run lock come from the modules that prove them *)
(* (OP and RP); the rest are proved here.                                  *)
(***************************************************************************)
EXTENDS MCServices, Sequences, FiniteSetTheorems, TLAPS

OP == INSTANCE OrchestratorProofs
RP == INSTANCE RunLockProofs WITH pc <- at, job <- queued

(* Every instance counts alike.                                            *)
LEMMA CountsAlike ==
  \A S : /\ A!Cardinality(S) = Cardinality(S) /\ C!Cardinality(S) = Cardinality(S)
         /\ W!Cardinality(S) = Cardinality(S)
BY DEF A!Cardinality, C!Cardinality, W!Cardinality, Cardinality

-----------------------------------------------------------------------------
(* Webhooks                                                                *)

WebhookConstants ==
  /\ IsFiniteSet(Subscriptions) /\ Hears \in [Subscriptions -> SUBSET EventTypes]
  /\ MaxEvents \in Nat /\ MaxAttempts \in Nat \ {0}

Items(q) == {q[i] : i \in DOMAIN q}
Ids(ds) == {W!Id(d) : d \in ds}
Settled(rs) == {r.id : r \in rs}
Distinct(q) == \A i, j \in DOMAIN q : W!Id(q[i]) = W!Id(q[j]) => i = j
Single(ds) == \A d, e \in ds : W!Id(d) = W!Id(e) => d = e

(* The deliveries there have to be.                                        *)
Wanted == {id \in (DOMAIN types) \X Subscriptions : types[id[1]] \in Hears[id[2]]}

OneLoop == IF processing THEN \E d \in W!QueueItem : inFlight = {d}
                         ELSE inFlight = {} /\ queue = <<>>

(* A delivery is in one place.                                             *)
OnePlace ==
  /\ Distinct(queue) /\ Single(backoff)
  /\ \A r, u \in settled : r.id = u.id => r = u
  /\ Ids(Items(queue)) \cap Ids(inFlight) = {}
  /\ Ids(backoff) \cap (Ids(Items(queue)) \cup Ids(inFlight)) = {}
  /\ Settled(settled) \cap (Ids(Items(queue)) \cup Ids(inFlight) \cup Ids(backoff)) = {}
  /\ Ids(Items(queue)) \cup Ids(inFlight) \cup Ids(backoff) \cup Settled(settled) = Wanted

(* What is under way has been posted as often as it was attempted.         *)
Attempted ==
  /\ \A d \in Items(queue) \cup inFlight \cup backoff :
       posts[W!Id(d)] = d.attempts /\ d.attempts < MaxAttempts
  /\ Len(types) <= MaxEvents
  /\ \A id \in (1..MaxEvents) \X Subscriptions : id[1] > Len(types) => posts[id] = 0

WebhookInv == W!TypeOK /\ OneLoop /\ OnePlace /\ Attempted

LEMMA WebhookInit == ASSUME WebhookConstants PROVE W!Init => WebhookInv
<1>1. SUFFICES ASSUME W!Init PROVE WebhookInv
  OBVIOUS
<1>2. queue = <<>> /\ types = <<>> /\ Items(queue) = {} /\ Wanted = {}
  BY <1>1 DEF W!Init, Items, Wanted
<1>3. W!TypeOK
  <2>1. queue \in Seq(W!QueueItem) /\ types \in Seq(EventTypes)
    BY <1>2
  <2>2. posts \in [(1..MaxEvents) \X Subscriptions -> 0..MaxAttempts]
    BY <1>1 DEF W!Init, WebhookConstants
  <2>3. processing \in BOOLEAN
    BY <1>1 DEF W!Init
  <2>4. QED
    BY <1>1, <2>1, <2>2, <2>3 DEF W!Init, W!TypeOK
<1>4. OneLoop /\ OnePlace
  BY <1>1, <1>2 DEF W!Init, OneLoop, OnePlace, Distinct, Single, Ids, Settled
<1>5. Attempted
  <2>1. Len(types) = 0
    BY <1>2
  <2>2. QED
    BY <1>1, <1>2, <2>1 DEF W!Init, Attempted, WebhookConstants
<1>6. QED
  BY <1>3, <1>4, <1>5 DEF WebhookInv

(* The loop's head moves a delivery from the queue to the network.         *)
LEMMA LoopMoves ==
  ASSUME NEW q \in Seq(W!QueueItem), Distinct(q), W!LoopHead(q, {})
  PROVE  /\ queue' \in Seq(W!QueueItem) /\ processing' \in BOOLEAN /\ inFlight' \subseteq W!QueueItem
         /\ Distinct(queue') /\ OneLoop'
         /\ Items(queue') \cup inFlight' = Items(q)
         /\ Ids(Items(queue')) \cap Ids(inFlight') = {}
<1>1. CASE q = <<>>
  <2>1. queue' = <<>> /\ processing' = FALSE /\ inFlight' = {}
    BY <1>1 DEF W!LoopHead
  <2>2. Items(queue') = {} /\ Items(q) = {}
    BY <1>1, <2>1 DEF Items
  <2>3. QED
    BY <1>1, <2>1, <2>2 DEF OneLoop, Distinct, Ids
<1>2. CASE q # <<>>
  <2>1. queue' = Tail(q) /\ processing' = TRUE /\ inFlight' = {Head(q)}
    BY <1>2 DEF W!LoopHead
  <2>2. Head(q) = q[1] /\ 1 \in DOMAIN q /\ Head(q) \in W!QueueItem
    BY <1>2
  <2>3. Tail(q) \in Seq(W!QueueItem) /\ \A i \in DOMAIN Tail(q) : i + 1 \in DOMAIN q /\ i + 1 # 1 /\ Tail(q)[i] = q[i + 1]
    BY <1>2
  <2>4. \A i \in DOMAIN q : i # 1 => i - 1 \in DOMAIN Tail(q) /\ Tail(q)[i - 1] = q[i]
    BY <1>2
  <2>5. Distinct(queue')
    <3>1. \A i, j \in DOMAIN Tail(q) : i \in Nat /\ j \in Nat /\ (i + 1 = j + 1 => i = j)
      BY <2>3
    <3>2. QED
      BY <2>1, <2>3, <3>1 DEF Distinct
  <2>6. Items(queue') \cup inFlight' = Items(q)
    <3>1. ASSUME NEW d, d \in Items(q)
          PROVE  d \in Items(Tail(q)) \/ d = q[1]
      BY <2>4, <3>1 DEF Items
    <3>2. ASSUME NEW d, d \in Items(Tail(q)) \/ d = q[1]
          PROVE  d \in Items(q)
      BY <2>2, <2>3, <3>2 DEF Items
    <3>3. QED
      BY <2>1, <2>2, <3>1, <3>2
  <2>7. Ids(Items(queue')) \cap Ids(inFlight') = {}
    BY <2>1, <2>2, <2>3 DEF Items, Ids, Distinct
  <2>8. QED
    BY <2>1, <2>2, <2>3, <2>5, <2>6, <2>7 DEF OneLoop
<1>3. QED
  BY <1>1, <1>2

LEMMA PushMoves ==
  ASSUME W!TypeOK, OneLoop, NEW q \in Seq(W!QueueItem), Distinct(q),
         Ids(Items(q)) \cap Ids(inFlight) = {}, W!PushAndStart(q)
  PROVE  /\ queue' \in Seq(W!QueueItem) /\ processing' \in BOOLEAN /\ inFlight' \subseteq W!QueueItem
         /\ Distinct(queue') /\ OneLoop'
         /\ Items(queue') \cup inFlight' = Items(q) \cup inFlight
         /\ Ids(Items(queue')) \cap Ids(inFlight') = {}
<1>1. CASE processing
  BY <1>1 DEF W!PushAndStart, W!TypeOK, OneLoop
<1>2. CASE ~processing
  <2>1. inFlight = {} /\ W!LoopHead(q, {})
    BY <1>2 DEF W!PushAndStart, OneLoop
  <2>2. QED
    BY <2>1, LoopMoves
<1>3. QED
  BY <1>1, <1>2

LEMMA IdsOfUnion == \A s, t : Ids(s \cup t) = Ids(s) \cup Ids(t)
BY DEF Ids

(* A queue with more at its end.                                           *)
LEMMA QueueGrows ==
  ASSUME NEW q \in Seq(W!QueueItem), NEW more \in Seq(W!QueueItem), Distinct(q), Distinct(more),
         Ids(Items(q)) \cap Ids(Items(more)) = {}
  PROVE  /\ q \o more \in Seq(W!QueueItem) /\ Distinct(q \o more)
         /\ Items(q \o more) = Items(q) \cup Items(more)
<1>1. q \o more \in Seq(W!QueueItem)
  OBVIOUS
<1>2. \A i \in DOMAIN (q \o more) :
        \/ i \in DOMAIN q /\ (q \o more)[i] = q[i]
        \/ i - Len(q) \in DOMAIN more /\ (q \o more)[i] = more[i - Len(q)]
  OBVIOUS
<1>3. \A i \in DOMAIN q : i \in DOMAIN (q \o more) /\ (q \o more)[i] = q[i]
  OBVIOUS
<1>4. \A i \in DOMAIN more : i + Len(q) \in DOMAIN (q \o more) /\ (q \o more)[i + Len(q)] = more[i]
  <2>1. ASSUME NEW i \in DOMAIN more
        PROVE  i \in 1..Len(more) /\ i + Len(q) \in 1..(Len(q) + Len(more)) /\ i + Len(q) > Len(q)
    OBVIOUS
  <2>2. Len(q \o more) = Len(q) + Len(more) /\ DOMAIN (q \o more) = 1..(Len(q) + Len(more))
    OBVIOUS
  <2>3. \A k \in 1..(Len(q) + Len(more)) : k > Len(q) => (q \o more)[k] = more[k - Len(q)]
    OBVIOUS
  <2>4. \A i \in DOMAIN more : i + Len(q) - Len(q) = i
    OBVIOUS
  <2>5. QED
    BY <2>1, <2>2, <2>3, <2>4
<1>5. Items(q \o more) = Items(q) \cup Items(more)
  <2>1. ASSUME NEW d, d \in Items(q \o more)
        PROVE  d \in Items(q) \cup Items(more)
    BY <1>2, <2>1 DEF Items
  <2>2. ASSUME NEW d, d \in Items(q) \cup Items(more)
        PROVE  d \in Items(q \o more)
    BY <1>3, <1>4, <2>2 DEF Items
  <2>3. QED
    BY <2>1, <2>2
<1>6. ASSUME NEW i \in DOMAIN (q \o more), NEW j \in DOMAIN (q \o more),
             W!Id((q \o more)[i]) = W!Id((q \o more)[j])
      PROVE  i = j
  <2>1. i \in Nat /\ j \in Nat /\ Len(q) \in Nat
    OBVIOUS
  <2>2. CASE i \in DOMAIN q /\ (q \o more)[i] = q[i] /\ j \in DOMAIN q /\ (q \o more)[j] = q[j]
    BY <1>6, <2>2 DEF Distinct
  <2>3. CASE /\ i - Len(q) \in DOMAIN more /\ (q \o more)[i] = more[i - Len(q)]
             /\ j - Len(q) \in DOMAIN more /\ (q \o more)[j] = more[j - Len(q)]
    <3>1. i - Len(q) = j - Len(q)
      BY <1>6, <2>3 DEF Distinct
    <3>2. QED
      BY <2>1, <3>1
  <2>4. ASSUME NEW k \in DOMAIN q, NEW l \in DOMAIN more
        PROVE  W!Id(q[k]) # W!Id(more[l])
    BY DEF Ids, Items
  <2>5. QED
    BY <1>2, <1>6, <2>2, <2>3, <2>4
<1>7. QED
  BY <1>1, <1>5, <1>6 DEF Distinct

(* Ids of deliveries are of events that were dispatched.                   *)
LEMMA PlacedIsWanted ==
  ASSUME WebhookConstants, WebhookInv,
         NEW d \in Items(queue) \cup inFlight \cup backoff
  PROVE  /\ W!Id(d) \in Wanted /\ W!Id(d) \in (1..MaxEvents) \X Subscriptions
         /\ d \in W!QueueItem
<1>1. W!Id(d) \in Wanted
  BY DEF WebhookInv, OnePlace, Ids
<1>2. types \in Seq(EventTypes) /\ Len(types) <= MaxEvents
  BY DEF WebhookInv, W!TypeOK, Attempted
<1>3. DOMAIN types \subseteq 1..MaxEvents
  BY <1>2 DEF WebhookConstants
<1>4. W!Id(d) \in (1..MaxEvents) \X Subscriptions
  BY <1>1, <1>3 DEF Wanted
<1>5. d \in W!QueueItem
  BY DEF WebhookInv, W!TypeOK, Items
<1>6. QED
  BY <1>1, <1>4, <1>5

(* The deliveries of event n, in some order of their subscriptions.        *)
DeliveriesOf(n, order) ==
  [i \in DOMAIN order |-> [event |-> n, sub |-> order[i], attempts |-> 0]]

LEMMA Dispatched ==
  ASSUME WebhookConstants, NEW type \in EventTypes, NEW n \in Nat,
         NEW order \in W!SetToSeqs({s \in Subscriptions : type \in Hears[s]})
  PROVE  /\ DeliveriesOf(n, order) \in Seq(W!QueueItem) /\ Distinct(DeliveriesOf(n, order))
         /\ \A d \in Items(DeliveriesOf(n, order)) : d.event = n /\ d.attempts = 0
         /\ Ids(Items(DeliveriesOf(n, order))) = {n} \X {s \in Subscriptions : type \in Hears[s]}
<1> DEFINE heard == {s \in Subscriptions : type \in Hears[s]}
           size == Cardinality(heard)
           more == DeliveriesOf(n, order)
<1>1. IsFiniteSet(heard) /\ size \in Nat
  BY FS_Subset, FS_CardinalityType DEF WebhookConstants
<1>2. order \in [1..size -> heard] /\ \A i, j \in 1..size : i # j => order[i] # order[j]
  BY CountsAlike DEF W!SetToSeqs
<1>3. \A s \in heard : \E i \in 1..size : order[i] = s
  <2>1. order \in Injection(1..size, heard)
    BY <1>2 DEF Injection, IsInjective
  <2>2. Cardinality(1..size) = size
    BY <1>1, FS_Interval
  <2>3. order \in Surjection(1..size, heard)
    BY <1>1, <2>1, <2>2, FS_Injection
  <2>4. QED
    BY <2>3 DEF Surjection
<1> HIDE DEF heard, size
<1>4. DOMAIN more = 1..size /\ \A i \in 1..size : more[i] = [event |-> n, sub |-> order[i], attempts |-> 0]
  BY <1>2 DEF DeliveriesOf
<1> HIDE DEF more
<1>5. heard \subseteq Subscriptions
  BY DEF heard
<1>6. \A i \in 1..size : more[i] \in W!QueueItem
  BY <1>2, <1>4, <1>5 DEF W!QueueItem
<1>7. more \in Seq(W!QueueItem)
  <2>1. more = [i \in 1..size |-> [event |-> n, sub |-> order[i], attempts |-> 0]]
    BY <1>2 DEF more, DeliveriesOf
  <2>2. more \in [1..size -> W!QueueItem]
    BY <1>4, <1>6, <2>1
  <2>3. QED
    BY <1>1, <2>2
<1>8. \A i \in 1..size : W!Id(more[i]) = <<n, order[i]>>
  BY <1>4 DEF W!Id
<1>9. Distinct(more)
  BY <1>2, <1>4, <1>8 DEF Distinct
<1>10. Ids(Items(more)) = {n} \X heard
  BY <1>2, <1>3, <1>4, <1>8 DEF Ids, Items
<1>11. \A d \in Items(more) : d.event = n /\ d.attempts = 0
  BY <1>4 DEF Items
<1>12. QED
  BY <1>7, <1>9, <1>10, <1>11 DEF heard, more

LEMMA DispatchStep ==
  ASSUME WebhookConstants, WebhookInv, NEW type \in EventTypes, W!Dispatch(type)
  PROVE  WebhookInv'
<1> DEFINE n == Len(types) + 1
           heard == {s \in Subscriptions : type \in Hears[s]}
<1>1. PICK order \in W!SetToSeqs(heard) :
        W!PushAndStart(queue \o DeliveriesOf(n, order))
  BY DEF W!Dispatch, DeliveriesOf
<1> DEFINE more == DeliveriesOf(n, order)
<1>2. /\ types \in Seq(EventTypes) /\ queue \in Seq(W!QueueItem) /\ Len(types) \in Nat
      /\ OneLoop /\ OnePlace /\ Attempted
  BY DEF WebhookInv, W!TypeOK
<1>3. /\ more \in Seq(W!QueueItem) /\ Distinct(more)
      /\ \A d \in Items(more) : d.event = n /\ d.attempts = 0
      /\ Ids(Items(more)) = {n} \X heard
  <2>1. n \in Nat
    BY <1>2
  <2>2. QED
    BY <1>1, <2>1, Dispatched
<1>4. /\ types' = Append(types, type) /\ n \in Nat /\ DOMAIN types = 1..Len(types)
      /\ DOMAIN types' = 1..n /\ types'[n] = type /\ Len(types') = n /\ Len(types) < MaxEvents
      /\ \A i \in DOMAIN types : types'[i] = types[i]
      /\ UNCHANGED <<backoff, settled, posts>>
  BY <1>2 DEF W!Dispatch
<1> HIDE DEF n, more
<1>5. \A id \in Wanted : id[1] \in DOMAIN types /\ id[1] # n
  BY <1>2, <1>4 DEF Wanted, n
<1>6. Wanted' = Wanted \cup ({n} \X heard)
  <2>1. \A e \in DOMAIN types' : e = n \/ e \in DOMAIN types
    BY <1>2, <1>4 DEF n
  <2>2. DOMAIN types \subseteq DOMAIN types' /\ n \in DOMAIN types'
    BY <1>2, <1>4 DEF n
  <2>3. QED
    BY <1>4, <2>1, <2>2 DEF Wanted
<1>7. ({n} \X heard) \cap Wanted = {}
  BY <1>5
<1>8. /\ Ids(Items(queue)) \subseteq Wanted /\ Ids(inFlight) \subseteq Wanted
      /\ Ids(backoff) \subseteq Wanted /\ Settled(settled) \subseteq Wanted
  BY <1>2 DEF OnePlace
<1> DEFINE q == queue \o more
<1>9. q \in Seq(W!QueueItem) /\ Distinct(q) /\ Items(q) = Items(queue) \cup Items(more)
  BY <1>2, <1>3, <1>7, <1>8, QueueGrows DEF OnePlace
<1> HIDE DEF q
<1>10. Ids(Items(q)) = Ids(Items(queue)) \cup ({n} \X heard)
  BY <1>3, <1>9, IdsOfUnion
<1>11. Ids(Items(q)) \cap Ids(inFlight) = {}
  BY <1>2, <1>7, <1>8, <1>10 DEF OnePlace
<1>12. W!PushAndStart(q)
  BY <1>1 DEF q, more
<1>13. /\ queue' \in Seq(W!QueueItem) /\ processing' \in BOOLEAN /\ inFlight' \subseteq W!QueueItem
       /\ Distinct(queue') /\ OneLoop'
       /\ Items(queue') \cup inFlight' = Items(q) \cup inFlight
       /\ Ids(Items(queue')) \cap Ids(inFlight') = {}
  BY <1>9, <1>11, <1>12, PushMoves DEF WebhookInv
<1>14. Ids(Items(queue')) \cup Ids(inFlight') = Ids(Items(q)) \cup Ids(inFlight)
  <2>1. Ids(Items(queue') \cup inFlight') = Ids(Items(q) \cup inFlight)
    BY <1>13
  <2>2. QED
    BY <2>1, IdsOfUnion
<1>15. W!TypeOK'
  <2>1. types' \in Seq(EventTypes)
    BY <1>2, <1>4
  <2>2. QED
    BY <1>4, <1>13, <2>1 DEF WebhookInv, W!TypeOK
<1>16. OnePlace'
  BY <1>2, <1>4, <1>6, <1>7, <1>8, <1>10, <1>13, <1>14 DEF OnePlace
<1>17. Attempted'
  <2>1. ASSUME NEW d \in Items(queue') \cup inFlight' \cup backoff'
        PROVE  posts'[W!Id(d)] = d.attempts /\ d.attempts < MaxAttempts
    <3>1. CASE d \in Items(queue) \cup inFlight \cup backoff
      BY <1>2, <1>4, <3>1 DEF Attempted
    <3>2. CASE d \in Items(more)
      <4>1. d.event = n /\ d.attempts = 0 /\ W!Id(d) \in {n} \X heard
        BY <1>3, <3>2 DEF Ids
      <4>2. W!Id(d) \in (1..MaxEvents) \X Subscriptions /\ W!Id(d)[1] > Len(types)
        <5>1. n \in 1..MaxEvents /\ n > Len(types)
          BY <1>2, <1>4 DEF n, WebhookConstants
        <5>2. QED
          BY <4>1, <5>1
      <4>3. QED
        BY <1>2, <1>4, <4>1, <4>2 DEF Attempted, WebhookConstants
    <3>3. QED
      BY <1>4, <1>9, <1>13, <2>1, <3>1, <3>2
  <2>2. Len(types') <= MaxEvents
    BY <1>2, <1>4 DEF WebhookConstants, n
  <2>3. \A id \in (1..MaxEvents) \X Subscriptions : id[1] > Len(types') => posts'[id] = 0
    BY <1>2, <1>4 DEF Attempted, n, WebhookConstants
  <2>4. QED
    BY <2>1, <2>2, <2>3 DEF Attempted
<1>18. QED
  BY <1>13, <1>15, <1>16, <1>17 DEF WebhookInv

(* The delivery the loop awaits is over, or goes to a timer.               *)
LEMMA SentStep ==
  ASSUME WebhookConstants, WebhookInv, NEW d \in inFlight,
         W!LoopHead(queue, inFlight \ {d}), UNCHANGED types,
         posts' = [posts EXCEPT ![W!Id(d)] = @ + 1],
         \/ /\ UNCHANGED backoff
            /\ \E outcome \in W!Outcomes : settled' = settled \cup {[id |-> W!Id(d), outcome |-> outcome]}
         \/ /\ UNCHANGED settled /\ d.attempts + 1 < MaxAttempts
            /\ backoff' = backoff \cup {[d EXCEPT !.attempts = @ + 1]}
  PROVE  WebhookInv'
<1> DEFINE again == [d EXCEPT !.attempts = @ + 1]
<1>1. W!TypeOK /\ OneLoop /\ OnePlace /\ Attempted
  BY DEF WebhookInv
<1>2. W!Id(d) \in Wanted /\ W!Id(d) \in (1..MaxEvents) \X Subscriptions /\ d \in W!QueueItem
  BY PlacedIsWanted
<1>3. inFlight = {d} /\ Ids(inFlight) = {W!Id(d)}
  BY <1>1 DEF OneLoop, Ids
<1>4. queue \in Seq(W!QueueItem) /\ Distinct(queue) /\ W!LoopHead(queue, {})
  BY <1>1, <1>3 DEF W!TypeOK, OnePlace
<1>5. /\ queue' \in Seq(W!QueueItem) /\ processing' \in BOOLEAN /\ inFlight' \subseteq W!QueueItem
      /\ Distinct(queue') /\ OneLoop'
      /\ Items(queue') \cup inFlight' = Items(queue)
      /\ Ids(Items(queue')) \cap Ids(inFlight') = {}
  BY <1>4, LoopMoves
<1>6. Ids(Items(queue')) \cup Ids(inFlight') = Ids(Items(queue))
  <2>1. Ids(Items(queue') \cup inFlight') = Ids(Items(queue))
    BY <1>5
  <2>2. QED
    BY <2>1, IdsOfUnion
<1>7. again \in W!QueueItem /\ W!Id(again) = W!Id(d) /\ again.attempts = d.attempts + 1
  BY <1>2 DEF W!QueueItem, W!Id
<1>8. posts[W!Id(d)] = d.attempts /\ d.attempts < MaxAttempts /\ d.attempts \in Nat
  BY <1>1, <1>2 DEF Attempted, W!QueueItem
<1>9. /\ posts' \in [(1..MaxEvents) \X Subscriptions -> 0..MaxAttempts]
      /\ posts'[W!Id(d)] = d.attempts + 1
      /\ \A id \in (1..MaxEvents) \X Subscriptions : id # W!Id(d) => posts'[id] = posts[id]
  <2>1. posts \in [(1..MaxEvents) \X Subscriptions -> 0..MaxAttempts]
    BY <1>1 DEF W!TypeOK
  <2>2. d.attempts + 1 \in 0..MaxAttempts
    BY <1>8 DEF WebhookConstants
  <2> DEFINE hit == W!Id(d)
  <2> HIDE DEF hit
  <2>3. posts' = [posts EXCEPT ![hit] = d.attempts + 1] /\ hit \in (1..MaxEvents) \X Subscriptions
    BY <1>2, <1>8 DEF hit
  <2>4. QED
    BY <2>1, <2>2, <2>3 DEF hit
<1>10. /\ W!Id(d) \notin Ids(Items(queue)) /\ W!Id(d) \notin Ids(backoff) /\ W!Id(d) \notin Settled(settled)
  BY <1>1, <1>3 DEF OnePlace
<1>11. Wanted' = Wanted
  BY DEF Wanted
<1>12. ASSUME NEW e \in Items(queue) \cup backoff
       PROVE  posts'[W!Id(e)] = e.attempts /\ e.attempts < MaxAttempts
  <2>1. W!Id(e) # W!Id(d)
    BY <1>10 DEF Ids
  <2>2. W!Id(e) \in (1..MaxEvents) \X Subscriptions
    BY PlacedIsWanted
  <2>3. QED
    BY <1>1, <1>9, <2>1, <2>2 DEF Attempted
<1>13. /\ Len(types') <= MaxEvents
       /\ \A id \in (1..MaxEvents) \X Subscriptions : id[1] > Len(types') => posts'[id] = 0
  <2>1. W!Id(d)[1] <= Len(types)
    BY <1>1, <1>2 DEF Wanted, W!TypeOK
  <2>2. Len(types) \in Nat
    BY <1>1 DEF W!TypeOK
  <2>3. \A id \in (1..MaxEvents) \X Subscriptions : id[1] > Len(types) => id # W!Id(d)
    BY <1>2, <2>1, <2>2
  <2>4. QED
    BY <1>1, <1>9, <2>3 DEF Attempted
<1>14. CASE /\ UNCHANGED backoff
            /\ \E outcome \in W!Outcomes : settled' = settled \cup {[id |-> W!Id(d), outcome |-> outcome]}
  <2>1. PICK outcome \in W!Outcomes : settled' = settled \cup {[id |-> W!Id(d), outcome |-> outcome]}
    BY <1>14
  <2>2. Settled(settled') = Settled(settled) \cup {W!Id(d)}
    <3> DEFINE new == [id |-> W!Id(d), outcome |-> outcome]
    <3>1. new.id = W!Id(d) /\ settled' = settled \cup {new}
      BY <2>1
    <3> HIDE DEF new
    <3>2. QED
      BY <3>1 DEF Settled
  <2>3. \A q, u \in settled' : q.id = u.id => q = u
    BY <1>1, <1>10, <2>1 DEF OnePlace, Settled
  <2>4. OnePlace'
    BY <1>1, <1>3, <1>5, <1>6, <1>10, <1>11, <1>14, <2>2, <2>3 DEF OnePlace
  <2>5. Attempted'
    BY <1>5, <1>12, <1>13, <1>14 DEF Attempted
  <2>6. settled' \subseteq [id : Nat \X Subscriptions, outcome : W!Outcomes]
    <3>1. [id |-> W!Id(d), outcome |-> outcome] \in [id : Nat \X Subscriptions, outcome : W!Outcomes]
      BY <1>2, <2>1
    <3>2. QED
      BY <1>1, <2>1, <3>1 DEF W!TypeOK
  <2>7. W!TypeOK'
    BY <1>1, <1>5, <1>9, <1>14, <2>6 DEF W!TypeOK
  <2>8. QED
    BY <1>5, <2>4, <2>5, <2>7 DEF WebhookInv
<1>15. CASE /\ UNCHANGED settled /\ d.attempts + 1 < MaxAttempts
            /\ backoff' = backoff \cup {again}
  <2>1. Ids(backoff') = Ids(backoff) \cup {W!Id(d)}
    BY <1>7, <1>15 DEF Ids
  <2>2. Single(backoff')
    BY <1>1, <1>7, <1>10, <1>15 DEF OnePlace, Single, Ids
  <2>3. OnePlace'
    BY <1>1, <1>3, <1>5, <1>6, <1>10, <1>11, <1>15, <2>1, <2>2 DEF OnePlace
  <2>4. Attempted'
    <3>1. posts'[W!Id(again)] = again.attempts /\ again.attempts < MaxAttempts
      BY <1>7, <1>9, <1>15
    <3>2. QED
      BY <1>5, <1>12, <1>13, <1>15, <3>1 DEF Attempted
  <2>5. W!TypeOK'
    BY <1>1, <1>5, <1>7, <1>9, <1>15 DEF W!TypeOK
  <2>6. QED
    BY <1>5, <2>3, <2>4, <2>5 DEF WebhookInv
<1>16. QED
  BY <1>14, <1>15

LEMMA WorkStep ==
  ASSUME WebhookConstants, WebhookInv, W!Work
  PROVE  WebhookInv'
<1>1. PICK d \in inFlight : W!Answered(d) \/ W!Throws(d)
  BY DEF W!Work
<1>2. CASE W!Answered(d)
  BY <1>2, SentStep DEF W!Answered, W!Outcomes
<1>3. CASE W!Throws(d)
  <2>1. d \in W!QueueItem
    BY DEF WebhookInv, W!TypeOK
  <2>2. [d EXCEPT !.attempts = @ + 1].attempts = d.attempts + 1
    BY <2>1 DEF W!QueueItem
  <2>3. QED
    BY <1>3, <2>2, SentStep DEF W!Throws, W!Retries, W!Outcomes
<1>4. QED
  BY <1>1, <1>2, <1>3

LEMMA RetryStep ==
  ASSUME WebhookConstants, WebhookInv, NEW d \in backoff, W!Retry(d)
  PROVE  WebhookInv'
<1> DEFINE q == Append(queue, d)
<1>1. /\ W!TypeOK /\ OneLoop /\ OnePlace /\ Attempted
      /\ backoff' = backoff \ {d} /\ W!PushAndStart(q)
      /\ UNCHANGED <<types, settled, posts>>
  BY DEF WebhookInv, W!Retry
<1>2. d \in W!QueueItem /\ queue \in Seq(W!QueueItem)
  BY <1>1 DEF W!TypeOK
<1>3. W!Id(d) \in Ids(backoff) /\ W!Id(d) \notin Ids(Items(queue)) /\ W!Id(d) \notin Ids(inFlight)
  BY <1>1 DEF OnePlace, Ids
<1>4. q \in Seq(W!QueueItem) /\ Distinct(q) /\ Items(q) = Items(queue) \cup {d}
  <2>1. <<d>> \in Seq(W!QueueItem) /\ q = queue \o <<d>>
    BY <1>2
  <2>2. Distinct(<<d>>) /\ Items(<<d>>) = {d}
    BY DEF Distinct, Items
  <2>3. Ids(Items(<<d>>)) = {W!Id(d)}
    BY <2>2 DEF Ids
  <2> HIDE DEF q
  <2>4. QED
    <3>1. Ids(Items(queue)) \cap Ids(Items(<<d>>)) = {} /\ Distinct(queue)
      BY <1>1, <1>3, <2>3 DEF OnePlace
    <3>2. queue \o <<d>> \in Seq(W!QueueItem) /\ Distinct(queue \o <<d>>)
          /\ Items(queue \o <<d>>) = Items(queue) \cup Items(<<d>>)
      BY <1>2, <2>1, <2>2, <3>1, QueueGrows
    <3>3. QED
      BY <2>1, <2>2, <3>2
<1> HIDE DEF q
<1>5. Ids(Items(q)) = Ids(Items(queue)) \cup {W!Id(d)}
  BY <1>4 DEF Ids
<1>6. /\ queue' \in Seq(W!QueueItem) /\ processing' \in BOOLEAN /\ inFlight' \subseteq W!QueueItem
      /\ Distinct(queue') /\ OneLoop'
      /\ Items(queue') \cup inFlight' = Items(q) \cup inFlight
      /\ Ids(Items(queue')) \cap Ids(inFlight') = {}
  <2>1. Ids(Items(q)) \cap Ids(inFlight) = {}
    BY <1>1, <1>3, <1>5 DEF OnePlace
  <2>2. QED
    BY <1>1, <1>4, <2>1, PushMoves
<1>7. Ids(Items(queue')) \cup Ids(inFlight') = Ids(Items(queue)) \cup {W!Id(d)} \cup Ids(inFlight)
  <2>1. Ids(Items(queue') \cup inFlight') = Ids(Items(q) \cup inFlight)
    BY <1>6
  <2>2. QED
    BY <1>5, <2>1, IdsOfUnion
<1>8. Ids(backoff') = Ids(backoff) \ {W!Id(d)} /\ Single(backoff')
  BY <1>1 DEF OnePlace, Single, Ids
<1>9. Wanted' = Wanted
  BY <1>1 DEF Wanted
<1>10. OnePlace'
  <2> DEFINE X == Ids(Items(queue'))
             Y == Ids(inFlight')
             Q == Ids(Items(queue))
             T == Ids(backoff)
             F == Ids(inFlight)
             Z == Settled(settled)
  <2>1. /\ Q \cap F = {} /\ T \cap (Q \cup F) = {} /\ Z \cap (Q \cup F \cup T) = {}
        /\ Q \cup F \cup T \cup Z = Wanted
        /\ X \cup Y = Q \cup {W!Id(d)} \cup F /\ W!Id(d) \in T
    BY <1>1, <1>3, <1>7 DEF OnePlace
  <2> HIDE DEF X, Y, Q, T, F, Z
  <2>2. /\ (T \ {W!Id(d)}) \cap (X \cup Y) = {}
        /\ Z \cap (X \cup Y \cup (T \ {W!Id(d)})) = {}
    BY <2>1
  <2>3. X \cup Y \cup (T \ {W!Id(d)}) \cup Z = Wanted
    BY <2>1
  <2>4. Settled(settled') = Z
    BY <1>1 DEF Z
  <2>5. /\ Ids(backoff') \cap (X \cup Y) = {} /\ Settled(settled') \cap (X \cup Y \cup Ids(backoff')) = {}
        /\ X \cup Y \cup Ids(backoff') \cup Settled(settled') = Wanted'
    BY <1>8, <1>9, <2>2, <2>3, <2>4 DEF T
  <2>6. QED
    BY <1>1, <1>6, <1>8, <2>5 DEF OnePlace, X, Y
<1>11. Attempted'
  BY <1>1, <1>4, <1>6 DEF Attempted
<1>12. W!TypeOK'
  BY <1>1, <1>6 DEF W!TypeOK
<1>13. QED
  BY <1>6, <1>10, <1>11, <1>12 DEF WebhookInv

LEMMA WebhookStep ==
  ASSUME WebhookConstants, WebhookInv, [W!Next]_W!webhookVars
  PROVE  WebhookInv'
<1>1. CASE UNCHANGED W!webhookVars
  BY <1>1 DEF W!webhookVars, WebhookInv, W!TypeOK, OneLoop, OnePlace, Attempted, Wanted
<1>2. QED
  BY <1>1, DispatchStep, WorkStep, RetryStep DEF W!Next, W!Timer

(* A set of what has one id, or none.                                      *)
LEMMA OneOrNone ==
  ASSUME NEW S, \A x, y \in S : x = y
  PROVE  Cardinality(S) = IF S = {} THEN 0 ELSE 1
<1>1. CASE S = {}
  BY <1>1, FS_EmptySet
<1>2. CASE S # {}
  <2>1. PICK x : S = {x}
    BY <1>2
  <2>2. QED
    BY <1>2, <2>1, FS_Singleton
<1>3. QED
  BY <1>1, <1>2

LEMMA WebhookGoal ==
  ASSUME WebhookConstants, WebhookInv
  PROVE  W!NothingLostNorDoubled
<1>1. W!TypeOK /\ OneLoop /\ OnePlace
  BY DEF WebhookInv
<1>2. Cardinality(inFlight) = IF processing THEN 1 ELSE 0
  <2>1. \A d, e \in inFlight : d = e
    BY <1>1 DEF OneLoop
  <2>2. Cardinality(inFlight) = IF inFlight = {} THEN 0 ELSE 1
    BY <2>1, OneOrNone
  <2>3. inFlight = {} <=> ~processing
    BY <1>1 DEF OneLoop
  <2>4. QED
    BY <2>2, <2>3
<1>3. ~processing => queue = <<>>
  BY <1>1 DEF OneLoop
<1>4. ASSUME NEW e \in DOMAIN types, NEW s \in Subscriptions
      PROVE  W!Places(<<e, s>>) = IF types[e] \in Hears[s] THEN 1 ELSE 0
  <2> DEFINE id == <<e, s>>
             inQueue == {i \in DOMAIN queue : W!Id(queue[i]) = id}
             onNetwork == {d \in inFlight : W!Id(d) = id}
             atTimer == {d \in backoff : W!Id(d) = id}
             over == {r \in settled : r.id = id}
  <2>1. id \in Wanted <=> types[e] \in Hears[s]
    BY DEF Wanted
  <2>2. /\ inQueue # {} <=> id \in Ids(Items(queue))
        /\ onNetwork # {} <=> id \in Ids(inFlight)
        /\ atTimer # {} <=> id \in Ids(backoff)
        /\ over # {} <=> id \in Settled(settled)
    BY DEF Ids, Items, Settled
  <2>3. Cardinality(inQueue) = IF inQueue = {} THEN 0 ELSE 1
    <3>1. \A i, j \in inQueue : i = j
      BY <1>1 DEF OnePlace, Distinct
    <3>2. QED
      BY <3>1, OneOrNone
  <2>4. Cardinality(onNetwork) = IF onNetwork = {} THEN 0 ELSE 1
    <3>1. \A i, j \in onNetwork : i = j
      BY <1>1 DEF OneLoop
    <3>2. QED
      BY <3>1, OneOrNone
  <2>5. Cardinality(atTimer) = IF atTimer = {} THEN 0 ELSE 1
    <3>1. \A i, j \in atTimer : i = j
      BY <1>1 DEF OnePlace, Single
    <3>2. QED
      BY <3>1, OneOrNone
  <2>6. Cardinality(over) = IF over = {} THEN 0 ELSE 1
    <3>1. \A i, j \in over : i = j
      BY <1>1 DEF OnePlace
    <3>2. QED
      BY <3>1, OneOrNone
  <2>7. W!Places(id) = Cardinality(inQueue) + Cardinality(onNetwork) + Cardinality(atTimer)
                       + Cardinality(over)
    BY CountsAlike DEF W!Places
  <2> HIDE DEF id, inQueue, onNetwork, atTimer, over
  <2>8. W!Places(id) = IF id \in Wanted THEN 1 ELSE 0
    BY <1>1, <2>2, <2>3, <2>4, <2>5, <2>6, <2>7 DEF OnePlace
  <2>9. QED
    BY <2>1, <2>8 DEF id
<1>5. QED
  BY <1>2, <1>3, <1>4, CountsAlike DEF W!NothingLostNorDoubled

-----------------------------------------------------------------------------
(* The calendar                                                            *)

CalendarConstants ==
  /\ Interval \in Nat /\ MaxSessions \in Nat
  /\ IsFiniteSet(Chains) /\ None \notin Chains

(* The set `running` has the projects that some tick awaits, and a project *)
(* is awaited by one.                                                      *)
RunsOnce(p) ==
  /\ p \in running <=> \E c \in Chains : p \in sessions[c]
  /\ \A c, e \in Chains : p \in sessions[c] /\ p \in sessions[e] => c = e
  /\ started[p] = recorded[p] + IF p \in running THEN 1 ELSE 0

Awake ==
  ~stopped =>
    /\ C!Alive # {}
    /\ \A c \in C!Alive : C!Alive = {c} /\ c \in armed => timer = c

Apart == \A c \in armed : sessions[c] = {} /\ reports[c] = {}

CalendarInv ==
  /\ C!TypeOK /\ Apart
  /\ \A p \in Projects : RunsOnce(p)
  /\ Awake

LEMMA CalendarInit == ASSUME CalendarConstants PROVE C!Init => CalendarInv
<1>1. SUFFICES ASSUME C!Init PROVE CalendarInv
  OBVIOUS
<1>2. C!TypeOK
  BY <1>1 DEF C!Init, C!TypeOK, CalendarConstants
<1>3. QED
  BY <1>1, <1>2 DEF C!Init, CalendarInv, Apart, RunsOnce, Awake

-----------------------------------------------------------------------------
LEMMA CalendarTypes == ASSUME CalendarConstants PROVE CalendarInv /\ [C!Next]_C!calendarVars => C!TypeOK'
<1>1. SUFFICES ASSUME CalendarInv, C!TypeOK, [C!Next]_C!calendarVars PROVE C!TypeOK'
  BY DEF CalendarInv
<1>2. CASE UNCHANGED C!calendarVars
  BY <1>1, <1>2 DEF C!TypeOK, C!calendarVars
<1>3. CASE C!Start
  BY <1>1, <1>3 DEF C!TypeOK, C!Start
<1>4. CASE C!Stop
  BY <1>1, <1>4 DEF C!TypeOK, C!Stop
<1>5. CASE C!TimePasses
  <2>1. age' \in [Projects -> 0..Interval]
    BY <1>1, <1>5 DEF C!TypeOK, C!TimePasses, CalendarConstants
  <2>2. QED
    BY <1>1, <1>5, <2>1 DEF C!TypeOK, C!TimePasses
<1>6. ASSUME NEW p \in Projects, C!RegisterProject(p) \/ C!SetProjectStatus(p) PROVE C!TypeOK'
  BY <1>1, <1>6 DEF C!TypeOK, C!RegisterProject, C!SetProjectStatus
<1>7. ASSUME NEW c \in Chains, C!TickFires(c) PROVE C!TypeOK'
  <2>1. C!Due \subseteq Projects
    BY <1>1 DEF C!Due, C!TypeOK
  <2>2. armed' \subseteq Chains /\ timer' \in Chains \cup {None}
    BY <1>1, <1>7 DEF C!TypeOK, C!TickFires, C!ScheduleTick
  <2>3. age' \in [Projects -> 0..Interval] /\ started' \in [Projects -> 0..MaxSessions]
    BY <1>1, <1>7, <2>1 DEF C!TypeOK, C!TickFires, CalendarConstants
  <2>4. sessions' \in [Chains -> SUBSET Projects] /\ running' \subseteq Projects
    BY <1>1, <1>7, <2>1 DEF C!TypeOK, C!TickFires
  <2>5. QED
    BY <1>1, <1>7, <2>2, <2>3, <2>4 DEF C!TypeOK, C!TickFires
<1>8. ASSUME NEW c \in Chains, NEW p \in Projects, C!SessionSettles(c, p) PROVE C!TypeOK'
  <2>1. started[p] = recorded[p] + 1
    BY <1>1, <1>8 DEF CalendarInv, RunsOnce, C!SessionSettles
  <2>2. recorded' \in [Projects -> 0..MaxSessions]
    BY <1>1, <1>8, <2>1 DEF C!TypeOK, C!SessionSettles, CalendarConstants
  <2>3. sessions' \in [Chains -> SUBSET Projects] /\ reports' \in [Chains -> SUBSET Projects]
    BY <1>1, <1>8 DEF C!TypeOK, C!SessionSettles
  <2>4. armed' \subseteq Chains /\ timer' \in Chains \cup {None}
    BY <1>1, <1>8 DEF C!TypeOK, C!SessionSettles, C!Done, C!ScheduleTick
  <2>5. QED
    BY <1>1, <1>8, <2>2, <2>3, <2>4 DEF C!TypeOK, C!SessionSettles
<1>9. ASSUME NEW c \in Chains, NEW p \in Projects, C!ReportSettles(c, p) PROVE C!TypeOK'
  <2>1. sessions' \in [Chains -> SUBSET Projects] /\ reports' \in [Chains -> SUBSET Projects]
    BY <1>1, <1>9 DEF C!TypeOK, C!ReportSettles
  <2>2. armed' \subseteq Chains /\ timer' \in Chains \cup {None}
    BY <1>1, <1>9 DEF C!TypeOK, C!ReportSettles, C!Done, C!ScheduleTick
  <2>3. QED
    BY <1>1, <1>9, <2>1, <2>2 DEF C!TypeOK, C!ReportSettles
<1>10. QED
  BY <1>1, <1>2, <1>3, <1>4, <1>5, <1>6, <1>7, <1>8, <1>9 DEF C!Next

(* A chain is armed when it starts, or when the last of its tick is done.  *)
LEMMA ApartKept == ASSUME CalendarConstants PROVE CalendarInv /\ [C!Next]_C!calendarVars => Apart'
<1>1. SUFFICES ASSUME C!TypeOK, Apart, [C!Next]_C!calendarVars PROVE Apart'
  BY DEF CalendarInv
<1> USE DEF C!TypeOK, Apart
<1>2. CASE UNCHANGED C!calendarVars \/ C!TimePasses \/ C!Stop
  BY <1>1, <1>2 DEF C!calendarVars, C!TimePasses, C!Stop
<1>3. CASE C!Start
  BY <1>1, <1>3 DEF C!Start, C!Alive, C!Ticking
<1>4. ASSUME NEW p \in Projects, C!RegisterProject(p) \/ C!SetProjectStatus(p) PROVE Apart'
  BY <1>1, <1>4 DEF C!RegisterProject, C!SetProjectStatus
<1>5. ASSUME NEW c \in Chains, C!TickFires(c) PROVE Apart'
  BY <1>1, <1>5 DEF C!TickFires, C!ScheduleTick
<1>6. ASSUME NEW c \in Chains, NEW p \in Projects, C!SessionSettles(c, p) PROVE Apart'
  BY <1>1, <1>6 DEF C!SessionSettles, C!Done, C!ScheduleTick
<1>7. ASSUME NEW c \in Chains, NEW p \in Projects, C!ReportSettles(c, p) PROVE Apart'
  BY <1>1, <1>7 DEF C!ReportSettles, C!Done, C!ScheduleTick
<1>8. QED
  BY <1>1, <1>2, <1>3, <1>4, <1>5, <1>6, <1>7 DEF C!Next

(* A project is due only if no tick awaits it, and stops running in the    *)
(* tick that awaits it.                                                    *)
LEMMA RunsOnceKept ==
  ASSUME CalendarConstants, CalendarInv, [C!Next]_C!calendarVars, NEW p \in Projects
  PROVE  RunsOnce(p)'
<1>1. C!TypeOK /\ Apart /\ RunsOnce(p)
  BY DEF CalendarInv
<1> USE DEF C!TypeOK
<1>2. CASE UNCHANGED <<running, sessions, started, recorded>>
  BY <1>1, <1>2 DEF RunsOnce
<1>3. ASSUME NEW c \in Chains, C!TickFires(c) PROVE RunsOnce(p)'
  <2>1. sessions[c] = {} /\ sessions' = [sessions EXCEPT ![c] = C!Due] /\ running' = running \cup C!Due
    BY <1>1, <1>3 DEF C!TickFires, Apart
  <2>2. CASE p \in C!Due
    <3>1. p \notin running /\ p \in running' /\ p \in sessions'[c]
      BY <1>1, <2>1, <2>2 DEF C!Due
    <3>2. \A e \in Chains : p \in sessions'[e] => e = c
      BY <1>1, <2>1, <3>1 DEF RunsOnce
    <3>3. started'[p] = started[p] + 1 /\ recorded'[p] = recorded[p]
      BY <1>1, <1>3, <2>2 DEF C!TickFires
    <3>4. QED
      BY <1>1, <3>1, <3>2, <3>3 DEF RunsOnce
  <2>3. CASE p \notin C!Due
    <3>1. (p \in running') = (p \in running)
      BY <2>1, <2>3
    <3>2. \A e \in Chains : p \in sessions'[e] <=> p \in sessions[e]
      BY <1>1, <2>1, <2>3
    <3>3. started'[p] = started[p] /\ recorded'[p] = recorded[p]
      BY <1>1, <1>3, <2>3 DEF C!TickFires
    <3>4. QED
      BY <1>1, <3>1, <3>2, <3>3 DEF RunsOnce
  <2>4. QED
    BY <2>2, <2>3
<1>4. ASSUME NEW c \in Chains, NEW q \in Projects, C!SessionSettles(c, q) PROVE RunsOnce(p)'
  <2>1. /\ q \in sessions[c] /\ sessions' = [sessions EXCEPT ![c] = @ \ {q}]
        /\ running' = running \ {q} /\ recorded' = [recorded EXCEPT ![q] = @ + 1]
        /\ started' = started
    BY <1>4 DEF C!SessionSettles
  <2>2. CASE p = q
    <3>1. p \in running /\ p \notin running' /\ \A e \in Chains : p \notin sessions'[e]
      BY <1>1, <2>1, <2>2 DEF RunsOnce
    <3>2. recorded'[p] = recorded[p] + 1
      BY <1>1, <2>1, <2>2
    <3>3. QED
      BY <1>1, <2>1, <3>1, <3>2 DEF RunsOnce
  <2>3. CASE p # q
    <3>1. /\ (p \in running') = (p \in running) /\ recorded'[p] = recorded[p]
          /\ \A e \in Chains : p \in sessions'[e] <=> p \in sessions[e]
      BY <1>1, <2>1, <2>3
    <3>2. QED
      BY <1>1, <2>1, <3>1 DEF RunsOnce
  <2>4. QED
    BY <2>2, <2>3
<1>5. QED
  BY <1>2, <1>3, <1>4
     DEF C!Next, C!calendarVars, C!Start, C!Stop, C!TimePasses, C!RegisterProject, C!SetProjectStatus,
         C!ReportSettles

(* A chain that is not stopped ends in an armed timer.                     *)
LEMMA AwakeKept == ASSUME CalendarConstants PROVE CalendarInv /\ [C!Next]_C!calendarVars => Awake'
<1>1. SUFFICES ASSUME C!TypeOK, Apart, Awake, [C!Next]_C!calendarVars PROVE Awake'
  BY DEF CalendarInv
<1> USE DEF C!TypeOK, C!Alive, C!Ticking
<1>2. CASE UNCHANGED <<stopped, armed, timer, sessions, reports>>
  BY <1>1, <1>2 DEF Awake
<1>3. CASE C!Stop
  BY <1>3 DEF C!Stop, Awake
<1>4. CASE C!Start
  BY <1>1, <1>4 DEF C!Start, Awake
<1>5. ASSUME NEW c \in Chains, C!TickFires(c) PROVE Awake'
  <2>1. CASE C!Due = {}
    <3>1. sessions' = sessions /\ reports' = reports
      BY <1>1, <1>5, <2>1 DEF C!TickFires, Apart
    <3>2. ~stopped => armed' = armed /\ timer' = c /\ stopped' = stopped
      BY <1>5, <2>1 DEF C!TickFires, C!ScheduleTick
    <3>3. QED
      BY <1>1, <1>5, <3>1, <3>2 DEF C!TickFires, Awake
  <2>2. CASE C!Due # {}
    <3>1. /\ armed' = armed \ {c} /\ timer' = timer /\ stopped' = stopped
          /\ sessions'[c] # {} /\ c \notin armed'
      BY <1>1, <1>5, <2>2 DEF C!TickFires
    <3>2. c \in C!Alive'
      BY <3>1
    <3>3. QED
      BY <3>1, <3>2 DEF Awake
  <2>3. QED
    BY <2>1, <2>2
<1>6. ASSUME NEW c \in Chains, c \in C!Ticking, C!Done(c), stopped' = stopped,
             \A e \in Chains \ {c} : sessions'[e] = sessions[e] /\ reports'[e] = reports[e]
      PROVE  Awake'
  <2>1. CASE sessions'[c] = {} /\ reports'[c] = {}
    <3>1. ~stopped => armed' = armed \cup {c} /\ timer' = c
      BY <1>6, <2>1 DEF C!Done, C!ScheduleTick
    <3>2. QED
      BY <1>1, <1>6, <3>1 DEF Awake
  <2>2. CASE ~(sessions'[c] = {} /\ reports'[c] = {})
    <3>1. armed' = armed /\ timer' = timer /\ c \in C!Alive' /\ c \notin armed'
      BY <1>1, <1>6, <2>2 DEF C!Done, Apart
    <3>2. QED
      BY <3>1 DEF Awake
  <2>3. QED
    BY <2>1, <2>2
<1>7. ASSUME NEW c \in Chains, NEW p \in Projects, C!SessionSettles(c, p) PROVE Awake'
  BY <1>1, <1>6, <1>7 DEF C!SessionSettles
<1>8. ASSUME NEW c \in Chains, NEW p \in Projects, C!ReportSettles(c, p) PROVE Awake'
  BY <1>1, <1>6, <1>8 DEF C!ReportSettles
<1>9. QED
  BY <1>1, <1>2, <1>3, <1>4, <1>5, <1>7, <1>8
     DEF C!Next, C!calendarVars, C!TimePasses, C!RegisterProject, C!SetProjectStatus

-----------------------------------------------------------------------------
LEMMA CalendarStep == ASSUME CalendarConstants PROVE CalendarInv /\ [C!Next]_C!calendarVars => CalendarInv'
BY CalendarTypes, ApartKept, RunsOnceKept, AwakeKept DEF CalendarInv

LEMMA CountOfRuns ==
  ASSUME CalendarConstants, CalendarInv, NEW p \in Projects
  PROVE  Cardinality({c \in Chains : p \in sessions[c]}) = IF p \in running THEN 1 ELSE 0
<1>1. RunsOnce(p)
  BY DEF CalendarInv
<1>2. CASE p \in running
  <2>1. PICK c \in Chains : {e \in Chains : p \in sessions[e]} = {c}
    BY <1>1, <1>2 DEF RunsOnce
  <2>2. QED
    BY <1>2, <2>1, FS_Singleton
<1>3. CASE p \notin running
  <2>1. {e \in Chains : p \in sessions[e]} = {}
    BY <1>1, <1>3 DEF RunsOnce
  <2>2. QED
    BY <1>3, <2>1, FS_EmptySet
<1>4. QED
  BY <1>2, <1>3

LEMMA CalendarGoal ==
  ASSUME CalendarConstants, CalendarInv
  PROVE  C!CalendarKeepsOn
<1>1. C!OneSessionEach
  <2>1. SUFFICES ASSUME NEW p \in Projects
                 PROVE  LET runs == Cardinality({c \in Chains : p \in sessions[c]})
                        IN runs <= 1 /\ started[p] = recorded[p] + runs
    BY CountsAlike DEF C!OneSessionEach
  <2>2. started[p] = recorded[p] + IF p \in running THEN 1 ELSE 0
    BY DEF CalendarInv, RunsOnce
  <2>3. QED
    BY <2>2, CountOfRuns
<1>2. C!CalendarAwake
  <2>1. SUFFICES ASSUME ~stopped
                 PROVE  /\ C!Alive # {}
                        /\ Cardinality(C!Alive) = 1 /\ armed # {} => timer \in armed
    BY CountsAlike DEF C!CalendarAwake
  <2>2. IsFiniteSet(C!Alive) /\ armed \subseteq C!Alive
    BY FS_Subset DEF CalendarInv, C!TypeOK, C!Alive, C!Ticking, CalendarConstants
  <2>3. ASSUME Cardinality(C!Alive) = 1, armed # {} PROVE timer \in armed
    <3>1. PICK c : C!Alive = {c}
      BY <2>2, <2>3, FS_Singleton
    <3>2. c \in armed
      BY <2>2, <2>3, <3>1
    <3>3. QED
      BY <2>1, <3>1, <3>2 DEF CalendarInv, Awake
  <2>4. QED
    BY <2>1, <2>3 DEF CalendarInv, Awake
<1>3. QED
  BY <1>1, <1>2 DEF C!CalendarKeepsOn

-----------------------------------------------------------------------------
(* A session on its way                                                    *)

LiveConstants == Total \in Nat /\ MaxDisconnects \in Nat /\ None \notin Nat

(* What says "completed" was said when the API had stored the session,     *)
(* which comes after the file.                                             *)
LivePlaces ==
  source = "cli" =>
    /\ cli \in {"searching", "saving"} => upload = "none"
    /\ cli = "uploading" => upload # "none"
    /\ upload # "none" => saved
    /\ cli = "uploaded" => upload = "stored"
    /\ upload # "stored" => \A i \in DOMAIN wire : wire[i].type = "progress"
    /\ shown # None /\ shown.status = "COMPLETED" => upload = "stored"

LiveInv == L!TypeOK /\ LivePlaces

LEMMA LiveInit == ASSUME LiveConstants PROVE L!Init => LiveInv
<1>1. SUFFICES ASSUME L!Init PROVE LiveInv
  OBVIOUS
<1>2. L!TypeOK
  <2>1. wire \in Seq(L!Event) /\ wire = <<>>
    BY <1>1 DEF L!Init
  <2>2. justSent \in BOOLEAN /\ saved \in BOOLEAN /\ requireUpload \in BOOLEAN /\ subscribed = FALSE
    BY <1>1 DEF L!Init
  <2>3. done \in 0..Total /\ breaks \in 0..MaxDisconnects /\ progressPosts \subseteq 1..Total
    BY <1>1 DEF L!Init, LiveConstants
  <2>4. QED
    BY <1>1, <2>1, <2>2, <2>3 DEF L!Init, L!TypeOK, L!Over
<1>3. LivePlaces
  BY <1>1 DEF L!Init, LivePlaces
<1>4. QED
  BY <1>2, <1>3 DEF LiveInv

(* An event is appended to the open stream.                                *)
LEMMA LivePublish ==
  ASSUME L!TypeOK, NEW event \in L!Event, L!Publish(event)
  PROVE  /\ wire' \in Seq(L!Event) /\ (~subscribed => wire' = <<>>)
         /\ \A i \in DOMAIN wire' : wire'[i] = event \/ (i \in DOMAIN wire /\ wire'[i] = wire[i])
<1>1. wire \in Seq(L!Event)
  BY DEF L!TypeOK
<1>2. CASE subscribed
  <2>1. wire' = Append(wire, event)
    BY <1>2 DEF L!Publish
  <2>2. QED
    BY <1>1, <1>2, <2>1
<1>3. CASE ~subscribed
  <2>1. wire' = wire /\ wire = <<>>
    BY <1>3 DEF L!Publish, L!TypeOK
  <2>2. QED
    BY <1>1, <2>1
<1>4. QED
  BY <1>2, <1>3

LEMMA LiveTypes ==
  ASSUME LiveConstants, L!TypeOK, [L!Next]_L!liveVars
  PROVE  L!TypeOK'
<1>1. /\ source' \in {"cli", "demo"} /\ cli' \in {"searching", "saving", "uploading"} \cup L!Over
      /\ upload' \in {"none", "sent", "writing", "stored", "refused"}
      /\ stream' \in {"connecting", "open", "reconnecting", "closed"}
      /\ subscribed' = (stream' = "open")
  BY DEF L!TypeOK, L!Over, L!Next, L!liveVars, L!cliVars, L!dashboardVars, L!Cli, L!Timers, L!Api, L!Demo,
         L!Dashboard, L!RunCounted, L!SearchEnds, L!Save, L!Uploaded, L!UploadFails, L!IntervalOver,
         L!PendingFires, L!ProgressArrives, L!ProgressLost, L!SessionArrives, L!Stores, L!StoreThrows,
         L!DemoTick, L!DemoStores, L!DemoCompletes, L!StreamOpens, L!Message, L!StreamBreaks, L!Reconnect,
         L!Unmount
<1>2. requireUpload' \in BOOLEAN /\ saved' \in BOOLEAN
  BY DEF L!TypeOK, L!Next, L!liveVars, L!cliVars, L!dashboardVars, L!Cli, L!Timers, L!Api, L!Demo,
         L!Dashboard, L!RunCounted, L!SearchEnds, L!Save, L!Uploaded, L!UploadFails, L!IntervalOver,
         L!PendingFires, L!ProgressArrives, L!ProgressLost, L!SessionArrives, L!Stores, L!StoreThrows,
         L!DemoTick, L!DemoStores, L!DemoCompletes, L!StreamOpens, L!Message, L!StreamBreaks, L!Reconnect,
         L!Unmount
<1>3. justSent' \in BOOLEAN
  BY DEF L!TypeOK, L!Report, L!Send, L!Next, L!liveVars, L!cliVars, L!dashboardVars, L!Cli, L!Timers, L!Api, L!Demo,
         L!Dashboard, L!RunCounted, L!SearchEnds, L!Save, L!Uploaded, L!UploadFails, L!IntervalOver,
         L!PendingFires, L!ProgressArrives, L!ProgressLost, L!SessionArrives, L!Stores, L!StoreThrows,
         L!DemoTick, L!DemoStores, L!DemoCompletes, L!StreamOpens, L!Message, L!StreamBreaks, L!Reconnect,
         L!Unmount
<1>4. done' \in 0..Total
  <2>1. done' = done \/ (done' = done + 1 /\ done < Total)
    BY DEF L!Next, L!liveVars, L!cliVars, L!dashboardVars, L!Cli, L!Timers, L!Api, L!Demo,
         L!Dashboard, L!RunCounted, L!SearchEnds, L!Save, L!Uploaded, L!UploadFails, L!IntervalOver,
         L!PendingFires, L!ProgressArrives, L!ProgressLost, L!SessionArrives, L!Stores, L!StoreThrows,
         L!DemoTick, L!DemoStores, L!DemoCompletes, L!StreamOpens, L!Message, L!StreamBreaks, L!Reconnect,
         L!Unmount
  <2>2. QED
    BY <2>1 DEF L!TypeOK, LiveConstants
<1>5. pending' \in 1..Total \cup {None} /\ sent' \in 1..Total \cup {None} /\ progressPosts' \subseteq 1..Total
  <2>1. CASE L!RunCounted
    <3>1. done + 1 \in 1..Total /\ L!Report(done + 1)
      BY <2>1 DEF L!RunCounted, L!TypeOK, LiveConstants
    <3>2. QED
      BY <3>1 DEF L!Report, L!Send, L!TypeOK
  <2>2. CASE L!PendingFires
    BY <2>2 DEF L!PendingFires, L!Send, L!TypeOK
  <2>3. CASE ~L!RunCounted /\ ~L!PendingFires
    <3>1. progressPosts' \subseteq progressPosts /\ sent' = sent /\ pending' \in {pending, None}
      BY <2>3 DEF L!Next, L!liveVars, L!cliVars, L!dashboardVars, L!Cli, L!Timers, L!Api, L!Demo,
         L!Dashboard, L!RunCounted, L!SearchEnds, L!Save, L!Uploaded, L!UploadFails, L!IntervalOver,
         L!PendingFires, L!ProgressArrives, L!ProgressLost, L!SessionArrives, L!Stores, L!StoreThrows,
         L!DemoTick, L!DemoStores, L!DemoCompletes, L!StreamOpens, L!Message, L!StreamBreaks, L!Reconnect,
         L!Unmount
    <3>2. QED
      BY <3>1 DEF L!TypeOK
  <2>4. QED
    BY <2>1, <2>2, <2>3
<1>6. breaks' \in 0..MaxDisconnects
  <2>1. breaks' = breaks \/ (breaks' = breaks + 1 /\ breaks < MaxDisconnects)
    BY DEF L!Next, L!liveVars, L!cliVars, L!dashboardVars, L!Cli, L!Timers, L!Api, L!Demo,
         L!Dashboard, L!RunCounted, L!SearchEnds, L!Save, L!Uploaded, L!UploadFails, L!IntervalOver,
         L!PendingFires, L!ProgressArrives, L!ProgressLost, L!SessionArrives, L!Stores, L!StoreThrows,
         L!DemoTick, L!DemoStores, L!DemoCompletes, L!StreamOpens, L!Message, L!StreamBreaks, L!Reconnect,
         L!Unmount
  <2>2. QED
    BY <2>1 DEF L!TypeOK, LiveConstants
<1>7. wire' \in Seq(L!Event) /\ (~subscribed' => wire' = <<>>)
  <2>1. CASE \/ UNCHANGED <<wire, subscribed>> \/ L!StreamOpens \/ L!Message \/ L!StreamBreaks \/ L!Unmount
    <3>1. wire \in Seq(L!Event) /\ <<>> \in Seq(L!Event)
      BY DEF L!TypeOK
    <3>2. CASE L!Message
      <4>1. wire' = Tail(wire) /\ wire # <<>> /\ subscribed' = subscribed
        BY <3>2 DEF L!Message
      <4>2. QED
        BY <3>1, <4>1 DEF L!TypeOK
    <3>3. QED
      BY <2>1, <3>1, <3>2 DEF L!TypeOK, L!StreamOpens, L!StreamBreaks, L!Unmount
  <2>2. ASSUME NEW event \in L!Event, L!Publish(event), subscribed' = subscribed
        PROVE  wire' \in Seq(L!Event) /\ (~subscribed' => wire' = <<>>)
    BY <2>2, LivePublish
  <2>3. \A n \in 0..Total : /\ [type |-> "progress", done |-> n] \in L!Event
                            /\ [type |-> "completed", done |-> n] \in L!Event
    BY DEF L!Event
  <2>4. CASE L!ProgressArrives
    <3>1. PICK v \in progressPosts : L!Publish([type |-> "progress", done |-> v]) /\ subscribed' = subscribed
      BY <2>4 DEF L!ProgressArrives
    <3>2. v \in 0..Total
      <4>1. v \in 1..Total
        BY <3>1 DEF L!TypeOK
      <4>2. QED
        BY <4>1 DEF LiveConstants
    <3>3. QED
      BY <2>2, <2>3, <3>1, <3>2
  <2>5. CASE L!Stores
    BY <2>2, <2>3, <2>5 DEF L!Stores, L!TypeOK
  <2>6. CASE L!DemoTick
    <3>1. done + 1 \in 0..Total
      BY <2>6 DEF L!DemoTick, L!TypeOK, LiveConstants
    <3>2. QED
      BY <2>2, <2>3, <2>6, <3>1 DEF L!DemoTick
  <2>7. CASE L!DemoCompletes
    <3>1. Total \in 0..Total
      BY DEF LiveConstants
    <3>2. QED
      BY <2>2, <2>3, <2>7, <3>1 DEF L!DemoCompletes
  <2>8. QED
    BY <2>1, <2>4, <2>5, <2>6, <2>7
       DEF L!Next, L!liveVars, L!cliVars, L!dashboardVars, L!Cli, L!Timers, L!Api, L!Demo, L!Dashboard,
         L!RunCounted, L!SearchEnds, L!Save, L!Uploaded, L!UploadFails, L!IntervalOver, L!PendingFires,
         L!ProgressLost, L!SessionArrives, L!StoreThrows, L!DemoStores, L!Reconnect
<1>8. shown' \in [done : 0..Total, status : {"RUNNING", "COMPLETED"}] \cup {None}
  <2>1. CASE L!Message
    <3>1. Head(wire) \in L!Event
      BY <2>1 DEF L!Message, L!TypeOK
    <3>2. QED
      BY <2>1, <3>1 DEF L!Message, L!ApplyProgressEvent, L!Event
  <2>2. CASE UNCHANGED shown
    BY <2>2 DEF L!TypeOK
  <2>3. QED
    BY <2>1, <2>2
       DEF L!Next, L!liveVars, L!cliVars, L!dashboardVars, L!Cli, L!Timers, L!Api, L!Demo, L!Dashboard,
         L!RunCounted, L!SearchEnds, L!Save, L!Uploaded, L!UploadFails, L!IntervalOver, L!PendingFires,
         L!ProgressArrives, L!ProgressLost, L!SessionArrives, L!Stores, L!StoreThrows, L!DemoTick, L!DemoStores,
         L!DemoCompletes, L!StreamOpens, L!Message, L!StreamBreaks, L!Reconnect, L!Unmount
<1>9. QED
  BY <1>1, <1>2, <1>3, <1>4, <1>5, <1>6, <1>7, <1>8 DEF L!TypeOK

LEMMA LiveStep ==
  ASSUME LiveConstants, LiveInv, [L!Next]_L!liveVars
  PROVE  LiveInv'
<1>1. L!TypeOK /\ LivePlaces /\ L!TypeOK'
  BY LiveTypes DEF LiveInv
<1>2. SUFFICES ASSUME source' = "cli" PROVE LivePlaces'
  BY <1>1 DEF LiveInv, LivePlaces
<1>3. CASE L!Cli \/ L!Timers
  <2>1. source = "cli" /\ UNCHANGED <<wire, shown>>
    BY <1>2, <1>3 DEF L!Cli, L!Timers, L!dashboardVars, L!RunCounted, L!SearchEnds, L!Save, L!Uploaded, L!UploadFails,
         L!IntervalOver, L!PendingFires
  <2>2. done \in Nat /\ done + 1 \in Nat /\ None \notin Nat
    BY <1>1 DEF L!TypeOK, LiveConstants
  <2>3. QED
    BY <1>1, <1>3, <2>1, <2>2 DEF LivePlaces, L!Cli, L!Timers, L!Created, L!Over, L!RunCounted, L!SearchEnds, L!Save, L!Uploaded, L!UploadFails,
         L!IntervalOver, L!PendingFires, L!Report, L!Send, L!TypeOK
<1>4. CASE UNCHANGED <<L!cliVars, upload>> /\ (L!StreamOpens \/ L!Message \/ L!StreamBreaks \/ L!Reconnect \/ L!Unmount)
  <2>1. source = "cli" /\ wire \in Seq(L!Event)
    BY <1>1, <1>2, <1>4 DEF L!StreamOpens, L!Message, L!StreamBreaks, L!Reconnect, L!Unmount, L!TypeOK
  <2>2. CASE L!Message
    <3>1. wire' = Tail(wire) /\ wire # <<>> /\ shown' = L!ApplyProgressEvent(Head(wire))
      BY <2>2 DEF L!Message
    <3>2. Head(wire) = wire[1] /\ 1 \in DOMAIN wire
          /\ \A i \in DOMAIN wire' : i + 1 \in DOMAIN wire /\ wire'[i] = wire[i + 1]
      BY <2>1, <3>1
    <3>3. upload # "stored" => shown'.status = "RUNNING"
      BY <1>1, <2>1, <3>1, <3>2 DEF LivePlaces, L!ApplyProgressEvent
    <3>4. upload # "stored" => \A i \in DOMAIN wire' : wire'[i].type = "progress"
      BY <1>1, <2>1, <3>2 DEF LivePlaces
    <3>5. QED
      BY <1>1, <1>4, <2>1, <3>3, <3>4 DEF LivePlaces, L!cliVars
  <2>3. CASE UNCHANGED shown /\ (wire' = <<>> \/ UNCHANGED wire)
    BY <1>1, <1>4, <2>1, <2>3 DEF LivePlaces, L!cliVars
  <2>4. QED
    BY <1>4, <2>2, <2>3 DEF L!StreamOpens, L!StreamBreaks, L!Reconnect, L!Unmount
<1>5. CASE L!ProgressArrives
  <2>1. PICK v \in progressPosts : L!Publish([type |-> "progress", done |-> v])
        /\ UNCHANGED <<source, requireUpload, cli, done, justSent, pending, sent, saved, upload,
                   stream, subscribed, shown, breaks>>
    BY <1>5 DEF L!ProgressArrives
  <2>2. [type |-> "progress", done |-> v] \in L!Event
    BY <1>1, <2>1 DEF L!Event, L!TypeOK
  <2>3. \A i \in DOMAIN wire' : wire'[i] = [type |-> "progress", done |-> v] \/ (i \in DOMAIN wire /\ wire'[i] = wire[i])
    BY <1>1, <2>1, <2>2, LivePublish
  <2>4. source = "cli" /\ (upload' # "stored" => \A i \in DOMAIN wire' : wire'[i].type = "progress")
    BY <1>1, <1>2, <2>1, <2>3 DEF LivePlaces
  <2>5. QED
    BY <1>1, <2>1, <2>4 DEF LivePlaces
<1>6. CASE L!ProgressLost \/ L!SessionArrives \/ L!StoreThrows
  BY <1>1, <1>2, <1>6 DEF LivePlaces, L!ProgressLost, L!SessionArrives, L!StoreThrows, L!cliVars, L!dashboardVars
<1>7. CASE L!Stores
  BY <1>1, <1>2, <1>7 DEF LivePlaces, L!Stores, L!cliVars
<1>8. CASE L!Demo
  BY <1>2, <1>8 DEF L!Demo, L!DemoTick, L!DemoStores, L!DemoCompletes
<1>9. CASE UNCHANGED L!liveVars
  BY <1>1, <1>9 DEF LivePlaces, L!liveVars, L!cliVars, L!dashboardVars
<1>10. QED
  BY <1>3, <1>4, <1>5, <1>6, <1>7, <1>8, <1>9
     DEF L!Next, L!Api, L!Dashboard, L!StreamOpens, L!Message, L!StreamBreaks, L!Reconnect, L!Unmount

LEMMA LiveGoals == ASSUME LiveInv PROVE L!CompletedIsRecorded
BY DEF LiveInv, LivePlaces, L!CompletedIsRecorded

-----------------------------------------------------------------------------
(* AI commands                                                             *)

AgentConstants ==
  /\ IsFiniteSet(Commands) /\ Commands # {}
  /\ Limit \in Nat /\ Estimate \in Nat /\ MaxTurns \in Nat /\ MaxAsks \in Nat
  /\ Costs \subseteq 0..Estimate /\ 0 \in Costs

Asked(how) == {a \in Commands : stage[a] = how}

(* What the answers under way cost, by unit of money.                      *)
Owed(costs) == {unit \in Commands \X (1..Estimate) : unit[2] <= costs[unit[1]]}

(* A command that asks has a call to make; only one that records owes.     *)
AgentPlaces ==
  \A a \in Commands :
    /\ stage[a] \in {"asking", "waiting", "recording"} => todo[a] # <<>>
    /\ stage[a] # "recording" => cost[a] = 0
    /\ stage[a] = "recording" => read[a] + cost[a] <= billed
    /\ topic[a] = "retro" => todo[a] \in {<<>>, <<"analyze">>}

AccountsFor == ~missed => billed = spend + Cardinality(Owed(cost))

AdmittedWithin ==
  ~missed => billed + Cardinality(Asked("waiting")) * Estimate
               <= Limit + (Cardinality(Commands) - 1) * Estimate

AgentInv == A!TypeOK /\ AgentPlaces /\ AccountsFor /\ AdmittedWithin

-----------------------------------------------------------------------------
LEMMA OwedIsFinite ==
  ASSUME AgentConstants, NEW costs
  PROVE  IsFiniteSet(Owed(costs)) /\ Cardinality(Owed(costs)) \in Nat
<1>1. IsFiniteSet(Commands \X (1..Estimate))
  <2>1. IsFiniteSet(1..Estimate)
    BY FS_Interval DEF AgentConstants
  <2>2. QED
    BY <2>1, FS_Product DEF AgentConstants
<1>2. Owed(costs) \in SUBSET (Commands \X (1..Estimate))
  BY DEF Owed
<1>3. QED
  BY <1>1, <1>2, FS_Subset, FS_CardinalityType

(* An answer of cost c owes c.                                             *)
LEMMA OwedGrows ==
  ASSUME AgentConstants, NEW costs \in [Commands -> 0..Estimate], NEW a \in Commands,
         NEW c \in 0..Estimate, costs[a] = 0
  PROVE  Cardinality(Owed([costs EXCEPT ![a] = c])) = Cardinality(Owed(costs)) + c
<1> DEFINE more == [costs EXCEPT ![a] = c]
           units == {a} \X (1..c)
<1>1. Owed(more) = Owed(costs) \cup units
  BY DEF Owed, AgentConstants
<1>2. Owed(costs) \cap units = {}
  BY DEF Owed
<1>3. IsFiniteSet(units) /\ Cardinality(units) = c
  <2>1. IsFiniteSet({a}) /\ Cardinality({a}) = 1
    BY FS_Singleton
  <2>2. IsFiniteSet(1..c) /\ Cardinality(1..c) = c
    BY FS_Interval
  <2>3. IsFiniteSet(units) /\ Cardinality(units) = Cardinality({a}) * Cardinality(1..c)
    BY <2>1, <2>2, FS_Product
  <2>4. QED
    BY <2>1, <2>2, <2>3
<1>4. IsFiniteSet(Owed(costs)) /\ Cardinality(Owed(costs)) \in Nat
  BY OwedIsFinite
<1>5. Cardinality(Owed(costs) \cup units) = Cardinality(Owed(costs)) + c - Cardinality({})
  BY <1>2, <1>3, <1>4, FS_Union
<1>6. Cardinality({}) = 0
  BY FS_EmptySet
<1>7. Cardinality(Owed(more)) = Cardinality(Owed(costs)) + c
  <2> HIDE DEF more, units
  <2>1. c \in Nat
    BY DEF AgentConstants
  <2>2. QED
    BY <1>1, <1>4, <1>5, <1>6, <2>1
<1>8. QED
  BY <1>7

LEMMA AskedIsFinite ==
  ASSUME AgentConstants, NEW how
  PROVE  IsFiniteSet(Asked(how)) /\ Cardinality(Asked(how)) \in Nat
BY FS_Subset, FS_CardinalityType DEF AgentConstants, Asked

(* Those that wait and those that record, and one that asks, are commands. *)
LEMMA RoomToAsk ==
  ASSUME AgentConstants, NEW a \in Commands, stage[a] = "asking"
  PROVE  Cardinality(Asked("waiting")) + Cardinality(Asked("recording")) + 1
           <= Cardinality(Commands)
<1> DEFINE both == Asked("waiting") \cup Asked("recording")
<1>1. /\ IsFiniteSet(Asked("waiting")) /\ Cardinality(Asked("waiting")) \in Nat
      /\ IsFiniteSet(Asked("recording")) /\ Cardinality(Asked("recording")) \in Nat
  BY AskedIsFinite
<1>2. Asked("waiting") \cap Asked("recording") = {}
  BY DEF Asked
<1>3. IsFiniteSet(both)
      /\ Cardinality(both) = Cardinality(Asked("waiting")) + Cardinality(Asked("recording")) - Cardinality({})
  BY <1>1, <1>2, FS_Union
<1>4. a \notin both /\ both \cup {a} \in SUBSET Commands
  BY DEF Asked
<1>5. Cardinality(both \cup {a}) = Cardinality(both) + 1
  BY <1>3, <1>4, FS_AddElement
<1>6. Cardinality(both \cup {a}) <= Cardinality(Commands)
  BY <1>4, FS_Subset DEF AgentConstants
<1>7. QED
  BY <1>1, <1>3, <1>5, <1>6, FS_EmptySet

-----------------------------------------------------------------------------
LEMMA AgentInit == ASSUME AgentConstants PROVE A!Init => AgentInv
<1>1. SUFFICES ASSUME A!Init PROVE AgentInv
  OBVIOUS
<1>2. A!TypeOK
  <2>1. todo \in [Commands -> Seq(A!Calls)]
    BY <1>1 DEF A!Init
  <2>2. asks \in 0..MaxAsks
    BY <1>1 DEF A!Init, AgentConstants
  <2>3. cost \in [Commands -> Costs]
    BY <1>1 DEF A!Init, AgentConstants
  <2>4. missed \in BOOLEAN
    BY <1>1 DEF A!Init
  <2>5. QED
    BY <1>1, <2>1, <2>2, <2>3, <2>4 DEF A!Init, A!TypeOK, A!Topics
<1>3. AgentPlaces
  BY <1>1 DEF A!Init, AgentPlaces
<1>4. AccountsFor
  <2>1. Owed(cost) = {}
    BY <1>1 DEF A!Init, Owed, AgentConstants
  <2>2. Cardinality(Owed(cost)) = 0
    BY <2>1, FS_EmptySet
  <2>3. QED
    BY <1>1, <2>2 DEF A!Init, AccountsFor
<1>5. AdmittedWithin
  <2>1. Asked("waiting") = {}
    BY <1>1 DEF A!Init, Asked
  <2>2. Cardinality(Commands) \in Nat /\ Cardinality(Commands) # 0
    BY FS_CardinalityType, FS_EmptySet DEF AgentConstants
  <2>3. (Cardinality(Commands) - 1) * Estimate >= 0
    BY <2>2 DEF AgentConstants
  <2>4. (Cardinality(Commands) - 1) * Estimate \in Int
    BY <2>2 DEF AgentConstants
  <2>5. Cardinality(Asked("waiting")) = 0
    BY <2>1, FS_EmptySet
  <2>6. 0 * Estimate = 0
    BY DEF AgentConstants
  <2>7. QED
    BY <1>1, <2>3, <2>4, <2>5, <2>6 DEF A!Init, AdmittedWithin, AgentConstants
<1>6. QED
  BY <1>2, <1>3, <1>4, <1>5 DEF AgentInv

(* Steps that neither ask, answer nor record.                              *)
LEMMA AccountsKept ==
  ASSUME AgentConstants, AgentInv, UNCHANGED <<cost, spend, billed>>, missed' = missed,
         \A a \in Commands : stage'[a] = "waiting" => stage[a] = "waiting"
  PROVE  AccountsFor' /\ AdmittedWithin'
<1>1. AccountsFor'
  BY DEF AgentInv, AccountsFor, Owed
<1>2. Asked("waiting")' \in SUBSET Asked("waiting")
  BY DEF Asked
<1>3. Cardinality(Asked("waiting")') <= Cardinality(Asked("waiting"))
  BY <1>2, AskedIsFinite, FS_Subset
<1>4. Cardinality(Asked("waiting")) \in Nat /\ Cardinality(Asked("waiting")') \in Nat
  BY <1>2, AskedIsFinite, FS_Subset, FS_CardinalityType
<1>5. Cardinality(Asked("waiting")') * Estimate <= Cardinality(Asked("waiting")) * Estimate
  BY <1>3, <1>4 DEF AgentConstants
<1>6. Cardinality(Commands) \in Nat
  BY FS_CardinalityType DEF AgentConstants
<1>7. AdmittedWithin'
  <2> DEFINE w == Cardinality(Asked("waiting")) * Estimate
             v == Cardinality(Asked("waiting")') * Estimate
             most == Limit + (Cardinality(Commands) - 1) * Estimate
  <2>1. v \in Int /\ w \in Int /\ most \in Int /\ billed \in Int
    BY <1>4, <1>6 DEF AgentConstants, AgentInv, A!TypeOK
  <2>2. ~missed => billed + w <= most
    BY DEF AgentInv, AdmittedWithin
  <2>3. v <= w
    BY <1>5
  <2> HIDE DEF v, w, most
  <2>4. ~missed => billed + v <= most
    BY <2>1, <2>2, <2>3
  <2>5. QED
    BY <2>4 DEF AdmittedWithin, v, most
<1>8. QED
  BY <1>1, <1>7

(* a stops waiting or recording, or goes on, with `plan` left.             *)
LEMMA AgentTypes ==
  ASSUME AgentConstants, A!TypeOK, NEW a \in Commands, NEW plan \in Seq(A!Calls)
  PROVE  /\ A!Continue(a, plan) =>
              /\ stage' \in [Commands -> {"idle", "asking", "waiting", "recording"} \cup A!Ends]
              /\ todo' \in [Commands -> Seq(A!Calls)]
              /\ todo'[a] = plan /\ (stage'[a] = "asking" => plan # <<>>)
              /\ stage'[a] \in {"asking"} \cup A!Ends
         /\ \A how \in A!Ends : A!End(a, how) =>
              /\ stage' \in [Commands -> {"idle", "asking", "waiting", "recording"} \cup A!Ends]
              /\ todo' \in [Commands -> Seq(A!Calls)]
              /\ stage'[a] \in A!Ends /\ todo'[a] = <<>>
         /\ \A b \in Commands \ {a} :
              A!Continue(a, plan) \/ (\E how \in A!Ends : A!End(a, how)) =>
                stage'[b] = stage[b] /\ todo'[b] = todo[b]
<1>1. ASSUME A!Continue(a, plan)
      PROVE  /\ stage' \in [Commands -> {"idle", "asking", "waiting", "recording"} \cup A!Ends]
             /\ todo' \in [Commands -> Seq(A!Calls)]
             /\ todo'[a] = plan /\ (stage'[a] = "asking" => plan # <<>>)
             /\ stage'[a] \in {"asking"} \cup A!Ends
             /\ \A b \in Commands \ {a} : stage'[b] = stage[b] /\ todo'[b] = todo[b]
  BY <1>1 DEF A!Continue, A!TypeOK, A!Ends
<1>2. ASSUME NEW how \in A!Ends, A!End(a, how)
      PROVE  /\ stage' \in [Commands -> {"idle", "asking", "waiting", "recording"} \cup A!Ends]
             /\ todo' \in [Commands -> Seq(A!Calls)]
             /\ stage'[a] \in A!Ends /\ todo'[a] = <<>>
             /\ \A b \in Commands \ {a} : stage'[b] = stage[b] /\ todo'[b] = todo[b]
  <2>1. <<>> \in Seq(A!Calls)
    OBVIOUS
  <2>2. QED
    BY <1>2, <2>1 DEF A!End, A!TypeOK
<1>3. QED
  BY <1>1, <1>2

LEMMA PlanTypes ==
  ASSUME AgentConstants, NEW t \in A!Topics, NEW plan \in A!Plans[t]
  PROVE  plan \in Seq(A!Calls) /\ A!AfterAnswer(plan) \in Seq(A!Calls)
<1>1. plan \in Seq(A!Calls)
  <2>1. CASE t = "investigate"
    <3>1. plan = [i \in 1..MaxTurns |-> "turn"]
      BY <2>1 DEF A!Plans
    <3>2. QED
      BY <3>1 DEF AgentConstants, A!Calls
  <2>2. CASE t = "explain"
    <3>1. plan \in {<<"draft", "ground">>, <<"draft", "ground", "fix">>}
      BY <2>2 DEF A!Plans
    <3>2. <<"draft", "ground">> \in Seq(A!Calls) /\ <<"draft", "ground", "fix">> \in Seq(A!Calls)
      BY DEF A!Calls
    <3>3. QED
      BY <3>1, <3>2
  <2>3. CASE t = "retro"
    <3>1. plan = <<"analyze">>
      BY <2>3 DEF A!Plans
    <3>2. QED
      BY <3>1 DEF A!Calls
  <2>4. QED
    BY <2>1, <2>2, <2>3 DEF A!Topics
<1>2. A!AfterAnswer(plan) \in Seq(A!Calls)
  <2>1. <<"fix">> \in Seq(A!Calls) /\ <<>> \in Seq(A!Calls)
    BY DEF A!Calls
  <2>2. QED
    BY <2>1 DEF A!AfterAnswer
<1>3. QED
  BY <1>1, <1>2

LEMMA RunStep ==
  ASSUME AgentConstants, AgentInv, NEW a \in Commands, NEW t \in A!Topics, A!Run(a, t)
  PROVE  AgentInv'
<1>1. PICK plan \in A!Plans[t] : A!Continue(a, IF t \in cache THEN A!AfterAnswer(plan) ELSE plan)
  BY DEF A!Run
<1> DEFINE rest == IF t \in cache THEN A!AfterAnswer(plan) ELSE plan
<1>2. rest \in Seq(A!Calls)
  BY <1>1, PlanTypes
<1> HIDE DEF rest
<1>3. A!Continue(a, rest)
  BY <1>1 DEF rest
<1>4. /\ stage' \in [Commands -> {"idle", "asking", "waiting", "recording"} \cup A!Ends]
      /\ todo' \in [Commands -> Seq(A!Calls)]
      /\ todo'[a] = rest /\ (stage'[a] = "asking" => todo'[a] # <<>>)
      /\ stage'[a] \in {"asking"} \cup A!Ends
      /\ \A b \in Commands \ {a} : stage'[b] = stage[b] /\ todo'[b] = todo[b]
  BY <1>2, <1>3, AgentTypes DEF AgentInv
<1>5. UNCHANGED <<cost, read, spend, cache, billed, missed>>
  BY DEF A!Run
<1>6. A!TypeOK'
  <2>1. topic' \in [Commands -> A!Topics] /\ asks' \in 0..MaxAsks
    BY DEF A!Run, AgentInv, A!TypeOK, AgentConstants
  <2>2. missed' \in BOOLEAN
    BY <1>5 DEF AgentInv, A!TypeOK
  <2>3. QED
    BY <1>4, <1>5, <2>1, <2>2 DEF AgentInv, A!TypeOK
<1>7. AgentPlaces'
  <2>1. stage[a] # "recording"
    BY DEF A!Run, A!Ends
  <2>2. topic' = [topic EXCEPT ![a] = t] /\ topic \in [Commands -> A!Topics]
    BY DEF A!Run, AgentInv, A!TypeOK
  <2>3. t = "retro" => rest = <<"analyze">>
    BY <1>1 DEF rest, A!Plans, AgentInv, A!TypeOK
  <2>4. \A b \in Commands \ {a} : topic'[b] = topic[b]
    BY <2>2
  <2>5. topic'[a] = "retro" => todo'[a] = <<"analyze">>
    BY <1>4, <2>2, <2>3
  <2>6. QED
    BY <1>4, <1>5, <2>1, <2>4, <2>5 DEF AgentInv, AgentPlaces, A!Ends
<1>8. AccountsFor' /\ AdmittedWithin'
  <2>1. \A b \in Commands : stage'[b] = "waiting" => stage[b] = "waiting"
    BY <1>4 DEF A!Ends
  <2>2. QED
    BY <1>5, <2>1, AccountsKept
<1>9. QED
  BY <1>6, <1>7, <1>8 DEF AgentInv

(* Commands that give up: a call that is over the limit, or fails.         *)
LEMMA EndStep ==
  ASSUME AgentConstants, AgentInv, NEW a \in Commands, stage[a] # "recording",
         NEW how \in A!Ends, A!End(a, how),
         UNCHANGED <<topic, cost, read, spend, cache, billed, missed, asks>>
  PROVE  AgentInv'
<1>1. /\ stage' \in [Commands -> {"idle", "asking", "waiting", "recording"} \cup A!Ends]
      /\ todo' \in [Commands -> Seq(A!Calls)]
      /\ stage'[a] \in A!Ends /\ todo'[a] = <<>>
      /\ \A b \in Commands \ {a} : stage'[b] = stage[b] /\ todo'[b] = todo[b]
  <2>1. <<>> \in Seq(A!Calls)
    OBVIOUS
  <2>2. QED
    BY <2>1, AgentTypes DEF AgentInv
<1>2. A!TypeOK'
  <2>1. missed' \in BOOLEAN
    BY DEF AgentInv, A!TypeOK
  <2>2. QED
    BY <1>1, <2>1 DEF AgentInv, A!TypeOK
<1>3. AgentPlaces'
  BY <1>1 DEF AgentInv, AgentPlaces, A!Ends
<1>4. \A b \in Commands : stage'[b] = "waiting" => stage[b] = "waiting"
  BY <1>1 DEF A!Ends
<1>5. AccountsFor' /\ AdmittedWithin'
  BY <1>4, AccountsKept
<1>6. QED
  BY <1>2, <1>3, <1>5 DEF AgentInv

LEMMA AskStep ==
  ASSUME AgentConstants, AgentInv, NEW a \in Commands, A!Ask(a)
  PROVE  AgentInv'
<1>1. CASE ~A!WithinLimit(spend)
  BY <1>1, EndStep DEF A!Ask, A!Ends
<1>2. CASE A!WithinLimit(spend)
  <2>1. /\ stage[a] = "asking" /\ stage' = [stage EXCEPT ![a] = "waiting"]
        /\ UNCHANGED <<todo, topic, cost, read, spend, cache, billed, missed, asks>>
    BY <1>2 DEF A!Ask
  <2>2. A!TypeOK'
    <3>1. missed' \in BOOLEAN
      BY <2>1 DEF AgentInv, A!TypeOK
    <3>2. QED
      BY <2>1, <3>1 DEF AgentInv, A!TypeOK
  <2>3. AgentPlaces'
    BY <2>1 DEF AgentInv, AgentPlaces, A!TypeOK
  <2>4. AccountsFor'
    BY <2>1 DEF AgentInv, AccountsFor, Owed
  <2>5. AdmittedWithin'
    <3> DEFINE waiting == Cardinality(Asked("waiting"))
               recording == Cardinality(Asked("recording"))
               all == Cardinality(Commands)
               owed == Cardinality(Owed(cost))
    <3>1. waiting \in Nat /\ recording \in Nat /\ all \in Nat /\ owed \in Nat
      BY AskedIsFinite, OwedIsFinite, FS_CardinalityType DEF AgentConstants
    <3>2. waiting + recording + 1 <= all
      BY <2>1, RoomToAsk
    <3>3. Cardinality(Asked("waiting")') = waiting + 1
      <4>1. Asked("waiting")' = Asked("waiting") \cup {a} /\ a \notin Asked("waiting")
        BY <2>1 DEF Asked, AgentInv, A!TypeOK
      <4>2. QED
        BY <4>1, AskedIsFinite, FS_AddElement
    <3>4. owed <= recording * Estimate
      <4>1. Owed(cost) \in SUBSET (Asked("recording") \X (1..Estimate))
        BY DEF Owed, Asked, AgentInv, AgentPlaces, AgentConstants
      <4>2. IsFiniteSet(1..Estimate) /\ Cardinality(1..Estimate) = Estimate
        BY FS_Interval DEF AgentConstants
      <4>3. /\ IsFiniteSet(Asked("recording") \X (1..Estimate))
            /\ Cardinality(Asked("recording") \X (1..Estimate)) = recording * Cardinality(1..Estimate)
        BY <4>2, AskedIsFinite, FS_Product
      <4>4. QED
        BY <4>1, <4>2, <4>3, FS_Subset
    <3>5. ~missed => billed = spend + owed
      BY DEF AgentInv, AccountsFor
    <3>6. spend + Estimate <= Limit
      BY <1>2 DEF A!WithinLimit
    <3> HIDE DEF waiting, recording, all, owed
    <3>7. recording * Estimate + (waiting + 1) * Estimate <= all * Estimate
      <4>1. recording * Estimate + (waiting + 1) * Estimate = (recording + waiting + 1) * Estimate
        BY <3>1 DEF AgentConstants
      <4>2. (recording + waiting + 1) * Estimate <= all * Estimate
        BY <3>1, <3>2 DEF AgentConstants
      <4>3. QED
        BY <4>1, <4>2
    <3>8. all * Estimate = Estimate + (all - 1) * Estimate
      BY <3>1 DEF AgentConstants
    <3>9. ~missed => billed + (waiting + 1) * Estimate <= Limit + (all - 1) * Estimate
      <4> DEFINE r == recording * Estimate
                 w == (waiting + 1) * Estimate
                 n == all * Estimate
                 m == (all - 1) * Estimate
      <4>1. r \in Int /\ w \in Int /\ n \in Int /\ m \in Int
        BY <3>1 DEF AgentConstants
      <4>2. owed <= r /\ r + w <= n /\ n = Estimate + m
        BY <3>4, <3>7, <3>8
      <4> HIDE DEF r, w, n, m
      <4>3. ~missed => billed + w <= Limit + m
        BY <3>1, <3>5, <3>6, <4>1, <4>2 DEF AgentConstants, AgentInv, A!TypeOK
      <4>4. QED
        BY <4>3 DEF w, m
    <3>10. QED
      BY <2>1, <3>3, <3>9 DEF AdmittedWithin, all
  <2>6. QED
    BY <2>2, <2>3, <2>4, <2>5 DEF AgentInv
<1>3. QED
  BY <1>1, <1>2

LEMMA AnswerStep ==
  ASSUME AgentConstants, AgentInv, NEW a \in Commands, NEW c \in Costs, A!Answer(a, c)
  PROVE  AgentInv'
<1>1. /\ stage[a] = "waiting" /\ stage' = [stage EXCEPT ![a] = "recording"]
      /\ billed' = billed + c /\ cost' = [cost EXCEPT ![a] = c]
      /\ read' = [read EXCEPT ![a] = spend]
      /\ UNCHANGED <<todo, topic, spend, cache, missed, asks>>
  BY DEF A!Answer
<1>2. c \in 0..Estimate /\ cost \in [Commands -> 0..Estimate] /\ cost[a] = 0 /\ c \in Nat
  <2>1. \A d \in Costs : d \in 0..Estimate /\ d \in Nat
    BY DEF AgentConstants
  <2>2. cost \in [Commands -> 0..Estimate]
    BY <2>1 DEF AgentInv, A!TypeOK
  <2>3. cost[a] = 0
    BY <1>1 DEF AgentInv, AgentPlaces
  <2>4. QED
    BY <2>1, <2>2, <2>3
<1>3. A!TypeOK'
  <2>1. missed' \in BOOLEAN
    BY <1>1 DEF AgentInv, A!TypeOK
  <2>2. QED
    BY <1>1, <1>2, <2>1 DEF AgentInv, A!TypeOK
<1>4. AgentPlaces'
  <2>1. ASSUME NEW b \in Commands, b # a, stage'[b] = "recording"
        PROVE  read'[b] + cost'[b] <= billed'
    <3>1. stage[b] = "recording" /\ read'[b] = read[b] /\ cost'[b] = cost[b]
      BY <1>1, <2>1 DEF AgentInv, A!TypeOK
    <3>2. read[b] \in Nat /\ cost[b] \in Nat /\ billed \in Nat
      BY <1>2 DEF AgentInv, A!TypeOK, AgentConstants
    <3>3. read[b] + cost[b] <= billed
      BY <3>1 DEF AgentInv, AgentPlaces
    <3>4. QED
      BY <1>1, <1>2, <3>1, <3>2, <3>3
  <2>2. read'[a] + cost'[a] <= billed'
    <3>1. read'[a] = spend /\ cost'[a] = c
      BY <1>1 DEF AgentInv, A!TypeOK
    <3>2. spend \in Nat /\ billed \in Nat /\ spend <= billed
      BY DEF AgentInv, A!TypeOK
    <3>3. QED
      BY <1>1, <1>2, <3>1, <3>2
  <2>3. /\ \A b \in Commands : stage'[b] \in {"asking", "waiting", "recording"} => todo'[b] # <<>>
        /\ \A b \in Commands : stage'[b] # "recording" => cost'[b] = 0
        /\ \A b \in Commands : topic'[b] = "retro" => todo'[b] \in {<<>>, <<"analyze">>}
    BY <1>1 DEF AgentInv, AgentPlaces, A!TypeOK
  <2>4. QED
    BY <2>1, <2>2, <2>3 DEF AgentPlaces
<1>5. AccountsFor'
  <2>1. Cardinality(Owed(cost')) = Cardinality(Owed(cost)) + c
    BY <1>1, <1>2, OwedGrows
  <2>2. Cardinality(Owed(cost)) \in Nat
    BY OwedIsFinite
  <2>3. QED
    BY <1>1, <1>2, <2>1, <2>2 DEF AgentInv, AccountsFor, A!TypeOK
<1>6. AdmittedWithin'
  <2> DEFINE waiting == Cardinality(Asked("waiting"))
  <2>1. Cardinality(Asked("waiting")') = waiting - 1
    <3>1. Asked("waiting")' = Asked("waiting") \ {a} /\ a \in Asked("waiting")
      BY <1>1 DEF Asked, AgentInv, A!TypeOK
    <3>2. QED
      BY <3>1, AskedIsFinite, FS_RemoveElement
  <2>2. waiting \in Nat /\ Cardinality(Commands) \in Nat
    BY AskedIsFinite, FS_CardinalityType DEF AgentConstants
  <2>3. (waiting - 1) * Estimate = waiting * Estimate - Estimate
    BY <2>2 DEF AgentConstants
  <2> DEFINE w == waiting * Estimate
             m == (Cardinality(Commands) - 1) * Estimate
  <2>4. w \in Int /\ m \in Int
    BY <2>2 DEF AgentConstants
  <2>5. ~missed => billed + w <= Limit + m
    BY DEF AgentInv, AdmittedWithin
  <2> HIDE DEF w, m, waiting
  <2>6. ~missed => billed + c + (w - Estimate) <= Limit + m
    BY <1>2, <2>4, <2>5 DEF AgentConstants, AgentInv, A!TypeOK
  <2>7. QED
    BY <1>1, <2>1, <2>3, <2>6 DEF AdmittedWithin, w, m
<1>7. QED
  BY <1>3, <1>4, <1>5, <1>6 DEF AgentInv

(* The answer is recorded, or not; what the command makes of it.           *)
LEMMA RecordedStep ==
  ASSUME AgentConstants, AgentInv, NEW a \in Commands, stage[a] = "recording",
         stage' \in [Commands -> {"idle", "asking", "waiting", "recording"} \cup A!Ends],
         todo' \in [Commands -> Seq(A!Calls)],
         stage'[a] \in {"asking"} \cup A!Ends, stage'[a] = "asking" => todo'[a] # <<>>,
         topic[a] = "retro" => todo'[a] = <<>>,
         \A b \in Commands \ {a} : stage'[b] = stage[b] /\ todo'[b] = todo[b],
         cache' \subseteq {"investigate", "explain"},
         cost' = [cost EXCEPT ![a] = 0], read' = [read EXCEPT ![a] = 0],
         UNCHANGED <<topic, billed, asks>>, missed' \in BOOLEAN,
         \/ missed' /\ spend' = spend
         \/ spend' = read[a] + cost[a] /\ missed' = (missed \/ spend # read[a])
  PROVE  AgentInv'
<1>1. cost[a] \in Nat /\ cost[a] \in 0..Estimate /\ cost' \in [Commands -> Costs]
      /\ cost' \in [Commands -> 0..Estimate] /\ cost'[a] = 0
  <2>1. \A d \in Costs : d \in 0..Estimate /\ d \in Nat
    BY DEF AgentConstants
  <2>2. cost \in [Commands -> Costs] /\ 0 \in Costs
    BY DEF AgentConstants, AgentInv, A!TypeOK
  <2>3. cost' = [cost EXCEPT ![a] = 0]
    OBVIOUS
  <2>4. cost' \in [Commands -> Costs] /\ cost'[a] = 0
    BY <2>2, <2>3
  <2>5. cost[a] \in Costs
    BY <2>2
  <2>6. QED
    BY <2>1, <2>4, <2>5
<1>2. read[a] \in Nat /\ read' \in [Commands -> Nat]
  BY DEF AgentInv, A!TypeOK
<1>3. spend' \in Nat /\ spend' <= billed
  <2>1. spend \in Nat /\ billed \in Nat /\ spend <= billed /\ read[a] + cost[a] <= billed
    BY DEF AgentInv, A!TypeOK, AgentPlaces
  <2>2. QED
    BY <1>1, <1>2, <2>1
<1>4. A!TypeOK'
  BY <1>1, <1>2, <1>3 DEF AgentInv, A!TypeOK
<1>5. AgentPlaces'
  <2>1. ASSUME NEW b \in Commands \ {a}
        PROVE  stage'[b] = stage[b] /\ todo'[b] = todo[b] /\ cost'[b] = cost[b] /\ read'[b] = read[b]
    BY DEF AgentInv, A!TypeOK
  <2>2. stage'[a] \notin {"waiting", "recording"}
    BY DEF A!Ends
  <2>3. QED
    BY <1>1, <2>1, <2>2 DEF AgentInv, AgentPlaces
<1>6. AccountsFor'
  <2>1. CASE missed'
    BY <2>1 DEF AccountsFor
  <2>2. CASE ~missed'
    <3>1. ~missed /\ spend = read[a] /\ spend' = spend + cost[a]
      BY <2>2
    <3>2. cost = [cost' EXCEPT ![a] = cost[a]]
      <4>1. cost \in [Commands -> Costs] /\ cost' = [cost EXCEPT ![a] = 0]
        BY DEF AgentInv, A!TypeOK
      <4>2. QED
        BY <4>1
    <3>3. Cardinality(Owed(cost)) = Cardinality(Owed(cost')) + cost[a]
      <4>1. Cardinality(Owed([cost' EXCEPT ![a] = cost[a]])) = Cardinality(Owed(cost')) + cost[a]
        <5>1. cost' \in [Commands -> 0..Estimate] /\ cost[a] \in 0..Estimate /\ cost'[a] = 0
          BY <1>1
        <5> HIDE DEF Owed
        <5>2. QED
          BY ONLY AgentConstants, a \in Commands, <5>1, OwedGrows
      <4>2. QED
        BY <3>2, <4>1
    <3>4. Cardinality(Owed(cost')) \in Nat
      BY OwedIsFinite
    <3>5. billed = spend + Cardinality(Owed(cost))
      BY <3>1 DEF AgentInv, AccountsFor
    <3>6. QED
      BY <1>1, <3>1, <3>3, <3>4, <3>5 DEF AccountsFor, AgentInv, A!TypeOK
  <2>3. QED
    BY <2>1, <2>2
<1>7. AdmittedWithin'
  <2>1. Asked("waiting")' = Asked("waiting")
    BY DEF Asked, A!Ends
  <2>2. QED
    BY <2>1 DEF AgentInv, AdmittedWithin
<1>8. QED
  BY <1>4, <1>5, <1>6, <1>7 DEF AgentInv

LEMMA RecordStep ==
  ASSUME AgentConstants, AgentInv, NEW a \in Commands, A!Record(a) \/ A!RecordFails(a)
  PROVE  AgentInv'
<1>1. /\ stage[a] = "recording" /\ todo[a] \in Seq(A!Calls) /\ todo[a] # <<>>
      /\ topic[a] = "retro" => todo[a] = <<"analyze">>
  BY DEF A!Record, A!RecordFails, AgentInv, A!TypeOK, AgentPlaces
<1>2. Tail(todo[a]) \in Seq(A!Calls) /\ <<>> \in Seq(A!Calls)
  BY <1>1
<1> DEFINE Moved ==
      /\ stage' \in [Commands -> {"idle", "asking", "waiting", "recording"} \cup A!Ends]
      /\ todo' \in [Commands -> Seq(A!Calls)]
      /\ stage'[a] \in {"asking"} \cup A!Ends /\ (stage'[a] = "asking" => todo'[a] # <<>>)
      /\ topic[a] = "retro" => todo'[a] = <<>>
      /\ \A b \in Commands \ {a} : stage'[b] = stage[b] /\ todo'[b] = todo[b]
<1>3. ASSUME NEW plan \in Seq(A!Calls), A!Continue(a, plan), topic[a] = "retro" => plan = <<>>
      PROVE  Moved
  BY <1>3, AgentTypes DEF AgentInv, A!Ends
<1>4. ASSUME NEW how \in A!Ends, A!End(a, how)
      PROVE  Moved
  BY <1>2, <1>4, AgentTypes DEF AgentInv, A!Ends
<1>10. topic[a] = "retro" => Tail(todo[a]) = <<>>
  <2>1. Tail(<<"analyze">>) = <<>>
    OBVIOUS
  <2>2. QED
    BY <1>1, <2>1
<1> HIDE DEF Moved
<1>5. ASSUME A!Record(a)
      PROVE  Moved /\ cache' \subseteq {"investigate", "explain"}
  <2>1. CASE A!Useful(a)
    <3>1. Moved
      BY <1>2, <1>3, <1>10, <2>1 DEF A!Useful
    <3>2. cache \subseteq {"investigate", "explain"} /\ topic[a] \in A!Topics
      BY DEF AgentInv, A!TypeOK
    <3>3. CASE topic[a] = "retro"
      <4>1. Head(todo[a]) = "analyze"
        BY <1>1, <3>3
      <4>2. QED
        BY <2>1, <3>1, <3>2, <4>1 DEF A!Useful
    <3>4. CASE topic[a] # "retro"
      BY <2>1, <3>1, <3>2, <3>4 DEF A!Useful, A!Topics
    <3>5. QED
      BY <3>3, <3>4
  <2>2. CASE A!Useless(a)
    BY <1>4, <2>2 DEF A!Useless, A!Ends, AgentInv, A!TypeOK
  <2>3. CASE A!NextTurn(a)
    BY <1>2, <1>3, <1>4, <1>10, <2>3 DEF A!NextTurn, A!Ends, AgentInv, A!TypeOK
  <2>4. QED
    BY <1>5, <2>1, <2>2, <2>3 DEF A!Record
<1>6. ASSUME A!RecordFails(a)
      PROVE  Moved /\ cache' \subseteq {"investigate", "explain"}
  BY <1>4, <1>6 DEF A!RecordFails, A!Ends, AgentInv, A!TypeOK
<1>7. Moved /\ cache' \subseteq {"investigate", "explain"}
  BY <1>5, <1>6
<1>8. /\ cost' = [cost EXCEPT ![a] = 0] /\ read' = [read EXCEPT ![a] = 0]
      /\ UNCHANGED <<topic, billed, asks>> /\ missed' \in BOOLEAN
      /\ \/ missed' /\ spend' = spend
         \/ spend' = read[a] + cost[a] /\ missed' = (missed \/ spend # read[a])
  BY DEF A!Record, A!RecordFails, AgentInv, A!TypeOK
<1>9. QED
  BY <1>1, <1>7, <1>8, RecordedStep DEF Moved

(* Every step of a command keeps the accounts.                             *)
LEMMA AgentStep ==
  ASSUME AgentConstants, AgentInv, [A!Next]_A!agentVars
  PROVE  AgentInv'
<1>1. ASSUME NEW a \in Commands, A!Proceed(a)
      PROVE  AgentInv'
  <2>1. CASE A!CallFails(a)
    BY <2>1, EndStep DEF A!CallFails, A!Ends
  <2>2. QED
    BY <1>1, <2>1, AskStep, RecordStep, AnswerStep DEF A!Proceed
<1>2. CASE UNCHANGED A!agentVars
  BY <1>2 DEF A!agentVars, AgentInv, A!TypeOK, AgentPlaces, AccountsFor, AdmittedWithin, Owed, Asked
<1>3. QED
  BY <1>1, <1>2, RunStep DEF A!Next

(* What the property asks for, of the invariant.                           *)
LEMMA AgentGoal ==
  ASSUME AgentConstants, AgentInv
  PROVE  A!OvershootIsBounded
<1> DEFINE open == {a \in Commands : stage[a] = "recording"}
<1>1. ASSUME ~missed, open = {}
      PROVE  spend = billed
  <2>1. Owed(cost) = {}
    BY <1>1 DEF Owed, AgentInv, AgentPlaces
  <2>2. Cardinality(Owed(cost)) = 0
    BY <2>1, FS_EmptySet
  <2>3. QED
    BY <1>1, <2>2 DEF AgentInv, AccountsFor, A!TypeOK
<1>2. ASSUME ~missed
      PROVE  billed <= Limit + (Cardinality(Commands) - 1) * Estimate
  <2>1. Cardinality(Asked("waiting")) \in Nat /\ Cardinality(Commands) \in Nat
    BY AskedIsFinite, FS_CardinalityType DEF AgentConstants
  <2> DEFINE w == Cardinality(Asked("waiting")) * Estimate
             m == (Cardinality(Commands) - 1) * Estimate
  <2>2. w \in Nat /\ m \in Int
    BY <2>1 DEF AgentConstants
  <2>3. billed + w <= Limit + m
    BY <1>2 DEF AgentInv, AdmittedWithin
  <2> HIDE DEF w, m
  <2>4. billed <= Limit + m
    BY <2>2, <2>3 DEF AgentConstants, AgentInv, A!TypeOK
  <2>5. QED
    BY <2>4 DEF m
<1>3. QED
  BY <1>1, <1>2, CountsAlike DEF A!OvershootIsBounded

-----------------------------------------------------------------------------
(* The search and the run lock: what their proofs are about is the same.   *)

LEMMA SearchIsSame ==
  /\ O!SearchConstants => OP!SearchConstants
  /\ O!Init => OP!Init
  /\ O!Next => OP!Next
  /\ O!vars = OP!vars
  /\ OP!TypeOK => O!TypeOK
<1>1. O!SearchConstants => OP!SearchConstants
  BY DEF O!SearchConstants, OP!SearchConstants, O!IsFiniteSet, OP!IsFiniteSet
<1>2. O!Init => OP!Init
  BY DEF O!Init, OP!Init, O!NoJob, OP!NoJob, O!Starting, OP!Starting, O!config, OP!config
<1>3. O!Next => OP!Next
  BY DEF O!workerVars, OP!workerVars, O!stateVars, OP!stateVars, O!vars, OP!vars,
         O!config, OP!config, O!Starting, OP!Starting,
         O!iterationsDone, OP!iterationsDone, O!NoJob, OP!NoJob, O!Executing,
         OP!Executing, O!ThreadFree, OP!ThreadFree, O!AllStarted, OP!AllStarted, O!Begin,
         OP!Begin, O!LoopOpen, OP!LoopOpen, O!Leave, OP!Leave, O!Asking, OP!Asking,
         O!WorseThan, OP!WorseThan, O!ExitsEarly, OP!ExitsEarly, O!RecordRun,
         OP!RecordRun, O!Malformed, OP!Malformed, O!Known, OP!Known, O!Duplicate,
         OP!Duplicate, O!Execute, OP!Execute, O!Resumable, OP!Resumable, O!Record,
         OP!Record, O!Retries, OP!Retries, O!Settle, OP!Settle, O!Suspect, OP!Suspect,
         O!RetryAgain, OP!RetryAgain, O!SettleRetry, OP!SettleRetry, O!Return, OP!Return,
         O!Reject, OP!Reject, O!State, OP!State, O!ExportState, OP!ExportState, O!Resume,
         OP!Resume, O!WorkerStep, OP!WorkerStep, O!Next, OP!Next, O!Passed, OP!Passed,
         O!Outcomes, OP!Outcomes, O!Statuses, OP!Statuses
<1>4. O!vars = OP!vars
  BY DEF O!vars, OP!vars, O!workerVars, OP!workerVars, O!stateVars, OP!stateVars,
         O!config, OP!config
<1>5. OP!TypeOK => O!TypeOK
  BY DEF O!TypeOK, OP!TypeOK, O!Records, OP!Records, O!Jobs, OP!Jobs, O!SnapshotOK, OP!SnapshotOK,
         O!Executing, OP!Executing, O!Statuses, OP!Statuses
<1>6. QED
  BY <1>1, <1>2, <1>3, <1>4, <1>5

LEMMA LockIsSame ==
  /\ R!LockConstants => RP!LockConstants
  /\ R!Init => RP!Init
  /\ R!Next => RP!Next
  /\ R!vars = RP!vars
  /\ RP!TypeOK => R!TypeOK
<1>1. R!LockConstants => RP!LockConstants
  BY DEF R!LockConstants, RP!LockConstants
<1>2. R!Init => RP!Init
  BY DEF R!Init, RP!Init
<1>3. R!Next => RP!Next
  <2>1. ASSUME NEW d \in Deliveries, R!Handler(d)
        PROVE  RP!Handler(d)
    <3>1. CASE R!Acquire(d) \/ R!Check(d) \/ R!Create(d) \/ R!Start(d)
      BY <3>1 DEF RP!Handler, R!handlerVars, RP!handlerVars, R!queueVars, RP!queueVars, R!counters,
         RP!counters, R!Section, RP!Section, R!GoTo, RP!GoTo, R!Acquire, RP!Acquire,
         R!Updated, RP!Updated, R!Check, RP!Check, R!Create, RP!Create, R!Start, RP!Start
    <3>2. CASE R!Complete(d) \/ R!Progress(d) \/ R!Release(d) \/ R!Cleanup(d)
      BY <3>2 DEF RP!Handler, R!handlerVars, RP!handlerVars, R!queueVars, RP!queueVars, R!counters,
         RP!counters, R!Section, RP!Section, R!GoTo, RP!GoTo, R!Updated, RP!Updated,
         R!Complete, RP!Complete,
         R!Progress, RP!Progress, R!Release, RP!Release, R!Cleanup, RP!Cleanup
    <3>3. CASE R!Publish(d) \/ R!Finish(d) \/ R!Fail(d) \/ R!Ignored(d) \/ R!OnFailed(d)
      BY <3>3 DEF RP!Handler, R!handlerVars, RP!handlerVars, R!queueVars, RP!queueVars, R!counters,
         RP!counters, R!Section, RP!Section, R!GoTo, RP!GoTo, R!Publish, RP!Publish,
         R!Finish, RP!Finish, R!Fail, RP!Fail, R!Ignored, RP!Ignored, R!OnFailed,
         RP!OnFailed
    <3>4. QED
      BY <2>1, <3>1, <3>2, <3>3 DEF R!Handler
  <2>2. R!Dispatch \/ R!BackoffElapses \/ R!Stall => RP!Dispatch \/ RP!BackoffElapses \/ RP!Stall
    BY DEF R!handlerVars, RP!handlerVars, R!queueVars, RP!queueVars, R!counters,
         RP!counters, R!Section, RP!Section, R!GoTo, RP!GoTo, R!Dispatch, RP!Dispatch,
         R!BackoffElapses, RP!BackoffElapses, R!Stall, RP!Stall
  <2>3. ASSUME NEW d \in Deliveries, R!Deliver(d)
        PROVE  RP!Deliver(d)
    BY <2>3 DEF R!handlerVars, RP!handlerVars, R!queueVars, RP!queueVars, R!counters,
         RP!counters, R!Section, RP!Section, R!GoTo, RP!GoTo, R!Deliver, RP!Deliver
  <2>4. ASSUME NEW d \in Deliveries, R!Crash(d)
        PROVE  RP!Crash(d)
    BY <2>4 DEF R!handlerVars, RP!handlerVars, R!queueVars, RP!queueVars, R!counters,
         RP!counters, R!Section, RP!Section, R!GoTo, RP!GoTo, R!Crash, RP!Crash
  <2>5. ASSUME NEW d \in Deliveries, R!Expire(d)
        PROVE  RP!Expire(d)
    BY <2>5 DEF R!handlerVars, RP!handlerVars, R!queueVars, RP!queueVars, R!counters,
         RP!counters, R!Section, RP!Section, R!GoTo, RP!GoTo, R!Expire, RP!Expire,
         R!Cardinality, RP!Cardinality
  <2>6. QED
    BY <2>1, <2>2, <2>3, <2>4, <2>5 DEF R!Next, RP!Next
<1>4. R!vars = RP!vars
  BY DEF R!vars, RP!vars, R!handlerVars, RP!handlerVars, R!queueVars, RP!queueVars, R!counters,
         RP!counters
<1>5. RP!TypeOK => R!TypeOK
  BY DEF R!TypeOK, RP!TypeOK, R!Places, RP!Places
<1>6. QED
  BY <1>1, <1>2, <1>3, <1>4, <1>5

-----------------------------------------------------------------------------
(* All services at once                                                    *)

LEMMA ConstantsHold ==
  /\ OP!SearchConstants /\ RP!LockConstants
  /\ WebhookConstants /\ CalendarConstants /\ LiveConstants /\ AgentConstants
<1>1. Hears \in [Subscriptions -> SUBSET EventTypes]
  BY ServicesAssumption DEF ServicesAssumption, Hears
<1>2. QED
  BY <1>1, ServicesAssumption, SearchIsSame, LockIsSame
     DEF ServicesAssumption, WebhookConstants, CalendarConstants, LiveConstants, AgentConstants

ServicesInv ==
  /\ OP!TypeOK /\ RP!TypeOK
  /\ WebhookInv /\ CalendarInv /\ LiveInv /\ AgentInv

LEMMA ServicesInit == Init => ServicesInv
<1>1. SUFFICES ASSUME Init PROVE ServicesInv
  OBVIOUS
<1>2. OP!Init /\ RP!Init
  BY <1>1, SearchIsSame, LockIsSame DEF Init
<1>3. OP!TypeOK
  BY <1>2, ConstantsHold, OP!InitType
<1>4. RP!TypeOK
  BY <1>2, ConstantsHold, RP!TypeInit
<1>5. W!Init /\ C!Init /\ L!Init /\ A!Init
  BY <1>1 DEF Init
<1>6. WebhookInv /\ CalendarInv /\ LiveInv /\ AgentInv
  BY <1>5, ConstantsHold, WebhookInit, CalendarInit, LiveInit, AgentInit
<1>7. QED
  BY <1>3, <1>4, <1>6 DEF ServicesInv

(* A step is one of a service, or leaves the service alone.                *)
LEMMA EachAlone ==
  ASSUME [Next]_vars
  PROVE  /\ [OP!Next]_OP!vars /\ [RP!Next]_RP!vars
         /\ [W!Next]_W!webhookVars /\ [C!Next]_C!calendarVars
         /\ [L!Next]_L!liveVars /\ [A!Next]_A!agentVars
<1> USE DEF Search, Lock, Webhook, Calendar, Live, Agents
<1>1. O!Next \/ UNCHANGED searchVars
  BY DEF Next, vars
<1>2. R!Next \/ UNCHANGED lockVars
  BY DEF Next, vars
<1>3. W!Next \/ UNCHANGED webhookVars
  BY DEF Next, vars
<1>4. C!Next \/ UNCHANGED calendarVars
  BY DEF Next, vars
<1>5. L!Next \/ UNCHANGED liveVars
  BY DEF Next, vars
<1>6. A!Next \/ UNCHANGED agentVars
  BY DEF Next, vars
<1>7. [OP!Next]_OP!vars
  BY <1>1, SearchIsSame DEF searchVars, OP!vars, OP!workerVars, OP!stateVars, OP!config
<1>8. [RP!Next]_RP!vars
  BY <1>2, LockIsSame DEF lockVars, RP!vars, RP!handlerVars, RP!queueVars, RP!counters
<1>9. [W!Next]_W!webhookVars /\ [C!Next]_C!calendarVars
  BY <1>3, <1>4 DEF webhookVars, W!webhookVars, calendarVars, C!calendarVars
<1>10. [L!Next]_L!liveVars /\ [A!Next]_A!agentVars
  BY <1>5, <1>6 DEF liveVars, L!liveVars, L!cliVars, L!dashboardVars, agentVars, A!agentVars
<1>11. QED
  BY <1>7, <1>8, <1>9, <1>10

LEMMA ServicesStep == ServicesInv /\ [Next]_vars => ServicesInv'
<1>1. SUFFICES ASSUME ServicesInv, [Next]_vars PROVE ServicesInv'
  OBVIOUS
<1>2. /\ [OP!Next]_OP!vars /\ [RP!Next]_RP!vars
      /\ [W!Next]_W!webhookVars /\ [C!Next]_C!calendarVars
      /\ [L!Next]_L!liveVars /\ [A!Next]_A!agentVars
  BY <1>1, EachAlone
<1>3. OP!TypeOK'
  BY <1>1, <1>2, ConstantsHold, OP!NextType DEF ServicesInv
<1>4. RP!TypeOK'
  BY <1>1, <1>2, ConstantsHold, RP!TypeNext DEF ServicesInv
<1>5. WebhookInv' /\ CalendarInv'
  BY <1>1, <1>2, ConstantsHold, WebhookStep, CalendarStep DEF ServicesInv
<1>6. LiveInv' /\ AgentInv'
  BY <1>1, <1>2, ConstantsHold, LiveStep, AgentStep DEF ServicesInv
<1>7. QED
  BY <1>3, <1>4, <1>5, <1>6 DEF ServicesInv

LEMMA ServicesInvariant == Spec => []ServicesInv
BY ServicesInit, ServicesStep, PTL DEF Spec

(* Every variable of every service keeps to its type, the order of the     *)
(* orchestrator's records and the sequences of the webhooks' queue and of  *)
(* the event stream among them.                                            *)
THEOREM ServicesTypes == Spec => []TypeOK
<1>1. ServicesInv => TypeOK
  BY SearchIsSame, LockIsSame
     DEF ServicesInv, WebhookInv, CalendarInv, LiveInv, AgentInv, TypeOK
<1>2. QED
  BY <1>1, ServicesInvariant, PTL

(* For any subscriptions and any number of events and attempts: of every   *)
(* event each subscriber has one delivery, in one place, and the loop that *)
(* delivers is one, and sleeps only on an empty queue                      *)
(* (webhook-worker.ts: processQueue, deliver).                             *)
THEOREM DeliveriesKept == Spec => []NothingLostNorDoubled
<1>1. ServicesInv => NothingLostNorDoubled
  BY ConstantsHold, WebhookGoal DEF ServicesInv, NothingLostNorDoubled
<1>2. QED
  BY <1>1, ServicesInvariant, PTL

(* For any number of projects and chains: no two sessions of a project at  *)
(* once, each in the history once, and a calendar that is not stopped does *)
(* not fall asleep (calendar.ts:29-31, 59-75, 133-142).                    *)
THEOREM CalendarGoesOn == Spec => []CalendarKeepsOn
<1>1. ServicesInv => CalendarKeepsOn
  BY ConstantsHold, CalendarGoal DEF ServicesInv, CalendarKeepsOn
<1>2. QED
  BY <1>1, ServicesInvariant, PTL

(* Whatever the API, the network and the event stream do: a session shown  *)
(* COMPLETED or called uploaded is stored, and was in its file before      *)
(* (app.ts, cli/src/index.ts).                                             *)
THEOREM CompletedWasRecorded == Spec => []CompletedIsRecorded
<1>1. ServicesInv => CompletedIsRecorded
  BY LiveGoals DEF ServicesInv, CompletedIsRecorded
<1>2. QED
  BY <1>1, ServicesInvariant, PTL

(* For any number of commands, limit and costs up to the estimate: the     *)
(* budget is exceeded by less than one estimate for each further command   *)
(* (BudgetManager.ts:46).                                                  *)
THEOREM OvershootBounded == Spec => []OvershootIsBounded
<1>1. ServicesInv => OvershootIsBounded
  BY ConstantsHold, AgentGoal DEF ServicesInv, OvershootIsBounded
<1>2. QED
  BY <1>1, ServicesInvariant, PTL

=============================================================================
