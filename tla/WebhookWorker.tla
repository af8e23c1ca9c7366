--------------------------- MODULE WebhookWorker ---------------------------
(***************************************************************************)
(* WebhookWorker of packages/core/src/api/webhook-worker.ts: events are    *)
(* queued per subscription, one loop delivers them one at a time, and a    *)
(* failed delivery comes back from a timer.                                *)
(*                                                                         *)
(* Abstractions.  An event is a number; what it says, and its signature,   *)
(* are left out.  The backoff is any time.                                 *)
(***************************************************************************)
EXTENDS Naturals, Sequences, SequencesExt, FiniteSets

CONSTANTS
  Subscriptions,  \* what registerSubscription was given
  EventTypes,
  Subscribed,     \* [Subscriptions -> SUBSET EventTypes]
  MaxEvents,      \* bound: events dispatched
  MaxAttempts     \* attempts of a delivery: 8 in the code

VARIABLES
  queue,       \* deliveries that wait for the loop
  processing,  \* the flag of that name
  inFlight,    \* deliveries awaited, one by each invocation of processQueue
  backoff,     \* deliveries whose retry timer is armed
  types,       \* types of the events dispatched so far
  settled,     \* deliveries that are over, and how
  posts        \* history: requests each delivery has cost its endpoint

webhookVars == <<queue, processing, inFlight, backoff, types, settled, posts>>

QueueItem == [event : Nat, sub : Subscriptions, attempts : Nat]
Outcomes == {"delivered", "dropped", "exhausted"}

Id(d) == <<d.event, d.sub>>

-----------------------------------------------------------------------------
Init ==
  /\ queue = <<>> /\ processing = FALSE
  /\ inFlight = {} /\ backoff = {}
  /\ types = <<>>
  /\ settled = {}
  /\ posts = [i \in (1..MaxEvents) \X Subscriptions |-> 0]

(* One pass of the loop's head: the next delivery is sent, or the loop     *)
(* ends.  `rest` are the deliveries other invocations await.               *)
LoopHead(q, rest) ==
  IF q = <<>>
    THEN queue' = q /\ processing' = FALSE /\ inFlight' = rest
    ELSE queue' = Tail(q) /\ processing' = TRUE /\ inFlight' = rest \cup {Head(q)}

(* Fault: a loop is started whether or not one is running.                 *)
PushAndStartAlways(q) == LoopHead(q, inFlight)

(* New deliveries are in the queue: a loop starts unless one is running.   *)
PushAndStart(q) ==
  IF processing THEN queue' = q /\ UNCHANGED <<processing, inFlight>>
                ELSE LoopHead(q, inFlight)

(* dispatch(), with one delivery for each matching subscription.           *)
Dispatch(type) ==
  /\ Len(types) < MaxEvents
  /\ types' = Append(types, type)
  /\ \E order \in SetToSeqs({s \in Subscriptions : type \in Subscribed[s]}) :
       PushAndStart(queue \o [i \in DOMAIN order |->
         [event |-> Len(types) + 1, sub |-> order[i], attempts |-> 0]])
  /\ UNCHANGED <<backoff, settled, posts>>

(* The endpoint answers, or refuses the event for good (4xx, not 429).     *)
Answered(d) ==
  /\ d \in inFlight
  /\ \E outcome \in {"delivered", "dropped"} :
       settled' = settled \cup {[id |-> Id(d), outcome |-> outcome]}
  /\ posts' = [posts EXCEPT ![Id(d)] = @ + 1]
  /\ LoopHead(queue, inFlight \ {d})
  /\ UNCHANGED <<backoff, types>>

(* Fault: the retry is armed once too often.                               *)
RetriesOneMore(d) == d.attempts <= MaxAttempts

Retries(d) == d.attempts < MaxAttempts

(* 429, 5xx, no connection, or no answer in time: the endpoint may have    *)
(* got the event all the same.                                             *)
Throws(d) ==
  LET again == [d EXCEPT !.attempts = @ + 1]
  IN /\ d \in inFlight
     /\ IF Retries(again)
          THEN backoff' = backoff \cup {again} /\ UNCHANGED settled
          ELSE /\ settled' = settled \cup {[id |-> Id(d), outcome |-> "exhausted"]}
               /\ UNCHANGED backoff
     /\ posts' = [posts EXCEPT ![Id(d)] = @ + 1]
     /\ LoopHead(queue, inFlight \ {d})
     /\ UNCHANGED types

(* Fault: the timer takes it that the loop of its time still runs.         *)
RetryUnstarted(d) ==
  /\ d \in backoff
  /\ backoff' = backoff \ {d}
  /\ queue' = Append(queue, d)
  /\ UNCHANGED <<processing, inFlight, types, settled, posts>>

(* The timer fires.                                                        *)
Retry(d) ==
  /\ d \in backoff
  /\ backoff' = backoff \ {d}
  /\ PushAndStart(Append(queue, d))
  /\ UNCHANGED <<types, settled, posts>>

RetryOf(id) == \E d \in backoff : Id(d) = id /\ Retry(d)
Work == \E d \in inFlight : Answered(d) \/ Throws(d)
Timer == \E d \in backoff : Retry(d)

Next == (\E type \in EventTypes : Dispatch(type)) \/ Work \/ Timer

(* fetch() settles within deliveryTimeoutMs, and an armed timer fires.     *)
Fairness ==
  /\ WF_webhookVars(Work)
  /\ \A id \in (1..MaxEvents) \X Subscriptions : WF_webhookVars(RetryOf(id))

-----------------------------------------------------------------------------
TypeOK ==
  /\ queue \in Seq(QueueItem)
  /\ processing \in BOOLEAN
  /\ inFlight \subseteq QueueItem /\ backoff \subseteq QueueItem
  /\ types \in Seq(EventTypes)
  /\ settled \subseteq [id : Nat \X Subscriptions, outcome : Outcomes]
  /\ posts \in [(1..MaxEvents) \X Subscriptions -> 0..MaxAttempts]

Places(id) ==
  Cardinality({i \in DOMAIN queue : Id(queue[i]) = id})
  + Cardinality({d \in inFlight : Id(d) = id})
  + Cardinality({d \in backoff : Id(d) = id})
  + Cardinality({r \in settled : r.id = id})

(* Deliveries go out one at a time, by one loop, and the loop sleeps only  *)
(* with an empty queue; each is in one place, whichever retries come back  *)
(* while the loop ends or runs; it is over after eight posts at most.      *)
NothingLostNorDoubled ==
  /\ Cardinality(inFlight) = IF processing THEN 1 ELSE 0
  /\ ~processing => queue = <<>>
  /\ \A e \in DOMAIN types, s \in Subscriptions :
       Places(<<e, s>>) = IF types[e] \in Subscribed[s] THEN 1 ELSE 0

(* Every event ends delivered, refused or exhausted at every endpoint that *)
(* subscribed to it, though one endpoint may fail for ever.                *)
EveryDeliverySettles ==
  \A e \in 1..MaxEvents, s \in Subscriptions :
    e \in DOMAIN types /\ types[e] \in Subscribed[s]
      ~> \E r \in settled : r.id = <<e, s>>

=============================================================================
