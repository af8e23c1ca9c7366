---------------------------- MODULE MessageFaults ----------------------------
(***************************************************************************)
(* A producer and a consumer behind the wrappers of                        *)
(* packages/fault-drivers/mq, and the broker between them: Kafka, where a  *)
(* handler that resolves commits, or SQS, where the consumer deletes.      *)
(*                                                                         *)
(* Abstractions.  Messages are independent, so reordering is any order.    *)
(* The application handles a message and then deletes it.  MaxStrikes      *)
(* bounds the faults; handlers that throw are bounded with them.           *)
(***************************************************************************)
EXTENDS Naturals

CONSTANTS Messages, MaxStrikes

VARIABLES
  broker,   \* "kafka" or "sqs"
  place,    \* where the broker's copy of a message is
  running,  \* handler invocations of the current delivery still to end
  ghosts,   \* invocations of earlier deliveries that still run
  told,     \* the messages whose send() has resolved
  dropped,  \* those a MESSAGE_LOSS took
  handled,  \* those whose handler has ended, at least once
  strikes   \* bound: faults so far

messageVars == <<broker, place, running, ghosts, told, dropped, handled, strikes>>

Places == {"none", "held", "queued", "delivered", "handled", "gone"}

-----------------------------------------------------------------------------
Init ==
  /\ broker \in {"kafka", "sqs"}
  /\ place = [m \in Messages |-> "none"]
  /\ running = [m \in Messages |-> 0] /\ ghosts = {}
  /\ told = {} /\ dropped = {} /\ handled = {} /\ strikes = 0

Strike == strikes < MaxStrikes /\ strikes' = strikes + 1

(* send(): the broker has the message at once, after a delay, or never.    *)
(* OUT_OF_ORDER_DELIVERY delays or reverses: both are some order.          *)
Send(m) ==
  /\ place[m] = "none" /\ m \notin told
  /\ \/ /\ place' = [place EXCEPT ![m] = "queued"]
        /\ told' = told \cup {m} /\ UNCHANGED <<dropped, strikes>>
     \/ /\ Strike  \* MESSAGE_DELAY
        /\ place' = [place EXCEPT ![m] = "held"] /\ UNCHANGED <<told, dropped>>
     \/ /\ Strike  \* MESSAGE_LOSS
        /\ told' = told \cup {m} /\ dropped' = dropped \cup {m} /\ UNCHANGED place
  /\ UNCHANGED <<broker, running, ghosts, handled>>

DelayOver(m) ==
  /\ place[m] = "held"
  /\ place' = [place EXCEPT ![m] = "queued"]
  /\ told' = told \cup {m}
  /\ UNCHANGED <<broker, running, ghosts, dropped, handled, strikes>>

(* eachMessage, or ReceiveMessage: MESSAGE_DUPLICATE has it handled twice. *)
Deliver(m) ==
  /\ place[m] = "queued"
  /\ place' = [place EXCEPT ![m] = "delivered"]
  /\ \/ running' = [running EXCEPT ![m] = 1] /\ UNCHANGED strikes
     \/ Strike /\ running' = [running EXCEPT ![m] = 2]
  /\ UNCHANGED <<broker, ghosts, told, dropped, handled>>

(* A handler ends.  Kafka commits after the last; with SQS it is up to the *)
(* consumer.                                                               *)
HandlerEnds(m) ==
  /\ running[m] > 0
  /\ running' = [running EXCEPT ![m] = @ - 1]
  /\ handled' = handled \cup {m}
  /\ place' = [place EXCEPT ![m] =
       IF running[m] > 1 THEN @ ELSE IF broker = "kafka" THEN "gone" ELSE "handled"]
  /\ UNCHANGED <<broker, ghosts, told, dropped, strikes>>

GhostEnds(m) ==
  /\ m \in ghosts
  /\ ghosts' = ghosts \ {m} /\ handled' = handled \cup {m}
  /\ UNCHANGED <<broker, place, running, told, dropped, strikes>>

(* The delivery is over for the broker, which has the message again; a     *)
(* handler that runs goes on.                                              *)
Redeliver(m) ==
  /\ place' = [place EXCEPT ![m] = "queued"]
  /\ running' = [running EXCEPT ![m] = 0]
  /\ ghosts' = IF running[m] > 0 THEN ghosts \cup {m} ELSE ghosts

(* A handler throws: Kafka retries, SQS shows the message again.           *)
HandlerThrows(m) ==
  /\ Strike
  /\ running[m] > 0
  /\ place' = [place EXCEPT ![m] = "queued"]
  /\ running' = [running EXCEPT ![m] = 0]
  /\ UNCHANGED <<broker, ghosts, told, dropped, handled>>

(* Fault: the crash is a return.                                           *)
CrashReturns(m) ==
  /\ broker = "kafka" /\ place[m] = "delivered"
  /\ Strike
  /\ place' = [place EXCEPT ![m] = "gone"]
  /\ running' = [running EXCEPT ![m] = 0]
  /\ UNCHANGED <<broker, ghosts, told, dropped, handled>>

(* CONSUMER_CRASH_MID_PROCESSING with Kafka: the crash wins the race       *)
(* against the handler.                                                    *)
CrashWins(m) ==
  /\ broker = "kafka" /\ place[m] = "delivered"
  /\ Strike
  /\ Redeliver(m)
  /\ UNCHANGED <<broker, told, dropped, handled>>

(* DeleteMessage, which CONSUMER_CRASH_MID_PROCESSING keeps from SQS.      *)
Delete(m) ==
  /\ broker = "sqs" /\ place[m] = "handled"
  /\ \/ place' = [place EXCEPT ![m] = "gone"] /\ UNCHANGED strikes
     \/ Strike /\ place' = [place EXCEPT ![m] = "delivered"]
  /\ UNCHANGED <<broker, running, ghosts, told, dropped, handled>>

(* The visibility timeout of SQS.                                          *)
VisibleAgain(m) ==
  /\ broker = "sqs" /\ place[m] \in {"delivered", "handled"}
  /\ Redeliver(m)
  /\ UNCHANGED <<broker, told, dropped, handled, strikes>>

Next ==
  \E m \in Messages :
    \/ Send(m) \/ DelayOver(m) \/ Deliver(m)
    \/ HandlerEnds(m) \/ GhostEnds(m) \/ HandlerThrows(m)
    \/ CrashWins(m) \/ Delete(m) \/ VisibleAgain(m)

-----------------------------------------------------------------------------
TypeOK ==
  /\ broker \in {"kafka", "sqs"}
  /\ place \in [Messages -> Places]
  /\ running \in [Messages -> 0..2] /\ ghosts \subseteq Messages
  /\ told \subseteq Messages /\ dropped \subseteq told /\ handled \subseteq Messages
  /\ strikes \in 0..MaxStrikes

(* Injected crashes, duplicates and delays never lose a message: a message *)
(* whose send() resolved is with the broker until a handler of it ended,   *)
(* and only MESSAGE_LOSS takes one (sqs-wrapper.ts:89: the message will    *)
(* become visible again).                                                  *)
OnlyLossLoses ==
  \A m \in Messages :
    /\ m \in told \ dropped => place[m] \in {"queued", "delivered", "handled", "gone"}
    /\ place[m] \in {"handled", "gone"} => m \in handled

=============================================================================
