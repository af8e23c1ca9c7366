----------------------------- MODULE QueryFaults -----------------------------
(***************************************************************************)
(* One wrapped client of packages/fault-drivers/db: interceptQuery and its *)
(* transaction tracker, between an application that may send statements    *)
(* without awaiting the last one and a database.                           *)
(*                                                                         *)
(* Abstractions.  A statement is its kind.  Statements the database gets   *)
(* succeed.  The application does not BEGIN inside of a transaction.       *)
(***************************************************************************)
EXTENDS Naturals, FiniteSets

CONSTANT MaxStatements  \* bound: statements sent

VARIABLES
  pooled,    \* the statements go to the pool, not to a client of it
  installed, \* the driver has a context
  tracker,   \* what updateTxState() keeps
  database,  \* the transaction the database has open, if any
  delayed,   \* statements held back by a fault
  sent,      \* bound: statements sent so far
  uncertain, \* history: a statement failed or was overtaken in a transaction
  broken     \* history: what PARTIAL_COMMIT has broken

queryVars == <<pooled, installed, tracker, database, delayed, sent, uncertain, broken>>

Kinds == {"begin", "statement", "rollback to", "end"}
Faults == {"SLOW_QUERY", "QUERY_TIMEOUT", "CONNECTION_DROP", "DEADLOCK", "PARTIAL_COMMIT"}
NoFault == "none"
Closed == [open |-> FALSE, ran |-> 0]

-----------------------------------------------------------------------------
Init ==
  /\ pooled \in BOOLEAN /\ installed \in BOOLEAN
  /\ tracker = Closed /\ database = Closed
  /\ delayed = {} /\ sent = 0
  /\ uncertain = FALSE /\ broken = {}

(* Fault: ROLLBACK TO a savepoint counts as the end.                       *)
TrackedCoarsely(t, kind) ==
  CASE kind = "begin" -> [open |-> TRUE, ran |-> 0]
    [] kind \in {"end", "rollback to"} -> Closed
    [] OTHER -> IF t.open THEN [t EXCEPT !.ran = @ + 1] ELSE Closed

(* updateTxState(): what it keeps.  "end" is COMMIT, END or ROLLBACK.      *)
Tracked(t, kind) ==
  CASE kind = "begin" -> [open |-> TRUE, ran |-> 0]
    [] kind = "end" -> Closed
    [] OTHER -> IF t.open THEN [t EXCEPT !.ran = @ + 1] ELSE Closed

(* What it returns: the count before this statement.                       *)
Reported(t, kind) ==
  IF kind = "begin" THEN [open |-> TRUE, ran |-> 0]
  ELSE IF kind = "end" THEN Closed ELSE t

(* The database runs a statement.                                          *)
Ran(db, kind) ==
  CASE kind = "begin" -> [open |-> TRUE, ran |-> 0]
    [] kind = "end" -> Closed
    [] OTHER -> IF db.open THEN [db EXCEPT !.ran = @ + 1] ELSE db

(* PARTIAL_COMMIT strikes at the second statement of a transaction.        *)
Strikes(fault, state) == fault # "PARTIAL_COMMIT" \/ (state.open /\ state.ran = 1)

(* The statement goes through; the end of a transaction settles matters    *)
(* unless a statement is still held back.                                  *)
PassThrough(kind) ==
  /\ database' = Ran(database, kind)
  /\ uncertain' = IF kind = "end" THEN delayed # {} ELSE uncertain \/ delayed # {}
  /\ UNCHANGED <<delayed, broken>>

HoldBack(kind) ==
  /\ delayed' = delayed \cup {<<sent, kind>>}
  /\ uncertain' = (uncertain \/ delayed # {})
  /\ UNCHANGED <<database, broken>>

Fail(fault) ==
  /\ uncertain' = TRUE
  /\ broken' = IF fault = "PARTIAL_COMMIT"
                 THEN broken \cup {[at |-> database, sure |-> ~uncertain /\ delayed = {}]}
                 ELSE broken
  /\ UNCHANGED <<database, delayed>>

Track(kind) == tracker' = IF pooled THEN tracker ELSE Tracked(tracker, kind)

(* interceptQuery().                                                       *)
Query(kind) ==
  LET state == IF pooled THEN Closed ELSE Reported(tracker, kind)
  IN /\ sent < MaxStatements
     /\ kind = "begin" => ~database.open
     /\ sent' = sent + 1
     /\ Track(kind)
     /\ \E fault \in {NoFault} \cup (IF installed THEN Faults ELSE {}) :
          IF fault = NoFault \/ ~Strikes(fault, state) THEN PassThrough(kind)
          ELSE IF fault = "SLOW_QUERY" THEN HoldBack(kind) ELSE Fail(fault)
     /\ UNCHANGED <<pooled, installed>>

(* The delay of SLOW_QUERY is over.                                        *)
DelayOver ==
  /\ \E held \in delayed :
       /\ delayed' = delayed \ {held}
       /\ database' = Ran(database, held[2])
  /\ UNCHANGED <<pooled, installed, tracker, sent, uncertain, broken>>

(* install() and uninstall(), at any time.                                 *)
Toggle ==
  /\ installed' = ~installed
  /\ UNCHANGED <<pooled, tracker, database, delayed, sent, uncertain, broken>>

Next == (\E kind \in Kinds : Query(kind)) \/ DelayOver \/ Toggle

-----------------------------------------------------------------------------
TypeOK ==
  /\ pooled \in BOOLEAN /\ installed \in BOOLEAN
  /\ \A t \in {tracker, database} : t.open \in BOOLEAN /\ t.ran \in 0..MaxStatements
  /\ delayed \subseteq (0..MaxStatements) \X Kinds
  /\ sent \in 0..MaxStatements /\ uncertain \in BOOLEAN
  /\ broken \subseteq [at : [open : BOOLEAN, ran : 0..MaxStatements], sure : BOOLEAN]

(* PARTIAL_COMMIT lets the first statement of a transaction succeed and    *)
(* breaks the second (query-fault.ts:94): with drivers that come and go in *)
(* the middle of transactions, savepoints and slow statements, the         *)
(* database holds exactly one statement of an open transaction, as long as *)
(* no other fault hit it and its statements were awaited.                  *)
PartialIsHalf ==
  /\ \A b \in broken : b.sure => b.at = [open |-> TRUE, ran |-> 1]
  /\ ~pooled /\ ~uncertain /\ delayed = {} => tracker = database
  /\ pooled => broken = {}

=============================================================================
