---------------------------- MODULE PythonClock ----------------------------
(***************************************************************************)
(* The scoped virtual clock of the Python SDK (sdk-python/sibyl/clock.py): *)
(* functions of the time and datetime modules that are patched while any   *)
(* clock is entered, and a context variable that says, task by task, which *)
(* clock they read.                                                        *)
(*                                                                         *)
(* Abstractions.  The five patched names are one.  A time read is the      *)
(* clock it comes from.  Other code that patches the name wraps whatever   *)
(* it finds, and restores it.  A thread is a task that inherits nothing.   *)
(***************************************************************************)
EXTENDS Naturals, Sequences, FiniteSets, SequencesExt

CONSTANTS Clocks, Tasks, MaxNesting, None

VARIABLES
  patched,  \* what time.time is, outermost first: "ours" is _patched_time
  depth,    \* _patch_depth
  active,   \* the context variable, by task
  tokens,   \* _tokens, by clock: the task that entered and the clock it had
  blocks,   \* by task: the clocks of the with blocks it is in, innermost first
  shared,   \* history: the clocks that several tasks were in at once
  overlaid  \* history: other code had patched the name

pythonVars == <<patched, depth, active, tokens, blocks, shared, overlaid>>

Init ==
  /\ patched = <<>> /\ depth = 0
  /\ active = [t \in Tasks |-> None]
  /\ tokens = [c \in Clocks |-> <<>>]
  /\ blocks = [t \in Tasks |-> <<>>]
  /\ shared = {} /\ overlaid = FALSE

(* _install_patches(): the first to come sets the name, over anything.     *)
InstallPatches ==
  /\ patched' = IF depth = 0 THEN <<"ours">> ELSE patched
  /\ depth' = depth + 1

(* Fault: every exit restores the name.                                    *)
RemovePatchesAlways ==
  /\ depth' = depth - 1
  /\ patched' = IF patched # <<>> /\ Head(patched) = "ours" THEN <<>> ELSE patched

(* _remove_patches(): the last to go restores the name, unless something   *)
(* else is on top.                                                         *)
RemovePatches ==
  /\ depth' = depth - 1
  /\ patched' = IF depth = 1 /\ patched # <<>> /\ Head(patched) = "ours" THEN <<>> ELSE patched

(* __enter__().  (The context variable is the task's own, so nothing that  *)
(* happens between the patches and its assignment matters.)                *)
Enter(t, c) ==
  /\ Len(blocks[t]) < MaxNesting
  /\ InstallPatches
  /\ tokens' = [tokens EXCEPT ![c] = Append(@, [task |-> t, old |-> active[t]])]
  /\ active' = [active EXCEPT ![t] = c]
  /\ blocks' = [blocks EXCEPT ![t] = <<c>> \o @]
  /\ shared' = IF \E u \in Tasks \ {t} : c \in Range(blocks[u]) THEN shared \cup {c} ELSE shared
  /\ UNCHANGED overlaid

(* __exit__(): the last token of the clock; one that another task got is a *)
(* ValueError, and the clock stays active.  The patches go in any case.    *)
Exit(t) ==
  LET c == Head(blocks[t])
      token == Last(tokens[c])
  IN /\ blocks[t] # <<>>
     /\ tokens' = [tokens EXCEPT ![c] = Front(@)]
     /\ active' = IF token.task = t THEN [active EXCEPT ![t] = token.old] ELSE active
     /\ RemovePatches
     /\ blocks' = [blocks EXCEPT ![t] = Tail(@)]
     /\ UNCHANGED <<shared, overlaid>>

(* Task t creates task u (one that does nothing yet), which inherits the   *)
(* context.                                                                *)
CreateTask(t, u) ==
  /\ t # u /\ blocks[u] = <<>> /\ \A c \in Clocks : \A i \in DOMAIN tokens[c] : tokens[c][i].task # u
  /\ active[u] # active[t]
  /\ active' = [active EXCEPT ![u] = active[t]]
  /\ UNCHANGED <<patched, depth, tokens, blocks, shared, overlaid>>

(* Other code patches the name and restores what it found.                 *)
Overlay ==
  /\ "other" \notin Range(patched)
  /\ patched' = <<"other">> \o patched
  /\ overlaid' = TRUE
  /\ UNCHANGED <<depth, active, tokens, blocks, shared>>

Unlay ==
  /\ patched # <<>> /\ Head(patched) = "other"
  /\ patched' = Tail(patched)
  /\ UNCHANGED <<depth, active, tokens, blocks, shared, overlaid>>

Next ==
  \/ \E t \in Tasks : \/ Exit(t)
                      \/ \E c \in Clocks : Enter(t, c)
                      \/ \E u \in Tasks : CreateTask(t, u)
  \/ Overlay \/ Unlay

-----------------------------------------------------------------------------
(* time.time() in task t: _patched_time() consults the context.            *)
Reads(t) == IF "ours" \in Range(patched) THEN active[t] ELSE None

TypeOK ==
  /\ patched \in {<<>>, <<"ours">>, <<"other">>, <<"other", "ours">>}
  /\ depth \in 0..(MaxNesting * Cardinality(Tasks))
  /\ active \in [Tasks -> Clocks \cup {None}]
  /\ \A c \in Clocks : tokens[c] \in Seq([task : Tasks, old : Clocks \cup {None}])
  /\ blocks \in [Tasks -> Seq(Clocks)]
  /\ shared \subseteq Clocks /\ overlaid \in BOOLEAN

(* Blocks of tasks and threads overlap in any way: one reads, in its own   *)
(* block, the clock of the block, as long as its clocks are not shared;    *)
(* when the last block is left nothing is patched any more, even if an     *)
(* exit raised, unless other code patched on top (clock.py:204).           *)
ScopedTime ==
  /\ \A t \in Tasks :
       blocks[t] # <<>> /\ shared = {} => Reads(t) = Head(blocks[t])
  /\ (depth = 0) <=> (\A t \in Tasks : blocks[t] = <<>>)
  /\ depth = 0 /\ ~overlaid => patched = <<>>
  /\ depth > 0 => "ours" \in Range(patched)

=============================================================================
