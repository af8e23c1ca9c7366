--------------------------- MODULE MCSessionStore ---------------------------
(* Uploads and run ids are interchangeable; ids are not, their files are   *)
(* ordered.  Two ids are one but for upper and lower case.                 *)
EXTENDS SessionStore, TLC

LowerCase == [i \in Ids |-> IF i = "A1" THEN 1 ELSE IF i = "a1" THEN 1 ELSE 2]

Symmetry == Permutations(Uploads) \cup Permutations(RunIds)

=============================================================================
