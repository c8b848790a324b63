--------------------------- MODULE MCRunScheduler ---------------------------
(* Task graphs for the runs of RunScheduler.                               *)
EXTENDS RunScheduler, TLC

Ids == 1..NumTasks

NoDeps == [t \in Ids |-> {}]
Chain  == [t \in Ids |-> IF t = 1 THEN {} ELSE {t - 1}]

(* Each task after the next one: tasks.md may list a task before those it  *)
(* depends on.                                                             *)
Backwards == [t \in Ids |-> {t + 1} \cap Ids]

All == Ids
AllButOne == Ids \ {1}

SameId == [t \in Ids |-> {t}]

RunSymmetry == Permutations(Starts)
EditSymmetry == Permutations(Edits)
=============================================================================
