----------------------------- MODULE MCZephyrLL -----------------------------
(***************************************************************************)
(* Small instances of ZephyrLL for TLC.                                    *)
(***************************************************************************)
EXTENDS ZephyrLL, TLC

CONSTANTS t1, t2, t3

TwoTasks == {t1, t2}
ThreeTasks == {t1, t2, t3}
\* t1 is urgent, the others are not.
TwoPriorities == [t \in Task |-> IF t = t1 THEN 0 ELSE 1]
\* Tasks with the same priority are interchangeable.
TaskSymmetry == Permutations(Task \ {t1})
=============================================================================
