----------------------------- MODULE MCZephyrDP -----------------------------
(***************************************************************************)
(* Small instances of ZephyrDP for TLC.                                    *)
(***************************************************************************)
EXTENDS ZephyrDP, TLC

CONSTANTS d1, d2

OneTask == {d1}
TwoTasks == {d1, d2}
\* Periods of two and of one LL period, in microseconds.
TwoMs == [t \in Task |-> IF t = d1 THEN 2000 ELSE 1000]
\* 44 frames at 44.1 kHz
ShortPeriod == [t \in Task |-> 997]
AllResults == {"RESCHEDULE", "COMPLETED", "CANCEL"}
DpTaskRun == {"RESCHEDULE"}
=============================================================================
