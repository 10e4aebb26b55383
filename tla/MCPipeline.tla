----------------------------- MODULE MCPipeline -----------------------------
(* Instances of Pipeline: one or two pipelines of two components, on one   *)
(* core or on two.                                                         *)
EXTENDS Pipeline, TLC

CONSTANTS p1, p2, c0, c1

One == {p1}
Two == {p1, p2}
OneCore == [p \in Ppl |-> c0]
TwoCores == [p \in Ppl |-> IF p = p1 THEN c1 ELSE c0]

Unlinked == [p \in Ppl |-> None]
Linked == [p \in Ppl |-> IF p = p2 THEN p1 ELSE None]

NoDelay == [p \in Ppl |-> 0]
ShortDelay == [p \in Ppl |-> IF p = p1 THEN 1 ELSE 0]
LongDelay == [p \in Ppl |-> IF p = p1 THEN 4 ELSE 0]

MuxLast == {<<p1, 2>>}

StreamFaults == {"copy", "xrun"}
CommandFaults ==
    {"COMPLETE", "PREPARE", "PRE_START", "START", "RELEASE", "PAUSE", "STOP", "RESET"}
=============================================================================
