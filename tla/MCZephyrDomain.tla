--------------------------- MODULE MCZephyrDomain ---------------------------
(* Instances of ZephyrDomain with two and three cores.                     *)
EXTENDS ZephyrDomain

CONSTANTS c0, c1, c2

TwoCores == {c0, c1}
ThreeCores == {c0, c1, c2}
=============================================================================
