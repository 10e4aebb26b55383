-------------------------------- MODULE MCKpb --------------------------------
(* Instances of Kpb.                                                       *)
EXTENDS Kpb

TwoSegments == <<2, 1>>
=============================================================================
