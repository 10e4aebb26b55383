------------------------------ MODULE MCDpQueue ------------------------------
(***************************************************************************)
(* Small instances of DpQueue for TLC.                                     *)
(***************************************************************************)
EXTENDS DpQueue, TLC

CONSTANTS x, y

\* Bytes are only compared, so permuting their values changes nothing.
TwoBytes == {x, y}
ByteSymmetry == Permutations(TwoBytes)
OneParam == {"p"}
OneAndThree == {1, 3}
=============================================================================
