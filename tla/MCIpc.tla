-------------------------------- MODULE MCIpc --------------------------------
(* Instances of Ipc.                                                       *)
EXTENDS Ipc

CONSTANTS c1, notification, log_status

OneCore == {c1}
TwoMsgs == {notification, log_status}
LogOnly == {log_status}
=============================================================================
