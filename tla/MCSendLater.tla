---------------------------- MODULE MCSendLater ----------------------------
(* Small instances of SendLater: two messages that may be sent in the      *)
(* background and one with the Queued flag.                                *)
EXTENDS SendLater

CONSTANTS m1, m2, q1
=============================================================================
