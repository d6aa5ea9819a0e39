--------------------------- MODULE MCCachedCalendar ---------------------------
(***************************************************************************)
(* Small instances of CachedCalendar for TLC.                              *)
(***************************************************************************)
EXTENDS CachedCalendar

CONSTANTS i1, i2, p1, p2

Mishaps == {"unavailable", "refuse", "getFails"}
With(circumstances, log) == [env |-> Mishaps \cup circumstances, log |-> log]

(* What the properties except is looked at a few circumstances at a time.  *)
AllCases ==
  { With({"answerLost", "restart", "undoDelete"}, TRUE),
    With({"refreshAgain"}, TRUE),
    With({"foreign", "editDuring"}, TRUE),
    With({"foreign", "disable"}, TRUE),
    With({"overlap"}, TRUE),
    With({}, TRUE),
    With({"disable"}, FALSE),
    With({"overlap", "answerLost", "restart"}, FALSE) }

CalmFullSync == {[env |-> {}, log |-> FALSE]}
=============================================================================
