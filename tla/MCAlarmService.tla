---------------------------- MODULE MCAlarmService ----------------------------
(***************************************************************************)
(* Small instances of AlarmService for TLC.                                *)
(***************************************************************************)
EXTENDS AlarmService

CONSTANTS i1, i2, c1, c2

(* Two items, of one calendar or of two.                                   *)
OneEach == [i \in Item |-> IF i = i1 THEN c1 ELSE c2]

With(circumstances, those, changes) ==
  [env |-> circumstances, dates |-> those, edits |-> changes]

On(end, alarm) == [end |-> end, alarm |-> alarm]

(* Items that end, with alarms that are due, before, at the end of and after
   the first search's range; fewer where searches overlap.                 *)
AllCases ==
  { With({"suppress", "reload", "register"}, {On(1, 1), On(3, 3), On(4, 4)}, 2),
    With({}, {On(1, 3), On(4, 1), On(4, 3)}, 2),
    With({"longSnooze"}, {On(1, 1), On(3, 3)}, 2),
    With({"lateAlarm"}, {On(1, 4), On(2, 4), On(3, 4)}, 2),
    With({"sleep"}, {On(1, 1), On(1, 3)}, 1),
    With({"editDuring"}, {On(3, 3)}, 2) }
=============================================================================
