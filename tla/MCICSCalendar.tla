--------------------------- MODULE MCICSCalendar ---------------------------
(***************************************************************************)
(* Small instances of ICSCalendar for TLC.                                 *)
(***************************************************************************)
EXTENDS ICSCalendar

CONSTANTS i1, i2

AtServer(circumstances) == [env |-> circumstances, hooks |-> "http"]
OnDisk(circumstances) == [env |-> circumstances, hooks |-> "file"]

AllCases ==
  { AtServer({"pipelined", "others", "getFails", "answerLost"}),
    AtServer({"others", "noEtag", "putFails", "answerLost"}),
    AtServer({"noEtag", "badAnswer", "unversioned", "putFails"}),
    AtServer({"pipelined", "noEtag", "unversioned", "answerLost"}),
    AtServer({"pipelined", "putFails", "openFails"}),
    AtServer({"others", "neverLoaded"}),
    AtServer({"pipelined", "others", "notUtf8", "notIcs", "gone"}),
    OnDisk({"others", "putFails", "openFails"}),
    OnDisk({"pipelined", "others", "race"}) }

Unreadable == { AtServer({"others", "notIcs"}) }
=============================================================================
