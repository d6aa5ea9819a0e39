---------------------------- MODULE MCChatAccounts ----------------------------
(***************************************************************************)
(* Small instances of ChatAccounts for TLC.                                *)
(***************************************************************************)
EXTENDS ChatAccounts

CONSTANTS a1, a2

One(circumstances) == [env |-> circumstances, accounts |-> {a1}]
Two(circumstances) == [env |-> circumstances, accounts |-> {a1, a2}]

AllCases ==
  { One({"lost", "status", "fatal", "delete"}),
    One({"lost", "idle", "status", "deadLink", "sleep", "lastSecond"}),
    One({"lost", "infoChange", "fatal", "status"}),
    One({"lost", "idle", "lateWelcome", "status", "deadLink"}),
    One({"lost", "crash", "noReport", "status"}),
    Two({"crash"}) }

=============================================================================
