--------------------------- MODULE MCGlodaIndexer ---------------------------
(***************************************************************************)
(* Small instances of GlodaIndexer for TLC.                                *)
(***************************************************************************)
EXTENDS GlodaIndexer, TLC

CONSTANTS m1, m2, f1, f2

Apart(circumstances) ==
  [env |-> circumstances, home |-> (m1 :> f1 @@ m2 :> f2), mail |-> {m1, m2}]
Together(circumstances) ==
  [env |-> circumstances, home |-> (m1 :> f1 @@ m2 :> f1), mail |-> {m1, m2}]
Alone(circumstances) ==
  [env |-> circumstances, home |-> (m1 :> f1 @@ m2 :> f1), mail |-> {m1}]

AllCases ==
  { Apart({"quit"}), Apart({"overflow"}),
    Together({"inHand", "behind"}),
    Alone({"compact", "quit"}), Alone({"offline"}),
    Alone({"crash", "quit", "inHand", "behind"}),
    Alone({"idleRace", "inHand"}) }

Quitting == { Apart({"quit", "behind"}) }
=============================================================================
