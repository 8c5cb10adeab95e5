---------------------------- MODULE MCAysServer ----------------------------
(* A command of each kind that can be handed over, one that raises, one     *)
(* recurring action that may be pending twice, and one crash.               *)
EXTENDS AysServer, TLC
CONSTANTS cmd1, cmd2, cmd3, cmd4, act1

MCCommands == {cmd1, cmd2, cmd3, cmd4}
MCKind     == cmd1 :> "execute" @@ cmd2 :> "run" @@ cmd3 :> "event" @@ cmd4 :> "ignored"
MCRecurring == {act1}
=============================================================================
