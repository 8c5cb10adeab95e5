--------------------------- MODULE MCServiceGraph ---------------------------
(* A service, its child, and one that consumes it from the beginning.       *)
EXTENDS ServiceGraph, TLC
CONSTANTS vm, app, proxy, proc1, proc2

MCServices == {vm, app, proxy}
MCParent   == app :> vm @@ vm :> Nobody @@ proxy :> Nobody
MCWants    == proxy :> {vm} @@ vm :> {} @@ app :> {}
MCConsumed == {<<vm, proxy>>}
MCNone     == {}
MCProcs    == {proc1, proc2}
MCOneProc  == {proc1}
MCSymmetry == Permutations(MCProcs)
=============================================================================
