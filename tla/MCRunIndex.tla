----------------------------- MODULE MCRunIndex -----------------------------
(* Two runs that were created in the same second, and one that was not.     *)
EXTENDS RunIndex, TLC
CONSTANTS run1, run2, run3

MCRuns == {run1, run2, run3}
MCDate == run1 :> 1 @@ run2 :> 1 @@ run3 :> 2
MCSymmetry == Permutations({run1, run2})
=============================================================================
