--------------------------- MODULE MCProcessClient ---------------------------
(* Three processes against a limit of one: the second start is at the      *)
(* limit, the third has to clear().                                        *)
EXTENDS ProcessClient, TLC
CONSTANTS p1, p2, p3
MCProcs == {p1, p2, p3}
MCBehaviours == {"long", "flood", "die"}
=============================================================================
