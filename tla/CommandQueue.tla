----------------------------- MODULE CommandQueue -----------------------------
(***************************************************************************)
(* What the daemon promises to the clients that put commands on its queue: *)
(* they are taken in the order in which they were put, one at a time, each *)
(* of them is given to a worker at most once, and none while the daemon is *)
(* closed.  It does not promise that a command that was taken is given.    *)
(* AysServer implements this specification.                                *)
(***************************************************************************)
EXTENDS Naturals, Sequences

CONSTANT Commands

VARIABLES
  put,     \* the commands that were put, in that order
  taken,   \* how many of them were taken
  held,    \* whether the last one taken may still be given
  given,   \* the commands given to workers
  open     \* whether the daemon gives commands

vars == <<put, taken, held, given, open>>

Init ==
  /\ put = <<>>
  /\ taken = 0
  /\ held = FALSE
  /\ given = <<>>
  /\ open = TRUE

Put(c) ==
  /\ put' = Append(put, c)
  /\ UNCHANGED <<taken, held, given, open>>

Take ==
  /\ ~ held
  /\ taken < Len(put)
  /\ taken' = taken + 1
  /\ held' = TRUE
  /\ UNCHANGED <<put, given, open>>

Give ==
  /\ held
  /\ open
  /\ given' = Append(given, put[taken])
  /\ held' = FALSE
  /\ UNCHANGED <<put, taken, open>>

Lose ==
  /\ held
  /\ held' = FALSE
  /\ UNCHANGED <<put, taken, given, open>>

Close ==
  /\ open' = FALSE
  /\ UNCHANGED <<put, taken, held, given>>

\* A new daemon knows nothing of what the last one had in hand.
Restart ==
  /\ held' = FALSE
  /\ open' = TRUE
  /\ UNCHANGED <<put, taken, given>>

Next == Take \/ Give \/ Lose \/ Close \/ Restart \/ \E c \in Commands : Put(c)

Spec == Init /\ [][Next]_vars
=============================================================================
