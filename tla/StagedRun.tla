------------------------------ MODULE StagedRun ------------------------------
(***************************************************************************)
(* What a run promises, without processes, pipes or stored states: the     *)
(* jobs are arranged in stages, a stage is entered only when nothing of an *)
(* earlier one is active, the whole is tried at most twice, each job is    *)
(* started at most once per try, and the end is reported once, after which *)
(* nothing is started.  RunExecution implements this specification.        *)
(***************************************************************************)
EXTENDS Naturals

CONSTANTS Jobs, StageOf, MaxTries

VARIABLES
  try,       \* the number of the try, 0 before the first
  status,    \* what each job does in this try
  reported   \* whether the end was reported

vars == <<try, status, reported>>

TypeOK ==
  /\ try \in 0..MaxTries
  /\ status \in [Jobs -> {"waiting", "active", "ended"}]
  /\ reported \in BOOLEAN

Init ==
  /\ try = 0
  /\ status = [j \in Jobs |-> "waiting"]
  /\ reported = FALSE

\* A new try forgets how far the one before came.
Try ==
  /\ ~ reported
  /\ try < MaxTries
  /\ try' = try + 1
  /\ status' = [j \in Jobs |-> "waiting"]
  /\ UNCHANGED reported

Start(j) ==
  /\ ~ reported
  /\ try > 0
  /\ status[j] = "waiting"
  /\ \A k \in Jobs :
       /\ StageOf[k] < StageOf[j] => status[k] # "active"
       /\ StageOf[k] > StageOf[j] => status[k] = "waiting"
  /\ status' = [status EXCEPT ![j] = "active"]
  /\ UNCHANGED <<try, reported>>

\* A job may end after the run was reported: its try had been given up.
End(j) ==
  /\ status[j] = "active"
  /\ status' = [status EXCEPT ![j] = "ended"]
  /\ UNCHANGED <<try, reported>>

Report ==
  /\ ~ reported
  /\ try > 0
  /\ reported' = TRUE
  /\ UNCHANGED <<try, status>>

Next == Try \/ Report \/ \E j \in Jobs : Start(j) \/ End(j)

Spec == Init /\ [][Next]_vars
=============================================================================
