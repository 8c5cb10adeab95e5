--------------------------- MODULE MCRunExecution ---------------------------
(* Safety: two jobs in the first step and a debug job in the second; with  *)
(* a limit of one, the second attempt has to clear() the processes of the  *)
(* first.  Liveness and the disagreement with a comment: two jobs.         *)
EXTENDS RunExecution, TLC
CONSTANTS job1, job2, job3

MCJobs   == {job1, job2, job3}
MCStepOf == [j \in MCJobs |-> IF j = job3 THEN 2 ELSE 1]
MCProcs  == {1, 2} \X MCJobs
MCDebug  == {job3}

TwoJobs  == {job1, job2}
TwoSteps == [j \in TwoJobs |-> IF j = job2 THEN 2 ELSE 1]
TwoProcs == {1, 2} \X TwoJobs
=============================================================================
