CONSTANTS
  job1 = job1
  job2 = job2
  job3 = job3
  Nobody = Nobody
  Jobs <- MCJobs
  NSteps = 2
  StepOf <- MCStepOf
  Debug = {}
  Procs <- MCProcs
  MaxProcesses = 10
  Behaviours = {}
SPECIFICATION Spec
INVARIANT StopsOnError
CHECK_DEADLOCK FALSE
