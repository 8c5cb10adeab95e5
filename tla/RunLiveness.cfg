CONSTANTS
  job1 = job1
  job2 = job2
  job3 = job3
  Nobody = Nobody
  Jobs <- TwoJobs
  NSteps = 2
  StepOf <- TwoSteps
  Debug = {}
  Procs <- TwoProcs
  MaxProcesses = 0
  Behaviours = {"long", "flood"}
SPECIFICATION FairSpec
PROPERTY CallbackEventually
CHECK_DEADLOCK FALSE
