CONSTANTS
  job1 = job1
  job2 = job2
  job3 = job3
  Nobody = Nobody
  Jobs <- MCJobs
  NSteps = 2
  StepOf <- MCStepOf
  Debug <- MCDebug
  Procs <- MCProcs
  MaxProcesses = 1
  Behaviours = {"long", "die"}
SPECIFICATION Spec
INVARIANTS TypeOK StepBarrier OkRunIsExplained RunErrorHasCause JobStateHasCause CallbackIsFinal
PROPERTY ImplementsStagedRun
CHECK_DEADLOCK FALSE
