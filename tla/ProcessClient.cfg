CONSTANTS
  p1 = p1
  p2 = p2
  p3 = p3
  Procs <- MCProcs
  MaxProcesses = 1
  Behaviours <- MCBehaviours
SPECIFICATION Spec
INVARIANTS ClientTypeOK ReportedStateIsTrue NoForgottenChild WithinLimit
PROPERTY ReportIsFinal
CHECK_DEADLOCK FALSE
