CONSTANTS
  vm = vm
  app = app
  proxy = proxy
  proc1 = proc1
  proc2 = proc2
  Nobody = Nobody
  Absent = Absent
  Services <- MCServices
  Procs <- MCOneProc
  Parent <- MCParent
  Wants <- MCWants
  Consumed <- MCNone
  MaxOps = 3
SPECIFICATION Spec
INVARIANTS DeletedCompletely
CHECK_DEADLOCK FALSE
