CONSTANTS
  vm = vm
  app = app
  proxy = proxy
  proc1 = proc1
  proc2 = proc2
  Nobody = Nobody
  Absent = Absent
  Services <- MCServices
  Procs <- MCProcs
  Parent <- MCParent
  Wants <- MCWants
  Consumed <- MCConsumed
  MaxOps = 2
SPECIFICATION Spec
SYMMETRY MCSymmetry
INVARIANTS TypeOK StoredIsListed EndsAgree NamesWereStored ChildrenGoWithParent NoComeBack
CHECK_DEADLOCK FALSE
