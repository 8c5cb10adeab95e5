CONSTANTS
  run1 = run1
  run2 = run2
  run3 = run3
  Runs <- MCRuns
  Date <- MCDate
  States = {"new", "running"}
  AnyState = "any"
  Missing = "missing"
  MaxSaves = 4
  MaxFinds = 1
SPECIFICATION Spec
SYMMETRY MCSymmetry
INVARIANTS TypeOK AloneIsListedOnce AloneIsNeverTwice FindIsComplete
CHECK_DEADLOCK FALSE
