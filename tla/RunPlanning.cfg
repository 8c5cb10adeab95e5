CONSTANTS
  s1 = s1
  s2 = s2
  s3 = s3
  Services <- MCServices
  Actions <- MCActions
  ActionsOf <- MCActionsOf
  Requires <- MCRequires
  Repos <- MCRepos
SPECIFICATION Spec
INVARIANTS TypeOK ProducersFirst ChainInOrder PlanIsExact NeverCircular
CHECK_DEADLOCK FALSE
