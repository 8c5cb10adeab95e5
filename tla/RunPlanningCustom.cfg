CONSTANTS
  s1 = s1
  s2 = s2
  s3 = s3
  Services <- TwoServices
  Actions <- CustomActions
  ActionsOf <- CustomActionsOf
  Requires <- CustomRequires
  Repos <- CustomRepos
SPECIFICATION FairSpec
INVARIANT RequiredFirst
PROPERTY PlanningEnds
CHECK_DEADLOCK FALSE
