CONSTANTS
  Actions <- MCActions
  Tasks <- MCTasks
  Kind <- MCKind
  ActionOf <- MCActionOf
  Initial <- MCInitial
  None = 0
  Homes <- MCHomes
SPECIFICATION Spec
INVARIANTS TypeOK StatesHaveCause NothingLost
CHECK_DEADLOCK FALSE
