CONSTANTS
  Actions <- MCActions
  Tasks <- MCTasks
  Kind <- MCKind
  ActionOf <- MCActionOf
  Initial <- MCInitial
  None = 0
  Homes <- RecurringHomes
SPECIFICATION Spec
INVARIANT RunActionIsStored
CHECK_DEADLOCK FALSE
