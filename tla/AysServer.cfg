CONSTANTS
  cmd1 = cmd1
  cmd2 = cmd2
  cmd3 = cmd3
  cmd4 = cmd4
  act1 = act1
  None = None
  Commands <- MCCommands
  Kind <- MCKind
  Recurring <- MCRecurring
  MaxPut = 2
  MaxPending = 2
  MaxCrashes = 1
SPECIFICATION FairSpec
INVARIANTS TypeOK NothingDropped StoppedIsIdle
PROPERTIES ImplementsQueue CommandTaken StopCompletes DueIsDispatched
CHECK_DEADLOCK FALSE
