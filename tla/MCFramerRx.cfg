CONSTANTS
  NoTask = NoTask
  Tasks <- MCTasks
  MaxTasks = 5
  Tags = {1, 2}
  HDLC_MTU = 4
  MinLength = 2
  EmptyFrames = FALSE

SPECIFICATION Spec

INVARIANTS
  HandedOnAsReceived
  OneUser

PROPERTIES
  SlotsFreed
