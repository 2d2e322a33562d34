CONSTANTS
  m1 = m1
  m2 = m2
  m3 = m3
  NoMsg = NoMsg
  Foreign = Foreign
  NoTask = NoTask
  NoEvent = NoEvent
  Messages <- MCTwoMessages
  Tasks <- MCTasks
  MaxTasks = 2
  Size = 3
  Retransmit = TRUE
  MaxRetransmit = 1
  Reserved = 1
  ForeignEnqueues = FALSE

SPECIFICATION Spec

INVARIANT NotStalled

PROPERTIES
  HandedBackInOrder
  ComesBack
