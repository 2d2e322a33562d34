CONSTANTS
  m1 = m1
  m2 = m2
  m3 = m3
  NoMsg = NoMsg
  Foreign = Foreign
  NoTask = NoTask
  NoEvent = NoEvent
  Messages <- MCMessages
  Tasks <- MCTasks
  MaxTasks = 2
  Size = 3
  Retransmit = TRUE
  MaxRetransmit = 1
  Reserved = 0
  ForeignEnqueues = TRUE

SPECIFICATION Safety

SYMMETRY Symmetry

INVARIANTS
  RingIsFilled
  OneServer
  NoInternalError
  HonestReport
