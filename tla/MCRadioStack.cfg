CONSTANTS
  m1 = m1
  m2 = m2
  NoMsg = NoMsg
  NoTask = NoTask
  NoEvent = NoEvent
  Messages <- MCMessages
  Tasks <- MCTasks
  MaxTasks = 2
  RetryCount = 1
  ByteMod = 4
  DsnMod = 2
  LoadCanFail = FALSE

SPECIFICATION Spec


INVARIANTS
  
  SendDoneOwed
  PayloadLength
  NoStalePacketSent
  StoppedIsQuiet
  OnePacketRcvd
  NotDeaf
  AckTruth
  RetryBound

PROPERTIES
  SplitPhaseContract
