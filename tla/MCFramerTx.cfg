CONSTANTS
  NoTask = NoTask
  Tasks <- MCTasks
  MaxTasks = 5
  Messages = {m1}
  NoMsg = NoMsg
  Tokens = {1, 2}
  DataBytes = 2
  Reserved = 2

SPECIFICATION TxSpec


  

PROPERTIES
  Answered
