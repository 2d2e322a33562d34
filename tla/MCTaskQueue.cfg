CONSTANTS
  t1 = t1
  t2 = t2
  t3 = t3
  NULL = NULL
  Tasks <- MCTasks
  MaxTasks = 4

SPECIFICATION Spec

INVARIANTS
  NoHole
  

PROPERTIES
  FifoSpec
