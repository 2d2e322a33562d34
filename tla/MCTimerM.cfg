CONSTANTS
  NoTask = NoTask
  Tasks <- MCTasks
  MaxTasks = 3
  NUM_TIMERS = 2
  maxTimerInterval = 5
  Turn = 8
  Delays = {1}
  Periods = {10}
  MaxLate = 2
  StartsLate = FALSE
  Reserved = 0

SPECIFICATION Safety

INVARIANTS
  
  FiringsKept
