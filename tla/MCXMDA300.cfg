CONSTANTS
  FWD_QUEUE_SIZE = 3
  Numbers = 4
  Window = 2
  Lossless = TRUE
  Order <- MCOrder
  Analog = {"analog"}
  MAX_SAMPLERECORD = 3
  MaxPosts = 2
  BoardReturns = FALSE
  WakesUnderWay = FALSE

SPECIFICATION Spec


  
  

PROPERTIES
  
  ComesToRest
