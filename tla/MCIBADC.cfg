CONSTANTS
  Clients = {"IBADC", "Dio"}
  Pointers = {"condition", "val", "i2c_data"}
  Bytes = {0, 8, 12, 15}
  MaxTasks = 4
  ReadRefused = FALSE
  Channels = {0, 1}
  Delayed = {0}
  Excited = {0, 1}
  AlwaysOn = {}
  Conversions <- MCConversions
  Reserved = 2
  Hurried = FALSE
  MaxCalls = 3

SPECIFICATION AdcSpec

INVARIANTS
  ReadsItsChannel
  

PROPERTIES
  Sampled
