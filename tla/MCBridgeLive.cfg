CONSTANTS
  c1 = c1  x = x  sd = sd
  NoCall = NoCall
  Calls = {c1, x, sd}
  Creates = {c1}
  Shutdown = sd
  Capacity = 2
  Cancellable = TRUE
  Deadlines = {}
  MaxRequests = 3
  EgConns = {c1}
  MaxChunks = 3
  MaxPrefix = 2
SPECIFICATION LiveSpec

  
PROPERTIES
  EveryRpcReturns
  FsShareServes
  EgressServes
CHECK_DEADLOCK FALSE
