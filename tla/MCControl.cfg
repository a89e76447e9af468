CONSTANTS
  p1 = p1  p2 = p2  j1 = j1  j2 = j2  o1 = o1
  NoOne = NoOne
  Jobs = {j1, j2}
  SessionJobs = {j2}
  Orphans = {o1}
  GuestPids = {p1, p2}
  MaxStatuses = 1
  MaxKills = 1
  ShortWindows = TRUE
  MaxReqs = 8
  MaxConns = 4
  MaxFaults = 2
  Goal = 2
  RebindIdle = 2
SPECIFICATION ControlSpec
INVARIANTS
  ReaperSafe
  ClientSafe
PROPERTIES
  ExitReachesWaiter
  ClientIsServed
CHECK_DEADLOCK FALSE
