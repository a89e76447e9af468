CONSTANTS
  r1 = r1  r2 = r2  r3 = r3
  v1 = v1  
  k = k  p = p
  None = None
  Reqs = {r1, r2, r3}
  Vms = {v1}
  Names = {k, p}
  Uploaded = {k}
  Ops = {"create", "run", "snapshot", "destroy", "delete", "shutdown_all"}
  Cancellable = FALSE
SPECIFICATION FairSpec
PROPERTY EveryRequestReturns
