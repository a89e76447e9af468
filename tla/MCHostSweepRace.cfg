CONSTANTS
  p1 = p1  p2 = p2
  v1 = v1  v2 = v2  v3 = v3
  i1 = i1
  None = None
  Procs = {p1, p2}
  Vms = {v1, v2, v3}
  ProcOf <- MCProcOf
  Ids = {i1}
  Sweepers = {p1}
  Mortal = {p1, p2}
SPECIFICATION Spec
INVARIANT RunningVmKeepsResources
CHECK_DEADLOCK FALSE
