CONSTANTS
  p1 = p1  p2 = p2
  v1 = v1  v2 = v2
  i1 = i1
  None = None
  Procs = {p1, p2}
  Vms = {v1, v2}
  ProcOf <- MCProcOf
  Ids = {i1}
  Sweepers = {p1}
  Mortal = {p2}
SPECIFICATION FairSpec
INVARIANTS SweepSparesStandingVm NamesAreUnshared
PROPERTY OrphansAreReclaimed
