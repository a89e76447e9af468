CONSTANTS
  r1 = r1  r2 = r2  r3 = r3
  v1 = v1  v2 = v2
  k = k  p = p
  None = None
  Reqs = {r1, r2, r3}
  Vms = {v1, v2}
  Names = {k, p}
  Uploaded = {k}
  Ops = {"create", "create_exec", "run", "exec", "stats", "pause", "resume", "snapshot", "destroy", "delete", "shutdown_all"}
  Cancellable = TRUE
SPECIFICATION Spec
SYMMETRY RegistrySymmetry
INVARIANTS DrivenVmIsOwned LiveIdsComplete PinHasWriter EphemeralLeavesNoVm
PROPERTY ImplementsVmOwnership
