CONSTANTS
  p1 = p1  p2 = p2  a1 = a1  a2 = a2  a3 = a3  i1 = i1
  None = None
  Pids = {p1, p2}
  Allocs = {a1, a2, a3}
  PidOf <- MCPidOf
  Ids = {i1}
  Nobody = Nobody
  MicroVms = {v1, v2, v3}
  VmIds = {n1, n2, n3}
  MinCid = 3
  MaxCid = 4
  MaxRespawns = 1
  Backends <- MCBackends
  Vms = {v1, v2, v3}
  Segs = {s1}
  Vmids = {n1, n2, n3}
  Modes = {"blocked", "filtered", "segment", "nat"}
  MaxSlot = 2
  MaxFaults = 1
  VmmBackends = {"ch", "fc", "qemu", "crosvm"}
  MaxCreates = 2
  Conns = {1, 2}
  PermanentPort = 80
  OtherPort = 443
  NatPool = 1
  MaxDynamic = 1
  Burst = 1
  MaxBytes = 2
  MaxTraffic = 2
  TxRoom = 1
  MaxDials = 2
  MaxFrames = 2
SPECIFICATION VmSpec
SYMMETRY VmSymmetry
CONSTRAINT FewAtOnce
INVARIANTS
  ClaimExclusive
  HeldIdHasLiveOwner
  MicroVmSafe
  
  NatSafe
PROPERTIES
  ImplementsIdPool
  VmmKeeps
CHECK_DEADLOCK FALSE
