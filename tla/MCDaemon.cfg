CONSTANTS
  c1 = c1  x = x  sd = sd
  n1 = n1  n2 = n2  u1 = u1  u2 = u2  u3 = u3  k1 = k1
  NoCall = NoCall
  Calls = {c1, x, sd}
  Creates = {c1}
  Shutdown = sd
  Capacity = 2
  Cancellable = FALSE
  Deadlines = {c1, x, sd}
  Vmcellds = {u1, u2}
  Addrs = {n1, n2}
  MaxCrashes = 1
  Nothing = Nothing
  Need = {"net", "sys"}
  SetPcap = "setpcap"
  SetId = "setid"
  Others = {"other"}
  NoUpload = NoUpload
  Names = {n1, n2}
  Uploads = {u1, u2, u3}
  NameOf <- MCNameOf
  Deletes = {k1}
  TargetOf <- MCTargetOf
  MaxBytes = 1
  Quota = 2
  PrefixBytes = 1
  MaxStoreCrashes = 1
  Faults = TRUE
  NoDaemon = NoDaemon
  Daemons = {u1, u2, u3}
  Pids = {n1, n2}
  MaxSeq = 1
  Testers = {c1}
  Clis = {x}
  MaxEdits = 2
  MaxFaults = 1
  Pins = {1, 2}
  MaxBumps = 3
  MaxStops = 3
  LayerPaths <- MCPaths
  InjectPaths <- MCInjectPaths
  MaxEntries = 2
  ToolsDir <- MCToolsDir
  Libc = "y"
  Reqs = {u1, u2, u3}
  CasKeys = {n1, n2}
  Tapes = {k1}
  MaxTears = 1
  Nil = Nil
  CaProcs = {n1, n2}
  CaThreads = {1, 2}
  MaxMints = 3
  MaxHurts = 2
  NoCa = NoCa
  Benches = {n1, n2}
  Knobs = 3
  MaxKills = 1
SPECIFICATION DaemonSpec
CONSTRAINTS FewRaces InOrder
INVARIANTS
  BridgeSafe
  
  PrivilegeSafe
  
  ScratchSafe
  
  LayersSafe
  
  CaSafe
  CpuPinSafe
CHECK_DEADLOCK FALSE
