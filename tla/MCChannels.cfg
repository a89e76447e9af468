CONSTANTS
  MaxVmms = 2
  MaxFrames = 3
  MaxTx = 2
  MaxStops = 2
  FwdConns = {1, 2}
  FwdBytes <- MCFwdBytes
  FwdOptions <- MCFwdOptions
SPECIFICATION ChannelsSpec
INVARIANTS
  VhostSafe
  
PROPERTIES
  
  ForwardEnds
CHECK_DEADLOCK FALSE
