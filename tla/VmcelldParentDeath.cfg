CONSTANTS
  Vmcellds = {d1}
  Addrs = {a1}
  MaxCrashes = 1
  Nothing = Nothing
SPECIFICATION VmcelldSpec
PROPERTY ParentDeathTearsDown
CHECK_DEADLOCK FALSE
