SPECIFICATION FairSpec
CONSTANTS
  m1 = m1 m2 = m2
  d1 = d1 d2 = d2 d3 = d3 path1 = path1 alias1 = alias1 path2 = path2 path3 = path3
  key = key wrong = wrong name = name pool = pool t1 = t1 t2 = t2
  Mounts = {m1, m2}
  Params <- MCParams
  Devices = {d1, d2, d3}
  DeviceAt <- MCDeviceAt
  Disk0 <- MCDisk0
  Faults = {}
  None = None
INVARIANTS UmountCleansUp
CHECK_DEADLOCK FALSE
