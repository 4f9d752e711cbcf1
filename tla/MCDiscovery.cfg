SPECIFICATION Spec
CONSTANTS
  Machines <- MCMachines
  AllDrives <- MCAllDrives
  HostBuses = 2
  CacheRoom = 5
  CacheWrap = 7
  DepthMax = 4
  LowLbas = 6
  HighLbas = 7
  CountWrap = 3
  DiskSlots = 4
  PartRoom = 4
  PerUnit = 2
  ReadLbas = {0, 2, 5, 7}
  ReadLengths = {1, 3, 4}
  ReadsMax = 1
INVARIANTS
  CacheExact
  DrivesExact
  ReadRight
  GptMatchesDisk
PROPERTIES
  DiscoveryEnds
CHECK_DEADLOCK FALSE
