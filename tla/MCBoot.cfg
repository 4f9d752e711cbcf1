SPECIFICATION Spec
CONSTANTS
  LowMemories = {0, 512, 639}
  PartitionTypes = {131, 238}
  Tables <- MCTables
  BOOT_LOC = 3
  SegmentSectors = 4
  TRANSF_MAX = 6
  Segments = 3
  Word = 16
  Dword = 64
  PAGE_LIST_MAX = 3
  PageSize = 32
  Fan = 4
  INIT_MEM = 384
  PADDR_LOC = 64
  HeapMaxPages = 8
  MemoryPages = 66
  Maps <- MCMaps
  GrowthsMax = 4
  Growths = {1, 2}
  Addresses = {552, 960, 1440}
  FrameDivisor = 31
  OwnUnits <- MCOwnUnits
  Firmwares <- MCFirmwares
  HeaderBytes = 8
  Pointer32 = 2
  Pointer64 = 4
  ApicRoom = 3
INVARIANTS
  PartitionLoaded
  KnownIsMapped
  TablesReachable
  OwnersApart
  FreeIsKnown
  SearchBestFit
  HangsOutsideKnown
  KernelUp
CHECK_DEADLOCK FALSE
