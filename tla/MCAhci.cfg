SPECIFICATION Spec
CONSTANTS
  Machines <- MCMachines
  BlockSectors = 2
  CountWrap = 8
  HighLbas = 8
  SpinMax = 2
  Buffers = {"b1", "b2"}
  Lbas = {0, 5}
  Lengths = {1, 5}
  CallsMax = 3
INVARIANTS
  DevicesExact
  TrueMeansRead
PROPERTIES
  TablesStable
  CallsReturn
CHECK_DEADLOCK FALSE
