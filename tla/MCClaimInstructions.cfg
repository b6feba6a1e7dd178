\* An interrupt that runs out of its slice.
CONSTANTS
  Addr = {0, 2}
  OddAddr = {}
  ZeroWord = 0
  SuperSR = 2
  Tags = {game}
  NoTag = none
  MaxGeneration = 1
  None = None
  BpCapacity = 1
  MaxSlice = 1
  Requests = {0}
  StackTop = 2
  Unmapped = {}
  ReadOnly = {}
  ExecutedModulus = 3
  CycleModulus = 3
  MaxNesting = 1
  HostOps = {"replace", "interrupt"}
  GuestOps = {"branch", "rte"}
SPECIFICATION Spec
PROPERTIES InstructionsMonotonic
