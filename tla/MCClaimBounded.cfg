\* Calls must return even when overrides only return every time.
CONSTANTS
  Addr = {0, 2}
  OddAddr = {}
  ZeroWord = 0
  SuperSR = 2
  Tags = {game}
  NoTag = none
  MaxGeneration = 1
  None = None
  BpCapacity = 1
  MaxSlice = 1
  Requests = {0}
  StackTop = 1
  Unmapped = {}
  ReadOnly = {}
  ExecutedModulus = 1
  CycleModulus = 1
  MaxNesting = 1
  HostOps = {"replace", "register", "execute", "plain", "continue"}
  GuestOps = {"branch"}
SPECIFICATION ReturningSpec
PROPERTIES CallsReturn
