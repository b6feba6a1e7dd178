\* An override that asks for the original instruction and then hands off or
\* answers for itself; there are no nested calls.
CONSTANTS
  Addr = {0, 2}
  OddAddr = {}
  ZeroWord = 0
  SuperSR = 2
  Tags = {game}
  NoTag = none
  MaxGeneration = 1
  None = None
  BpCapacity = 1
  MaxSlice = 2
  Requests = {0}
  StackTop = 1
  Unmapped = {}
  ReadOnly = {}
  ExecutedModulus = 1
  CycleModulus = 1
  MaxNesting = 1
  HostOps = {"replace", "register", "execute", "continue_original", "handoff",
             "relay"}
  GuestOps = {"branch"}
SPECIFICATION Spec
PROPERTIES LaterVisitsSelect
