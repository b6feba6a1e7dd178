\* Two replacements of the image, by the title, by an override and by a
\* write callback in the middle of an instruction that completes or halts,
\* while runs with stop addresses wait and tokens are kept.
CONSTANTS
  Addr = {0, 2}
  OddAddr = {}
  ZeroWord = 0
  SuperSR = 2
  Tags = {game}
  NoTag = none
  MaxGeneration = 2
  None = None
  BpCapacity = 1
  MaxSlice = 2
  Requests = {0}
  StackTop = 1
  Unmapped = {}
  ReadOnly = {}
  ExecutedModulus = 1
  CycleModulus = 1
  MaxNesting = 2
  HostOps = {"replace", "register", "execute", "HostSubroutine",
             "continue_call", "continue_original", "relay", "continue"}
  GuestOps = {"branch", "swap", "halt"}
SPECIFICATION Spec
INVARIANTS PendingIsCurrent GenerationNamesImage
PROPERTIES RunsOnlyItsImage ImplementsBoundedRuns
