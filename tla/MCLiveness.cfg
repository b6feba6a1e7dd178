\* Two runs deep, overrides and breakpoint handlers that call back, and a
\* guest that may branch forever.  The counters do not bound it: they wrap
\* at once.  A run may be asked for less than a slice and for more.
CONSTANTS
  Addr = {0, 2}
  OddAddr = {}
  ZeroWord = 0
  SuperSR = 2
  Tags = {game}
  NoTag = none
  MaxGeneration = 1
  None = None
  BpCapacity = 1
  MaxSlice = 2
  Requests = {1, 3}
  StackTop = 1
  Unmapped = {}
  ReadOnly = {}
  ExecutedModulus = 1
  CycleModulus = 1
  MaxNesting = 2
  HostOps = {"replace", "register", "execute", "HostSubroutine", "plain",
             "continue", "throw", "bp_set", "bp_clear", "bp_clear_all",
             "bp_handler"}
  GuestOps = {"branch", "trap"}
SPECIFICATION FairSpec
INVARIANTS RunsWithinBudget ScopesMirrorStack
PROPERTIES CallsReturn RunLoopCharges BreakpointStopsRun ImplementsBoundedRuns
