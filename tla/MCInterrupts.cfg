\* Interrupts out of both modes, one inside another: the handler returns,
\* faults or runs out of the budget asked for, an override in it hands off
\* or throws, and the frame fits, is refused at its second word,
\* or cannot be put back because the title has protected that word
\* meanwhile. Both frames of two fit below StackTop.
CONSTANTS
  Addr = {0, 2}
  OddAddr = {}
  ZeroWord = 0
  SuperSR = 2
  Tags = {game}
  NoTag = none
  MaxGeneration = 1
  None = None
  BpCapacity = 1
  MaxSlice = 2
  Requests = {1, 3}
  StackTop = 4
  Unmapped = {}
  ReadOnly = {1}
  ExecutedModulus = 1
  CycleModulus = 3
  MaxNesting = 2
  HostOps = {"replace", "register", "interrupt", "handoff", "throw",
             "protect"}
  GuestOps = {"rte", "fault", "user"}
SPECIFICATION Spec
PROPERTIES InterruptUndone RefusedCallUndone GuestTimeMonotonic
  ImplementsBoundedRuns
