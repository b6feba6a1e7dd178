\* Every nested call but a resumption, three runs deep: an override calls
\* back into the executor while its own run waits, and every way out of a
\* callback is taken.
CONSTANTS
  Addr = {0, 2}
  OddAddr = {}
  ZeroWord = 0
  SuperSR = 2
  Tags = {game}
  NoTag = none
  MaxGeneration = 1
  None = None
  BpCapacity = 1
  MaxSlice = 2
  Requests = {0}
  StackTop = 1
  Unmapped = {}
  ReadOnly = {}
  ExecutedModulus = 1
  CycleModulus = 1
  MaxNesting = 3
  HostOps = {"replace", "register", "remove", "execute", "GuestSubroutine",
             "HostSubroutine", "TailTransfer", "original",
             "original_subroutine", "continue_original", "plain", "continue",
             "handoff", "throw", "rts", "a7", "pc"}
  GuestOps = {"branch", "jsr", "rts"}
SPECIFICATION Spec
INVARIANTS TypeOK ScopesMirrorStack NoOverrideReentered HiddenOnlyWhileActive
  OverridesNestBounded
PROPERTIES OriginalOnlyByRequest
