\* Three accesses of an instruction, each of which may write state(): a level of
\* interrupt posted by a device, the PC, the clock, or all of it.
CONSTANTS
  MaxAccesses = 3
  CoreWrites = {{}, {"pc", "ir", "irc", "prefetch_address"}, {"address", "sr", "ssp"}, {"data"}}
  TitleWrites = {{}, {"pending_interrupt_level"}, {"pc", "prefetch_address"},
                 {"elapsed_cycles", "exception"}, {"address", "supervisor_stack_pointer"}}
SPECIFICATION Spec
INVARIANTS TypeOK StepIsTheCores StepReportsItsFault
