------------------------------ MODULE PuaeCore ------------------------------
(***************************************************************************)
(* One step of the core as src/puae_core.cpp performs it: state() is       *)
(* copied into a snapshot, the core works on the snapshot and calls the    *)
(* title's Memory meanwhile, and the snapshot is copied back.  A Memory    *)
(* belongs to a title, which may read and write state() while it is        *)
(* called.  Executor.tla takes such a step for one atomic action.          *)
(*                                                                         *)
(* A value is named by who wrote it and where: every field is the host's   *)
(* when a step begins.                                                     *)
(***************************************************************************)
EXTENDS Functions, Naturals, FiniteSets

CONSTANTS
  CoreWrites,    \* bound: the sets of registers the core may change at a time
  TitleWrites,   \* bound: the sets of fields one call of Memory may write
  MaxAccesses    \* bound: memory accesses of one instruction

VARIABLES
  state,      \* the executor's CpuState
  snapshot,   \* uae_m68k_state, step's local copy
  inCore,     \* step has called uae_m68k_step
  answer,     \* history: the title's answer to the last access
  accesses,   \* history: the accesses so far
  wrote,      \* history: the registers the core has changed
  result      \* the CoreStep returned, and the vector run derives from it

puaeVars == <<state, snapshot, inCore, answer, accesses, wrote, result>>

(* import_state: the register of the core -> the field it is copied from.  *)
(* Mutant: the prefetched word is not imported.                            *)
ImportedShort ==
  [data |-> "data", address |-> "address", pc |-> "pc", sr |-> "sr",
   usp |-> "user_stack_pointer", ssp |-> "supervisor_stack_pointer",
   ir |-> "instruction_register", prefetch_address |-> "prefetch_address",
   prefetch_valid |-> "prefetch_valid", stopped |-> "stopped", halted |-> "halted",
   pending_interrupt_level |-> "pending_interrupt_level"]

Imported ==
  [data |-> "data", address |-> "address", pc |-> "pc", sr |-> "sr",
   usp |-> "user_stack_pointer", ssp |-> "supervisor_stack_pointer",
   ir |-> "instruction_register", irc |-> "prefetch_word",
   prefetch_address |-> "prefetch_address", prefetch_valid |-> "prefetch_valid",
   pending_interrupt_level |-> "pending_interrupt_level",
   stopped |-> "stopped", halted |-> "halted"]

(* export_state: the field -> the register it is copied from.              *)
Exported ==
  [data |-> "data", address |-> "address", pc |-> "pc", sr |-> "sr",
   user_stack_pointer |-> "usp", supervisor_stack_pointer |-> "ssp",
   instruction_register |-> "ir", prefetch_word |-> "irc",
   prefetch_address |-> "prefetch_address", prefetch_valid |-> "prefetch_valid",
   pending_interrupt_level |-> "pending_interrupt_level",
   stopped |-> "stopped", halted |-> "halted"]

(* What a snapshot has no room for.                                        *)
Kept == {"exception", "executed_instructions", "elapsed_cycles"}
Fields == DOMAIN Exported \union Kept
Registers == Range(Exported)

ASSUME PuaeAssumption ==
  /\ CoreWrites \subseteq SUBSET Registers
  /\ TitleWrites \subseteq SUBSET Fields
  /\ MaxAccesses \in Nat

Values == {"host", "title"} \X Fields \union {"core"} \X Registers

Import(s) == [r \in DOMAIN Imported |-> s[Imported[r]]]

(* Mutant: the address of the prefetched words is not exported.            *)
ExportShort(s, snap) ==
  [f \in Fields |-> IF f \in Kept \union {"prefetch_address"}
                    THEN s[f] ELSE snap[Exported[f]]]

Export(s, snap) == [f \in Fields |-> IF f \in Kept THEN s[f] ELSE snap[Exported[f]]]

-----------------------------------------------------------------------------
(* What a method of Memory may answer, whatever the width of the access.   *)
MemoryFaults == {"None", "Unmapped", "Misaligned", "ReadOnly"}

(* The statuses of the C interface, which numbers them in another order.   *)
ExportFault ==
  [None |-> "OK", Unmapped |-> "UNMAPPED", Misaligned |-> "MISALIGNED",
   ReadOnly |-> "READ_ONLY"]

(* Mutant: the two enumerations are cast into each other.                  *)
ImportFaultCast ==
  [OK |-> "None", UNMAPPED |-> "Unmapped", READ_ONLY |-> "Misaligned",
   MISALIGNED |-> "ReadOnly"]

ImportFault ==
  [OK |-> "None", UNMAPPED |-> "Unmapped", READ_ONLY |-> "ReadOnly",
   MISALIGNED |-> "Misaligned"]

Unstepped == [status |-> "Completed", fault |-> "None", vector |-> "None"]
AsFound == [f \in Fields |-> <<"host", f>>]

TypeOK ==
  /\ state \in [Fields -> Values]
  /\ inCore => snapshot \in [Registers -> Values]
  /\ inCore \in BOOLEAN
  /\ answer \in MemoryFaults
  /\ accesses \in 0..MaxAccesses
  /\ wrote \subseteq Registers
  /\ result \in [status : {"Completed", "ReturnedFromInterrupt", "MemoryFault",
                          "Exception", "Halted"},
                fault : MemoryFaults, vector : {"None", "BusError", "AddressError"}]

Init ==
  /\ state = AsFound
  /\ snapshot = Import(AsFound)
  /\ inCore = FALSE
  /\ answer = "None"
  /\ accesses = 0
  /\ wrote = {}
  /\ result = Unstepped

(* step copies state() and calls the core.                                 *)
BeginStep ==
  /\ ~inCore
  /\ inCore' = TRUE
  /\ state' = AsFound
  /\ snapshot' = Import(AsFound)
  /\ answer' = "None"
  /\ accesses' = 0
  /\ wrote' = {}
  /\ UNCHANGED result

(* The core changes registers of the snapshot.                             *)
CoreChanges(registers) ==
  /\ snapshot' = [r \in DOMAIN snapshot |->
                    IF r \in registers THEN <<"core", r>> ELSE snapshot[r]]
  /\ wrote' = wrote \union registers

(* The core reads or writes memory: the title's method runs, may write     *)
(* state(), and answers; the core goes no further after a fault.           *)
Access(fields, registers) ==
  /\ inCore
  /\ answer = "None"
  /\ accesses < MaxAccesses
  /\ accesses' = accesses + 1
  /\ state' = [f \in Fields |-> IF f \in fields THEN <<"title", f>> ELSE state[f]]
  /\ answer' \in MemoryFaults
  /\ CoreChanges(registers)
  /\ UNCHANGED <<inCore, result>>

(* How the core may end: by the callback's fault, by an odd access of its  *)
(* own, or with an outcome of the instruction it fetched.                  *)
CoreResults ==
  IF answer # "None"
  THEN [status : {"MEMORY_FAULT"}, memory : {ExportFault[answer]}, rte : BOOLEAN]
  ELSE [status : {"OK", "EXCEPTION", "HALTED"}, memory : {"OK"}, rte : BOOLEAN]
         \union [status : {"MEMORY_FAULT"}, memory : {"MISALIGNED"}, rte : BOOLEAN]

(* Mutant: the opcode is looked at first.                                  *)
StatusRteFirst(r) ==
  CASE r.rte                       -> "ReturnedFromInterrupt"
    [] r.status = "MEMORY_FAULT" /\ ~r.rte -> "MemoryFault"
    [] r.status = "EXCEPTION" /\ ~r.rte    -> "Exception"
    [] OTHER                       -> "Completed"

(* step's status: an RTE counts as one only if nothing went wrong.         *)
Status(r) ==
  CASE r.status = "MEMORY_FAULT" -> "MemoryFault"
    [] r.status = "EXCEPTION"    -> "Exception"
    [] r.status = "HALTED"       -> "Halted"
    [] r.rte /\ r.status = "OK"  -> "ReturnedFromInterrupt"
    [] OTHER                     -> "Completed"

(* The exception that run records for a memory fault.                      *)
FaultVector(fault) ==
  IF fault = "Misaligned" THEN "AddressError" ELSE "BusError"

EndStep ==
  /\ inCore
  /\ inCore' = FALSE
  /\ state' = Export(state, snapshot)
  /\ \E r \in CoreResults :
       LET fault == ImportFault[r.memory]
       IN  result' = [status |-> Status(r), fault |-> fault,
                      vector |-> IF Status(r) = "MemoryFault" THEN FaultVector(fault)
                                                              ELSE "None"]
  /\ UNCHANGED <<snapshot, answer, accesses, wrote>>

Next ==
  \/ BeginStep
  \/ \E fields \in TitleWrites, registers \in CoreWrites :
       Access(fields, registers)
  \/ EndStep

Spec == Init /\ [][Next]_puaeVars

-----------------------------------------------------------------------------
(* A step is the core's alone: whatever a title wrote to state() while it  *)
(* was called, afterwards every register holds what the core left in it or *)
(* what it held before the step, nothing the core did is lost, and only    *)
(* the fields outside the snapshot keep what the title wrote (the copies   *)
(* of PuaeCore::step around uae_m68k_step).                                *)
StepIsTheCores ==
  ~inCore =>
    /\ \A r \in wrote : \E f \in Fields : state[f] = <<"core", r>>
    /\ \A f \in Fields \ Kept : state[f] \in {<<"host", f>>} \union {"core"} \X wrote
    /\ \A f \in Kept : state[f] \in {"host", "title"} \X {f}

(* A step that the title's Memory refused reports that refusal, with the   *)
(* vector that tells an address error from a bus error, as a memory fault  *)
(* and as nothing else, an RTE included; without a refusal only an odd     *)
(* access of the core's own is a fault (the callbacks' two translations of *)
(* a fault, step's status and run's choice of the vector).                 *)
StepReportsItsFault ==
  ~inCore =>
    /\ answer # "None" =>
         /\ result.status = "MemoryFault"
         /\ result.fault = answer
         /\ result.vector = "AddressError" <=> answer = "Misaligned"
         /\ result.vector = "BusError" <=> answer # "Misaligned"
    /\ answer = "None" => result.fault \in {"None", "Misaligned"}
    /\ result.fault = "None" <=> result.status # "MemoryFault"
=============================================================================
