------------------------------ MODULE GuestCpu ------------------------------
(***************************************************************************)
(* The guest side of the executor: the architectural state of the 68000    *)
(* (CpuState), the title's memory, and one step of the PUAE core, which is *)
(* outside this repository and modelled from how src/executor.cpp uses it. *)
(* Memory is the guest's stack region, in cells of one pushed word.  The   *)
(* guest program is unknown: a step is any instruction in GuestOps.        *)
(***************************************************************************)
EXTENDS Types

CONSTANTS
  OddAddr,         \* the odd addresses
  ZeroWord,        \* the word 0, which as a status register is user mode
  SuperSR,         \* a status register with the supervisor bit, as a word
  StackTop,        \* the stack region is the cells 0..StackTop-1
  Unmapped,        \* cells of the region that are not mapped
  ReadOnly,        \* cells of the region that the title can write-protect
  ExecutedModulus, \* 2^64 in the code: where executed_instructions wraps
  CycleModulus,    \* 2^64 in the code: where elapsed_cycles wraps
  GuestOps         \* bound: the instructions this instance's guest contains

ASSUME GuestAssumption ==
  /\ OddAddr \subseteq Addr
  /\ ZeroWord \in Addr \ OddAddr
  /\ SuperSR \in Addr
  /\ StackTop \in Nat \ {0}
  /\ ExecutedModulus \in Nat \ {0}
  /\ CycleModulus \in Nat \ {0}

Cell == 0..(StackTop - 1)
Sp == 0..StackTop
ExecutedCounter == 0..(ExecutedModulus - 1)
CycleCounter == 0..(CycleModulus - 1)
Vectors == {"None", "BusError", "Trap"}
Faults == {"None", "Unmapped", "ReadOnly"}
Statuses == {"Completed", "ReturnedFromInterrupt", "MemoryFault", "Exception", "Halted"}

(* Registers that no property tells apart are left out.  a7 is address[7]; *)
(* usp and ssp are the shadow stack pointers.                              *)
CpuState ==
  [pc : Addr, super : BOOLEAN, a7 : Sp, usp : Sp, ssp : Sp, halted : BOOLEAN,
   vector : Vectors, executed : ExecutedCounter,
   cycles : CycleCounter]

ReadFault(c) == IF c \in Cell \ Unmapped THEN "None" ELSE "Unmapped"

(* locked: the write protection is on.                                     *)
WriteFault(c, locked) ==
  IF ReadFault(c) # "None" THEN "Unmapped"
  ELSE IF locked /\ c \in ReadOnly THEN "ReadOnly" ELSE "None"

(* The core keeps address[7] and the active shadow pointer equal.          *)
WithSp(c, sp) ==
  [c EXCEPT !.a7 = sp,
            !.usp = IF c.super THEN @ ELSE sp,
            !.ssp = IF c.super THEN sp ELSE @]

(* synchronize_active_stack_pointer: a title may have written address[7].  *)
Synchronized(c) == WithSp(c, c.a7)

StateIsValid(c) ==
  /\ c.pc \notin OddAddr
  /\ c.a7 = (IF c.super THEN c.ssp ELSE c.usp)

AtPc(c, a) == [c EXCEPT !.pc = a]
Stored(m, c, word) == [m EXCEPT ![c] = word]

Outcome(status, c, m) ==
  [status |-> status, cpu |-> c, mem |-> m, fault |-> "None", executed |-> TRUE]

FaultOutcome(c, m, fault) ==
  [status |-> "MemoryFault", cpu |-> c, mem |-> m, fault |-> fault,
   executed |-> FALSE]

Unexecuted(out) == [out EXCEPT !.executed = FALSE]

BranchOutcomes(c, m) == {Outcome("Completed", AtPc(c, a), m) : a \in Addr}

JsrOutcomes(c, m, locked) ==
  IF WriteFault(c.a7 - 1, locked) # "None"
  THEN {FaultOutcome(c, m, WriteFault(c.a7 - 1, locked))}
  ELSE {Outcome("Completed", AtPc(WithSp(c, c.a7 - 1), a),
                Stored(m, c.a7 - 1, r)) : a \in Addr, r \in Addr}

RtsOutcomes(c, m) ==
  IF ReadFault(c.a7) # "None"
  THEN {FaultOutcome(c, m, ReadFault(c.a7))}
  ELSE {Outcome("Completed", AtPc(WithSp(c, c.a7 + 1), m[c.a7]), m)}

(* RTE pops a status word and a PC; in user mode it is a privilege trap.   *)
RteOutcomes(c, m) ==
  IF ~c.super
  THEN {Unexecuted(Outcome("Exception", c, m))}
  ELSE IF ReadFault(c.a7) # "None" \/ ReadFault(c.a7 + 1) # "None"
  THEN {FaultOutcome(c, m, "Unmapped")}
  ELSE LET super == m[c.a7] = SuperSR
       IN  {Outcome("ReturnedFromInterrupt",
                    [c EXCEPT !.super = super, !.pc = m[c.a7 + 1],
                              !.ssp = c.a7 + 2,
                              !.a7 = IF super THEN c.a7 + 2 ELSE c.usp], m)}

(* Leaving supervisor mode saves its stack pointer and selects the user's. *)
UserOutcomes(c, m) ==
  {Outcome("Completed",
     [c EXCEPT !.super = FALSE, !.ssp = c.a7, !.a7 = c.usp, !.pc = a], m) :
       a \in IF c.super THEN Addr ELSE {}}

TrapOutcomes(c, m) ==
  LET taken == {Outcome("Exception", AtPc(c, a), m) : a \in Addr}
  IN  taken \union {Unexecuted(out) : out \in taken}

FaultOutcomes(c, m) == {FaultOutcome(c, m, "Unmapped")}

HaltOutcomes(c, m) == {Outcome("Halted", [c EXCEPT !.halted = TRUE], m)}

CoreStep(c, m, locked) ==
  UNION {IF "branch" \in GuestOps THEN BranchOutcomes(c, m) ELSE {},
         IF "jsr"    \in GuestOps THEN JsrOutcomes(c, m, locked) ELSE {},
         IF "rts"    \in GuestOps THEN RtsOutcomes(c, m) ELSE {},
         IF "rte"    \in GuestOps THEN RteOutcomes(c, m) ELSE {},
         IF "user"   \in GuestOps THEN UserOutcomes(c, m) ELSE {},
         IF "trap"   \in GuestOps THEN TrapOutcomes(c, m) ELSE {},
         IF "fault"  \in GuestOps THEN FaultOutcomes(c, m) ELSE {},
         IF "halt"   \in GuestOps THEN HaltOutcomes(c, m) ELSE {}}
=============================================================================
