------------------------------ MODULE Executor ------------------------------
(***************************************************************************)
(* The bounded 68000 executor (src/executor.cpp): one guest CPU, one title *)
(* image at a time, and a run loop that steps the guest until its budget   *)
(* is spent or something else ends the run.                                *)
(*                                                                         *)
(* The executor is single-threaded but re-entrant: the run loop calls a    *)
(* native override or the breakpoint handler, and these call back into the *)
(* executor and start nested runs.  stack is the C++ call stack of those   *)
(* activations, outermost first: a run, then the callback it is inside of, *)
(* then the run that callback started, and so on.  Whoever is on top takes *)
(* the next step; a native override, a handler or, on an empty stack, the  *)
(* title itself may take any step the public interface allows.             *)
(*                                                                         *)
(* The title's callbacks, its memory and the guest program (stepped by the *)
(* PUAE core) are outside this code: they are nondeterministic choices.    *)
(* Guest memory is the stack region only, in cells of one pushed value.    *)
(***************************************************************************)
EXTENDS OverrideRegistry, GuestCpu

CONSTANTS
  None,            \* std::nullopt and nullptr
  BpCapacity,      \* Breakpoints::kCapacity
  MaxSlice,        \* config.max_instructions_per_slice
  Requests,        \* the instruction budgets a title asks for, 0 for default
  MaxNesting,      \* bound: runs alive at the same time
  HostOps          \* bound: the calls this instance's title makes

ASSUME ExecutorAssumption ==
  /\ MaxSlice \in Nat \ {0}
  /\ Requests \subseteq Nat
  /\ BpCapacity \in Nat \ {0}
  /\ None \notin Addr
  /\ None \notin ExecutionIdentity

VARIABLES
  cpu,          \* CpuState
  mem,          \* the words of the stack region, owned by the title
  image,        \* the current ImageIdentity
  active,       \* active_overrides
  pending,      \* pending_original
  breakpoints,  \* the breakpoint set
  handler,      \* whether breakpoint_handler is set
  protected,    \* the title's memory refuses writes to ReadOnly cells
  stack,        \* the activations described above
  exit,         \* the ExecutionExit most recently returned to a caller
  token         \* the CallContinuation the title keeps

machine == <<cpu, mem>>
identityVars == <<image, pending>>
setup == <<breakpoints, handler, protected>>
replies == <<exit, token>>
vars == <<machine, identityVars, registryVars, active, setup, stack, replies>>

BP == INSTANCE BreakpointSet WITH answer <- TRUE

-----------------------------------------------------------------------------
(* State.                                                                  *)

Reasons ==
  {"NoImage", "InstructionBudget", "NativeOverride", "ReturnToHost",
   "MemoryFault", "Exception", "Halted", "ImageReplaced",
   "UnterminatedNativeOverride", "Breakpoint"}

ExecutionExit ==
  [reason : Reasons, continue : BOOLEAN, hand_off : BOOLEAN,
   instructions : 0..MaxSlice, fault : Faults]

CallBoundary == {"GuestSubroutine", "TailTransfer", "HostSubroutine"}

NoIdentity == [image |-> [tag |-> NoTag, generation |-> 0], address |-> ZeroWord]

CallContinuation ==
  [boundary : CallBoundary, return_pc : Addr, image : Image,
   owner : ExecutionIdentity, valid : BOOLEAN]

NoToken ==
  [boundary |-> "TailTransfer", return_pc |-> ZeroWord,
   image |-> NoIdentity.image, owner |-> NoIdentity, valid |-> FALSE]

(* What call_interrupt keeps to undo an interrupt: the CPU, and the two    *)
(* words under the supervisor stack pointer.                               *)
FrameCell == {c \in Cell : c + 1 \in Cell}
Saved == [cpu : CpuState, at : FrameCell, sr : Addr, pc : Addr]

RunFrame ==
  [kind : {"run"},
   request : Requests,               \* history: what the caller asked for
   budget : 1..MaxSlice,             \* budget
   count : 0..MaxSlice,              \* progress.instructions
   auth : 0..MaxGeneration,          \* authorized_generation
   stop : Addr \union {None},        \* stop_at_pc
   rte : BOOLEAN,                    \* stop_on_rte
   scope : ExecutionIdentity \union {None}, \* its caller's ScopedSuppression
   saved : Saved \union {None}]      \* set in the run of a call_interrupt
NativeFrame == [kind : {"native"}, id : ExecutionIdentity]
HandlerFrame == [kind : {"handler"}]
Frame == RunFrame \union NativeFrame \union HandlerFrame

TypeOK ==
  /\ RegistryTypeOK
  /\ cpu \in CpuState
  /\ mem \in [Cell -> Addr]
  /\ image \in Image
  /\ active \in Seq(ExecutionIdentity)
  /\ pending \in ExecutionIdentity \union {None}
  /\ breakpoints \subseteq Addr
  /\ handler \in BOOLEAN
  /\ protected \in BOOLEAN
  /\ stack \in Seq(Frame)
  /\ exit \in ExecutionExit
  /\ token \in CallContinuation

MakeExit(reason, instructions) ==
  [reason |-> reason, continue |-> FALSE, hand_off |-> FALSE,
   instructions |-> instructions, fault |-> "None"]

Faulted(x, fault) == [x EXCEPT !.fault = fault]

(* A title boots with its stack pointer at the top of its stack.           *)
Init ==
  /\ RegistryInit
  /\ cpu = [pc |-> ZeroWord, super |-> TRUE, a7 |-> StackTop, usp |-> 0,
            ssp |-> StackTop, halted |-> FALSE, vector |-> "None",
            executed |-> 0, cycles |-> 0]
  /\ mem = [c \in Cell |-> ZeroWord]
  /\ image = NoIdentity.image
  /\ active = <<>>
  /\ pending = None
  /\ breakpoints = {}
  /\ handler = FALSE
  /\ protected = TRUE
  /\ stack = <<>>
  /\ exit = MakeExit("NoImage", 0)
  /\ token = NoToken

Top == stack[Len(stack)]
Running == stack # <<>> /\ Top.kind = "run"
HostTurn == ~Running
Identity == [image |-> image, address |-> cpu.pc]

-----------------------------------------------------------------------------
(* Runs.                                                                   *)

(* Mutants: the request is ignored; it is not clamped.                     *)
EffectiveIgnores(request) == MaxSlice
EffectiveUnclamped(request) == request

Effective(request) ==
  IF request = 0 \/ request > MaxSlice THEN MaxSlice ELSE request

HasRoom == Len(stack) < 2 * MaxNesting

(* Impl::run is entered with CPU c and memory m.  scope is the identity    *)
(* whose ScopedSuppression lives in the caller for as long as the run.     *)
StartRun(request, stop, rte, scope, saved, c, m) ==
  /\ HasRoom
  /\ stack' = Append(stack,
       [kind |-> "run", request |-> request, budget |-> Effective(request),
        count |-> 0, auth |-> image.generation, stop |-> stop, rte |-> rte,
        scope |-> scope, saved |-> saved])
  /\ suppressions' =
       IF scope = None THEN suppressions ELSE Append(suppressions, scope)
  /\ cpu' = c
  /\ mem' = m

(* Mutant: the rollback of an interrupt takes the cycle counter with it.   *)
RestoredCpuAll(f, c) == f.saved.cpu

(* Architectural state rolls back, guest time does not.                    *)
RestoredCpu(f, c) == [f.saved.cpu EXCEPT !.cycles = c.cycles]

(* A write of the title's memory whose fault the caller discards.          *)
Tried(m, c, word) ==
  IF WriteFault(c, protected) = "None" THEN Stored(m, c, word) ELSE m

(* Mutant: the frame words are left on the guest's stack.                  *)
RestoredMemNot(s, m) == m

(* restore_frame: both words are put back if the memory accepts them.      *)
RestoredMem(s, m) == Tried(Tried(m, s.at, s.sr), s.at + 1, s.pc)

(* Mutant: only a fault or an exception undoes an interrupt.               *)
RollsBackOnFault(f, reason) ==
  f.saved # None /\ reason \in {"MemoryFault", "Exception"}

RollsBack(f, reason) == f.saved # None /\ reason # "ReturnToHost"

(* Mutant: the caller's ScopedSuppression is not popped.                   *)
EndRunKeepsScope(f, below, x, c, m, s) ==
  /\ stack' = below
  /\ suppressions' = s
  /\ exit' = x
  /\ cpu' = IF RollsBack(f, x.reason) THEN RestoredCpu(f, c) ELSE c
  /\ mem' = IF RollsBack(f, x.reason) THEN RestoredMem(f.saved, m) ELSE m

(* Run f returns x to its caller, with CPU c, memory m and suppressions s  *)
(* at that point; below is the stack without f.  The caller's scope ends,  *)
(* and call_interrupt undoes an interrupt that did not reach its RTE.      *)
EndRun(f, below, x, c, m, s) ==
  /\ stack' = below
  /\ suppressions' = IF f.scope = None THEN s ELSE PopBack(s)
  /\ exit' = x
  /\ cpu' = IF RollsBack(f, x.reason) THEN RestoredCpu(f, c) ELSE c
  /\ mem' = IF RollsBack(f, x.reason) THEN RestoredMem(f.saved, m) ELSE m

(* The checks at the head of the run loop, in the order of the code.  Each *)
(* mutant is an off-by-one or a forgotten check.                           *)
SpentLate(f) == f.count > f.budget
Spent(f) == f.count >= f.budget
ImageNeverGone(f) == FALSE
ImageGone(f) == image.generation # f.auth
AtStop(f) == f.stop # None /\ cpu.pc = f.stop
AtBreakpointLate(f) == f.count > 1 /\ cpu.pc \in breakpoints
(* Mutant: a breakpoint stops the run before its first instruction. *)
AtBreakpointFirst(f) == cpu.pc \in breakpoints
AtBreakpoint(f) == f.count > 0 /\ cpu.pc \in breakpoints

(* Mutant: a stop address is looked at before the image.                   *)
HeadReasonStopFirst(f) ==
  IF Spent(f) THEN "InstructionBudget"
  ELSE IF cpu.halted THEN "Halted"
  ELSE IF AtStop(f) THEN "ReturnToHost"
  ELSE IF ImageGone(f) THEN "ImageReplaced"
  ELSE IF AtBreakpoint(f) THEN "Breakpoint"
  ELSE "Dispatch"

HeadReason(f) ==
  IF Spent(f) THEN "InstructionBudget"
  ELSE IF cpu.halted THEN "Halted"
  ELSE IF ImageGone(f) THEN "ImageReplaced"
  ELSE IF AtStop(f) THEN "ReturnToHost"
  ELSE IF AtBreakpoint(f) THEN "Breakpoint"
  ELSE "Dispatch"

(* The run ends at the head of the loop.                                   *)
RunStops ==
  /\ Running
  /\ HeadReason(Top) # "Dispatch"
  /\ ~(HeadReason(Top) = "Breakpoint" /\ handler)
  /\ EndRun(Top, PopBack(stack), MakeExit(HeadReason(Top), Top.count),
            cpu, mem, suppressions)
  /\ UNCHANGED <<identityVars, overrides, active, setup, token>>

(* The breakpoint handler is called before anything unwinds.               *)
HandlerEnter ==
  /\ Running
  /\ HeadReason(Top) = "Breakpoint"
  /\ handler
  /\ stack' = Append(stack, [kind |-> "handler"])
  /\ UNCHANGED <<machine, identityVars, registryVars, active, setup, replies>>

Dispatching == Running /\ HeadReason(Top) = "Dispatch"

(* run_override: the ActiveOverrideScope opens and the function is called. *)
OverrideEnter ==
  /\ Dispatching
  /\ pending # Identity
  /\ Finds(Identity)
  /\ stack' = Append(stack, [kind |-> "native", id |-> Identity])
  /\ suppressions' = Append(suppressions, Identity)
  /\ active' = Append(active, Identity)
  /\ UNCHANGED <<machine, identityVars, overrides, setup, replies>>

(* Mutant: a bypass asked for by continue_original is never used up.       *)
PendingKept == pending

(* pending_original allows one bypass of the override it names.            *)
PendingAfterStep == IF pending = Identity THEN None ELSE pending

NextExecuted(n) == (n + 1) % ExecutedModulus
NextCycles(n) == (n + 1) % CycleModulus

(* A retired instruction is counted by the run and by the CPU; its cycles, *)
(* abstracted to one, are counted by the CPU.                              *)
Retired(c) ==
  [c EXCEPT !.executed = NextExecuted(@), !.cycles = NextCycles(@)]

(* Mutant: a retired instruction is not counted against the budget.        *)
CountedNot(f) == f

Counted(f) == [f EXCEPT !.count = @ + 1]

(* How the run goes on after the core's step out.                          *)
StepContinues(out) ==
  /\ out.status = "Completed" \/ (out.status = "ReturnedFromInterrupt" /\ ~Top.rte)
  /\ stack' = [stack EXCEPT ![Len(stack)] = Counted(Top)]
  /\ cpu' = Retired(out.cpu)
  /\ mem' = out.mem
  /\ UNCHANGED <<suppressions, exit>>

StepEnds(out, x, c) ==
  EndRun(Top, PopBack(stack), x, c, out.mem, suppressions)

StepFaults(out) ==
  /\ out.status = "MemoryFault"
  /\ StepEnds(out, Faulted(MakeExit("MemoryFault", Top.count), out.fault),
              [out.cpu EXCEPT !.vector = "BusError"])

(* An accepted interrupt is an exception without an executed instruction.  *)
StepTraps(out) ==
  /\ out.status = "Exception"
  /\ StepEnds(out,
       MakeExit("Exception", IF out.executed THEN Top.count + 1 ELSE Top.count),
       [out.cpu EXCEPT !.vector = "Trap", !.cycles = NextCycles(@),
          !.executed = IF out.executed THEN NextExecuted(@) ELSE @])

StepReturnsFromInterrupt(out) ==
  /\ out.status = "ReturnedFromInterrupt"
  /\ Top.rte
  /\ StepEnds(out, MakeExit("ReturnToHost", Top.count + 1), Retired(out.cpu))

StepHalts(out) ==
  /\ out.status = "Halted"
  /\ StepEnds(out, MakeExit("Halted", Top.count), out.cpu)

(* One step of the core at a PC that has no override, or whose override is *)
(* suppressed or bypassed.                                                 *)
CoreSteps ==
  /\ Dispatching
  /\ pending = Identity \/ ~Finds(Identity)
  /\ \E out \in CoreStep(cpu, mem, protected) :
       \/ StepContinues(out)
       \/ StepFaults(out)
       \/ StepTraps(out)
       \/ StepReturnsFromInterrupt(out)
       \/ StepHalts(out)

GuestStep ==
  /\ CoreSteps
  /\ pending' = PendingAfterStep
  /\ UNCHANGED <<image, overrides, active, setup, token>>

(* A title whose memory has a control register may replace the image from  *)
(* a write callback, in the middle of a step that ends as any other.       *)
GuestStepReplacesImage(tag) ==
  /\ "swap" \in GuestOps
  /\ CoreSteps
  /\ image.generation < MaxGeneration
  /\ image' = [tag |-> tag, generation |-> image.generation + 1]
  /\ pending' = None
  /\ UNCHANGED <<overrides, active, setup, token>>

-----------------------------------------------------------------------------
(* Callbacks return.  A native override answers with an exit of its own,   *)
(* asks to continue or hands off, or relays the exit of a nested call.     *)
InNative == stack # <<>> /\ Top.kind = "native"
Caller == stack[Len(stack) - 1]
BelowCaller == SubSeq(stack, 1, Len(stack) - 2)

NativeResults ==
  (IF "plain"    \in HostOps THEN {MakeExit("InstructionBudget", 0)} ELSE {})
  \union
  (IF "continue" \in HostOps
   THEN {[MakeExit("InstructionBudget", 0) EXCEPT !.continue = TRUE]} ELSE {})
  \union
  (IF "handoff"  \in HostOps
   THEN {[MakeExit("InstructionBudget", 0) EXCEPT !.hand_off = TRUE]} ELSE {})
  \union
  (IF "relay"    \in HostOps THEN {exit} ELSE {})

(* Mutant: the run starts over, with a fresh budget, instead of going on.  *)
ReauthorizedAfresh(f) == [f EXCEPT !.auth = image.generation, !.count = 0]

(* The run goes on in the image that is current now.                       *)
Reauthorized(f) == [f EXCEPT !.auth = image.generation]

NativeContinues(x) ==
  /\ InNative
  /\ x \in NativeResults
  /\ x.continue
  /\ stack' = [PopBack(stack) EXCEPT ![Len(stack) - 1] = Reauthorized(Caller)]
  /\ suppressions' = PopBack(suppressions)
  /\ active' = PopBack(active)
  /\ UNCHANGED <<machine, identityVars, overrides, setup, replies>>

(* run_override's verdict on an override that does not continue.           *)
OverrideExit(x) ==
  IF x.hand_off THEN [x EXCEPT !.reason = "ReturnToHost"]
  ELSE IF cpu.pc = Top.id.address THEN MakeExit("UnterminatedNativeOverride", 0)
  ELSE [x EXCEPT !.reason = "NativeOverride"]

NativeReturns(x) ==
  /\ InNative
  /\ x \in NativeResults
  /\ ~x.continue
  /\ EndRun(Caller, BelowCaller, OverrideExit(x), cpu, mem, PopBack(suppressions))
  /\ active' = PopBack(active)
  /\ UNCHANGED <<identityVars, overrides, setup, token>>

HandlerReturns ==
  /\ stack # <<>> /\ Top.kind = "handler"
  /\ EndRun(Caller, BelowCaller, MakeExit("Breakpoint", Caller.count), cpu, mem,
            suppressions)
  /\ UNCHANGED <<identityVars, overrides, active, setup, token>>

(* Mutant: the scopes are closed by hand, which an exception bypasses.     *)
CallbackThrowsLeaks ==
  /\ "throw" \in HostOps
  /\ stack # <<>> /\ Top.kind # "run"
  /\ stack' = BelowCaller
  /\ UNCHANGED <<machine, identityVars, registryVars, active, setup, replies>>

(* A callback throws: its scopes and those of the run it was called from   *)
(* unwind, and nothing else of what the run set up is undone.  The         *)
(* callback below may catch, and go on, or throw in its turn.              *)
CallbackThrows ==
  /\ "throw" \in HostOps
  /\ stack # <<>> /\ Top.kind # "run"
  /\ stack' = BelowCaller
  /\ LET s == IF InNative THEN PopBack(suppressions) ELSE suppressions
     IN  suppressions' = IF Caller.scope = None THEN s ELSE PopBack(s)
  /\ active' = IF InNative THEN PopBack(active) ELSE active
  /\ UNCHANGED <<machine, identityVars, overrides, setup, replies>>

-----------------------------------------------------------------------------
(* What a title may do on its turn: state() and memory, then the calls.    *)
May(op) == HostTurn /\ op \in HostOps

TitleWritesPc(a) ==
  /\ May("pc")
  /\ cpu' = [cpu EXCEPT !.pc = a]
  /\ UNCHANGED <<mem, identityVars, registryVars, active, setup, stack, replies>>

TitleWritesA7(sp) ==
  /\ May("a7")
  /\ cpu' = [cpu EXCEPT !.a7 = sp]
  /\ UNCHANGED <<mem, identityVars, registryVars, active, setup, stack, replies>>

(* The usual end of a native override: it performs the guest's return.     *)
TitleReturnsForGuest ==
  /\ May("rts")
  /\ ReadFault(cpu.a7) = "None"
  /\ cpu' = [cpu EXCEPT !.pc = mem[cpu.a7], !.a7 = @ + 1]
  /\ UNCHANGED <<mem, identityVars, registryVars, active, setup, stack, replies>>

(* Mutant: pending_original is not reset.                                  *)
ReplaceImageKeepsPending(tag) ==
  /\ May("replace")
  /\ image.generation < MaxGeneration
  /\ image' = [tag |-> tag, generation |-> image.generation + 1]
  /\ UNCHANGED <<machine, pending, registryVars, active, setup, stack, replies>>

(* Mutant: the generation wraps around instead of being refused.           *)
ReplaceImageWraps(tag) ==
  /\ May("replace")
  /\ image' = [tag |-> tag, generation |-> (image.generation + 1) % (MaxGeneration + 1)]
  /\ pending' = None
  /\ UNCHANGED <<machine, registryVars, active, setup, stack, replies>>

ReplaceImage(tag) ==
  /\ May("replace")
  /\ image.generation < MaxGeneration
  /\ image' = [tag |-> tag, generation |-> image.generation + 1]
  /\ pending' = None
  /\ UNCHANGED <<machine, registryVars, active, setup, stack, replies>>

(* Replacing or erasing the std::function that is running is undefined, so *)
(* a title does neither to an active override.                             *)
RegisterOverride(a) ==
  LET id == [image |-> image, address |-> a]
  IN  /\ May("register")
      /\ id \notin Range(active)
      /\ Install(id)
      /\ UNCHANGED <<machine, identityVars, suppressions, active, setup, stack, replies>>

RemoveOverride(id) ==
  /\ May("remove")
  /\ id \in overrides
  /\ id \notin Range(active)
  /\ Erase(id)
  /\ UNCHANGED <<machine, identityVars, suppressions, active, setup, stack, replies>>

(* The title's memory is its own: a bank register may switch protection.   *)
TitleProtects(on) ==
  /\ May("protect")
  /\ protected' = on
  /\ UNCHANGED <<machine, identityVars, registryVars, active, breakpoints, handler,
                 stack, replies>>

SetBreakpoint(a) ==
  /\ May("bp_set")
  /\ breakpoints' = BP!AddTo(breakpoints, a)
  /\ UNCHANGED <<machine, identityVars, registryVars, active, handler, protected, stack,
                 replies>>

ClearBreakpoint(a) ==
  /\ May("bp_clear")
  /\ breakpoints' = BP!DropFrom(breakpoints, a)
  /\ UNCHANGED <<machine, identityVars, registryVars, active, handler, protected, stack,
                 replies>>

ClearBreakpoints ==
  /\ May("bp_clear_all")
  /\ breakpoints' = {}
  /\ UNCHANGED <<machine, identityVars, registryVars, active, handler, protected, stack,
                 replies>>

SetBreakpointHandler(set) ==
  /\ May("bp_handler")
  /\ handler' = set
  /\ UNCHANGED <<machine, identityVars, registryVars, active, breakpoints, protected,
                 stack, replies>>

(* A call that ends before it starts a run; c and t are what it has done   *)
(* to the CPU and to the token by then.                                    *)
Answers(x, c, t) ==
  /\ exit' = x
  /\ cpu' = c
  /\ token' = t
  /\ UNCHANGED <<mem, suppressions, stack>>

(* A call that throws has no exit.                                         *)
Throws(c, t) == Answers(exit, c, t)

Unmoved == UNCHANGED <<identityVars, overrides, active, setup>>

Execute(n) ==
  /\ May("execute")
  /\ Unmoved
  /\ IF image.tag = NoTag THEN Answers(MakeExit("NoImage", 0), cpu, token)
     ELSE LET c == Synchronized(cpu)
          IN  IF ~StateIsValid(c) THEN Throws(c, token)
              ELSE /\ StartRun(n, None, FALSE, None, None, c, mem)
                   /\ UNCHANGED replies

(* The token call leaves with its caller: return boundary, image and owner.*)
TokenFor(boundary, stop) ==
  IF stop = None THEN NoToken
  ELSE [boundary |-> boundary, return_pc |-> stop, image |-> image,
        owner |-> Last(active), valid |-> TRUE]

StartCall(a, boundary, n, given, stop, c, m) ==
  /\ StartRun(n, stop, FALSE,
       IF active # <<>> /\ boundary # "HostSubroutine" THEN Last(active) ELSE None,
       None, [c EXCEPT !.pc = a], m)
  /\ token' = IF given = "kept" THEN TokenFor(boundary, stop) ELSE token
  /\ UNCHANGED exit

(* The continuation object a caller gives to call: none, the one that the  *)
(* title keeps and may resume from, or another, which it forgets.  A title *)
(* that never resumes gives none.                                          *)
Given ==
  IF "continue_call" \in HostOps THEN {"none", "kept", "other"} ELSE {"none"}

(* call: a HostSubroutine pushes a synthetic return to the current PC, a   *)
(* GuestSubroutine returns where the guest's own frame says.               *)
Call(a, boundary, n, given) ==
  LET t == IF given = "kept" THEN NoToken ELSE token
      c == Synchronized(cpu)
      Fails(fault) == Answers(Faulted(MakeExit("MemoryFault", 0), fault), c, t)
  IN
  /\ May(boundary)
  /\ Unmoved
  /\ IF image.tag = NoTag THEN Answers(MakeExit("NoImage", 0), cpu, t)
     ELSE IF boundary = "HostSubroutine" /\ (active = <<>> \/ given = "none")
       THEN Throws(cpu, t)
     ELSE IF ~StateIsValid(c) THEN Throws(c, t)
     ELSE IF active # <<>> /\ boundary = "HostSubroutine"
       THEN IF WriteFault(c.a7 - 1, protected) # "None"
              THEN Fails(WriteFault(c.a7 - 1, protected))
              ELSE StartCall(a, boundary, n, given, c.pc,
                             [c EXCEPT !.a7 = @ - 1],
                             [mem EXCEPT ![c.a7 - 1] = c.pc])
     ELSE IF active # <<>> /\ boundary = "GuestSubroutine"
       THEN IF ReadFault(c.a7) # "None"
              THEN Fails(ReadFault(c.a7))
              ELSE StartCall(a, boundary, n, given, mem[c.a7], c, mem)
     ELSE StartCall(a, boundary, n, given, None, c, mem)

ContinueCall(n) ==
  LET c == Synchronized(cpu) IN
  /\ May("continue_call")
  /\ token.valid /\ active # <<>>
  /\ Unmoved
  /\ IF token.image # image THEN Answers(MakeExit("ImageReplaced", 0), cpu, token)
     ELSE IF token.owner # Last(active) THEN Throws(cpu, token)
     ELSE IF ~StateIsValid(c) THEN Throws(c, token)
     ELSE /\ StartRun(n, token.return_pc, FALSE,
               IF token.boundary = "GuestSubroutine" THEN Last(active) ELSE None,
               None, c, mem)
          /\ UNCHANGED replies

(* Mutant: the word that was pushed stays on the guest's stack.            *)
RefusesFrameHalfway(s, c, m, fault) ==
  /\ exit' = Faulted(MakeExit("MemoryFault", 0), fault)
  /\ cpu' = c
  /\ mem' = m
  /\ UNCHANGED <<token, suppressions, stack>>

(* The second word of the frame is refused: the first one is put back.     *)
RefusesFrame(s, c, m, fault) ==
  /\ exit' = Faulted(MakeExit("MemoryFault", 0), fault)
  /\ cpu' = c
  /\ mem' = RestoredMem(s, m)
  /\ UNCHANGED <<token, suppressions, stack>>

(* call_interrupt: an exception frame of two words is pushed on the        *)
(* supervisor stack, and the run ends at the guest's RTE.                  *)
CallInterrupt(a, n) ==
  LET c == Synchronized(cpu)
      at == c.ssp - 2
      Fault(cell) == WriteFault(cell, protected)
      Fails(fault) == Answers(Faulted(MakeExit("MemoryFault", 0), fault), c, token)
      s == [cpu |-> c, at |-> at, sr |-> mem[at], pc |-> mem[at + 1]]
      pushed == Stored(mem, at, IF c.super THEN SuperSR ELSE ZeroWord)
  IN
  /\ May("interrupt")
  /\ Unmoved
  /\ IF c.ssp < 2 THEN Fails("None")
     ELSE IF ReadFault(at) # "None" THEN Fails(ReadFault(at))
     ELSE IF ReadFault(at + 1) # "None" THEN Fails(ReadFault(at + 1))
     ELSE IF Fault(at) # "None" THEN Fails(Fault(at))
     ELSE IF Fault(at + 1) # "None" THEN RefusesFrame(s, c, pushed, Fault(at + 1))
     ELSE /\ StartRun(n, None, TRUE, None, s,
               [c EXCEPT !.ssp = at, !.a7 = at, !.super = TRUE, !.pc = a],
               Stored(pushed, at + 1, c.pc))
          /\ UNCHANGED replies

CallOriginal(n) ==
  /\ May("original")
  /\ active # <<>>
  /\ StartRun(n, None, FALSE, Last(active), None, Synchronized(cpu), mem)
  /\ UNCHANGED replies
  /\ Unmoved

CallOriginalSubroutine(n) ==
  LET c == Synchronized(cpu) IN
  /\ May("original_subroutine")
  /\ active # <<>>
  /\ Unmoved
  /\ IF ReadFault(c.a7) # "None"
       THEN Answers(Faulted(MakeExit("MemoryFault", 0), ReadFault(c.a7)), c, token)
       ELSE /\ StartRun(n, mem[c.a7], FALSE, Last(active), None, c, mem)
            /\ UNCHANGED replies

(* continue_original only answers; the bypass waits for the run loop.      *)
ContinueOriginal ==
  /\ May("continue_original")
  /\ active # <<>>
  /\ Identity = Last(active)
  /\ pending = None
  /\ pending' = Last(active)
  /\ exit' = [MakeExit("NativeOverride", 0) EXCEPT !.continue = TRUE]
  /\ UNCHANGED <<machine, image, registryVars, active, setup, stack, token>>

-----------------------------------------------------------------------------
RunLoop ==
  \/ RunStops
  \/ HandlerEnter
  \/ OverrideEnter
  \/ GuestStep
  \/ \E tag \in Tags : GuestStepReplacesImage(tag)

CallbackEnds ==
  \/ \E x \in NativeResults : NativeContinues(x) \/ NativeReturns(x)
  \/ HandlerReturns
  \/ CallbackThrows

TitleStep ==
  \/ \E a \in Addr : TitleWritesPc(a)
  \/ \E sp \in Sp : TitleWritesA7(sp)
  \/ TitleReturnsForGuest
  \/ \E tag \in Tags : ReplaceImage(tag)
  \/ \E a \in Addr : RegisterOverride(a)
  \/ \E id \in overrides : RemoveOverride(id)
  \/ \E a \in Addr : SetBreakpoint(a) \/ ClearBreakpoint(a)
  \/ ClearBreakpoints
  \/ \E set \in BOOLEAN : SetBreakpointHandler(set) \/ TitleProtects(set)

TitleCall ==
  \/ \E n \in Requests :
       \/ Execute(n)
       \/ ContinueCall(n)
       \/ CallOriginal(n)
       \/ CallOriginalSubroutine(n)
       \/ \E a \in Addr :
            \/ CallInterrupt(a, n)
            \/ \E boundary \in CallBoundary, given \in Given :
                 Call(a, boundary, n, given)
  \/ ContinueOriginal

Next == RunLoop \/ CallbackEnds \/ TitleStep \/ TitleCall

Spec == Init /\ [][Next]_vars
=============================================================================
