------------------------ MODULE ExecutorActionProofs ------------------------
(***************************************************************************)
(* Theorems about the executor's steps: what no step may do, from any      *)
(* reachable state, and the identities that the steps keep.  Each follows  *)
(* from the invariant of ExecutorProofs and from which actions can take    *)
(* the step in question.                                                   *)
(***************************************************************************)
EXTENDS ExecutorSteps

-----------------------------------------------------------------------------
(* Where a run stops.                                                      *)

(* Only entering an override changes active_overrides while a run is on    *)
(* top.                                                                    *)
LEMMA OnlyEnteringActivates ==
  ASSUME Next, Running, active' # active
  PROVE  OverrideEnter
<1>1. RunLoop
  BY OnlyTheRunLoopMoves
<1> QED
  BY <1>1 DEF RunLoop, RunStops, HandlerEnter, GuestStep, GuestStepReplacesImage

(* Past its first instruction a run neither executes the instruction at a  *)
(* breakpoint nor enters the override there (run, Breakpoints::contains).  *)
THEOREM ExecutorStopsAtBreakpoints == Spec => BreakpointStopsRun
<1> DEFINE Promise == Running /\ Top.count > 0 /\ cpu.pc \in breakpoints
                        => ~GuestSteps /\ active' = active
<1>1. Inv /\ [Next]_vars => [Promise]_vars
  <2> SUFFICES ASSUME Next, Running, Top.count > 0, cpu.pc \in breakpoints
               PROVE  ~GuestSteps /\ active' = active
    OBVIOUS
  <2>1. HeadReason(Top) # "Dispatch"
    BY DEF HeadReason, AtBreakpoint
  <2> QED
    BY <2>1, OnlyEnteringActivates DEF GuestSteps, OverrideEnter, Dispatching
<1> QED
  BY <1>1, InvInit, InvNext, PTL DEF Spec, BreakpointStopsRun

-----------------------------------------------------------------------------
(* Which image a run is in.                                                *)

(* The frame at i, if it is a run, is moved to another generation only by  *)
(* the override right above it.                                            *)
Moves(i) ==
  stack[i].kind = "run" /\ stack'[i].auth # stack[i].auth
    => /\ stack'[i].auth = image.generation
       /\ i + 1 = Len(stack)
       /\ stack[i + 1].kind = "native"

LEMMA PushMoves ==
  ASSUME Inv, NEW f, stack' = Append(stack, f), NEW i \in DOMAIN stack
  PROVE  Moves(i)
<1>1. Len(stack) \in Nat /\ DOMAIN stack = 1..Len(stack) /\ stack \in Seq(Frame)
  BY LenProperties DEF Inv, StackOK
<1> QED
  BY <1>1 DEF Moves

LEMMA PrefixMoves ==
  ASSUME Inv, NEW k \in 0..Len(stack), stack' = SubSeq(stack, 1, k),
         NEW i \in DOMAIN stack', i \in DOMAIN stack
  PROVE  Moves(i)
<1>1. Len(stack) \in Nat /\ stack \in Seq(Frame) /\ Len(stack') = k
  BY LenProperties, PrefixOK DEF Inv, StackOK
<1>2. DOMAIN stack' = 1..k
  BY <1>1
<1>3. stack'[i] = stack[i]
  BY <1>1, <1>2
<1> QED
  BY <1>3 DEF Moves

LEMMA CountMoves ==
  ASSUME Inv, Counts, NEW i \in DOMAIN stack
  PROVE  Moves(i)
<1>1. Top \in RunFrame
  BY CountedOK DEF Counts
<1>2. Counted(Top).auth = Top.auth
  BY <1>1 DEF Counted, RunFrame
<1>3. stack'[i] = IF i = Len(stack) THEN Counted(Top) ELSE stack[i]
  BY DEF Counts
<1> QED
  BY <1>2, <1>3 DEF Moves, Top

LEMMA ContinueMoves ==
  ASSUME Inv, NEW x, NativeContinues(x), NEW i \in DOMAIN stack', i \in DOMAIN stack
  PROVE  Moves(i)
<1> DEFINE p == PopBack(stack)
<1>1. stack # <<>> /\ Top.kind = "native" /\ stack \in Seq(Frame)
  BY InvParts DEF NativeContinues, InNative, StackOK
<1>2. /\ Len(stack) \in Nat /\ Caller \in RunFrame
      /\ Len(p) = Len(stack) - 1 /\ p \in Seq(Frame)
      /\ \A j \in 1..(Len(stack) - 1) : p[j] = stack[j]
  BY <1>1, TopOK, PopBackType
<1> HIDE DEF p
<1>3. stack' = [p EXCEPT ![Len(stack) - 1] = Reauthorized(Caller)]
  BY DEF NativeContinues, p
<1>4. DOMAIN stack' = 1..(Len(stack) - 1)
  BY <1>2, <1>3
<1>5. stack'[i] = IF i = Len(stack) - 1 THEN Reauthorized(Caller) ELSE stack[i]
  BY <1>2, <1>3, <1>4
<1>6. Reauthorized(Caller).auth = image.generation
  BY <1>2 DEF Reauthorized, RunFrame
<1>7. CASE i = Len(stack) - 1
  BY <1>1, <1>2, <1>5, <1>6, <1>7 DEF Moves, Top
<1> QED
  BY <1>5, <1>7 DEF Moves

(* At its next turn, a run whose image is not the current one ends, for a  *)
(* reason that is looked at before the image's addresses are.              *)
LEMMA ForeignImageEnds ==
  ASSUME Inv, Next, Running, Top.auth # image.generation
  PROVE  /\ Len(stack') < Len(stack) /\ active' = active
         /\ exit'.reason \in {"InstructionBudget", "Halted", "ImageReplaced"}
<1>1. HeadReason(Top) \in {"InstructionBudget", "Halted", "ImageReplaced"}
  BY DEF HeadReason, ImageGone
<1>2. RunStops
  BY <1>1, OnlyTheRunLoopMoves
     DEF RunLoop, HandlerEnter, OverrideEnter, GuestStep, GuestStepReplacesImage,
         CoreSteps, Dispatching
<1>3. Len(stack') = Len(stack) - 1 /\ Len(stack) \in Nat
  BY <1>2, PopOK, TopOK DEF RunStops, EndRun, Running, Inv
<1>4. exit'.reason = HeadReason(Top) /\ active' = active
  BY <1>2 DEF RunStops, EndRun, MakeExit
<1> QED
  BY <1>1, <1>3, <1>4

(* A run whose image was replaced ends at its next turn and never reports  *)
(* a stop address or a breakpoint of another image; only an override that  *)
(* it entered itself moves it to another generation, and then to the       *)
(* current one (run's authorized_generation).                              *)
THEOREM ExecutorRunsOnlyItsImage == Spec => RunsOnlyItsImage
<1> DEFINE Ends == Running /\ Top.auth # image.generation =>
                     /\ Len(stack') < Len(stack) /\ active' = active
                     /\ exit'.reason \in {"InstructionBudget", "Halted", "ImageReplaced"}
           Promise == Ends /\ \A i \in DOMAIN stack \intersect DOMAIN stack' : Moves(i)
<1>1. Inv /\ [Next]_vars => [Promise]_vars
  <2> SUFFICES ASSUME Inv, Next PROVE Promise
    OBVIOUS
  <2>1. Ends
    BY ForeignImageEnds
  <2>2. ASSUME NEW i \in DOMAIN stack \intersect DOMAIN stack' PROVE Moves(i)
    <3>1. Len(stack) \in Nat /\ StepShape
      BY EveryStepHasAShape, LenProperties DEF Inv, StackOK
    <3>2. CASE Still
      BY <3>2 DEF Still, Moves
    <3>3. CASE (\E f \in RunFrame : StartsRun(f)) \/ HandlerEnter \/ OverrideEnter
      BY <3>3, PushMoves DEF StartsRun, HandlerEnter, OverrideEnter
    <3>4. CASE Counts
      BY <3>4, CountMoves
    <3>5. CASE \E x : Stops(x)
      <4>1. Len(stack) - 1 \in 0..Len(stack) /\ stack' = PopBack(stack)
        BY <3>1, <3>5, TopOK DEF Stops, Running
      <4> QED
        BY <4>1, PrefixMoves DEF PopBack
    <3>6. CASE CallbackEnds
      <4>1. CASE \E x \in NativeResults : NativeContinues(x)
        BY <4>1, ContinueMoves
      <4>2. CASE stack' = BelowCaller
        <5>1. Len(stack) - 2 \in 0..Len(stack)
          BY <3>6, CallbackAbove
        <5> QED
          BY <4>2, <5>1, PrefixMoves DEF BelowCaller
      <4> QED
        BY <3>6, <4>1, <4>2
           DEF CallbackEnds, NativeReturns, HandlerReturns, CallbackThrows, EndRun
    <3> QED
      BY <3>1, <3>2, <3>3, <3>4, <3>5, <3>6 DEF StepShape
  <2> QED
    BY <2>1, <2>2
<1> QED
  BY <1>1, InvInit, InvNext, PTL DEF Spec, RunsOnlyItsImage, Moves

-----------------------------------------------------------------------------
(* Guest time.                                                             *)

(* The core returns its cycles beside the CPU: it does not touch the       *)
(* counter.                                                                *)
LEMMA CoreKeepsCycles ==
  ASSUME NEW c \in CpuState, NEW m \in Memory, NEW locked,
         NEW out \in CoreStep(c, m, locked)
  PROVE  out.cpu.cycles = c.cycles
<1>1. /\ \A a \in Addr : AtPc(c, a).cycles = c.cycles
      /\ \A sp, a : AtPc(WithSp(c, sp), a).cycles = c.cycles
  BY DEF AtPc, WithSp, CpuState
<1>2. \A s, d, w : Outcome(s, d, w).cpu = d
  BY DEF Outcome
<1>3. \A f : FaultOutcome(c, m, f).cpu = c
  BY DEF FaultOutcome
<1>4. \A s, d, w : Unexecuted(Outcome(s, d, w)).cpu = d
  BY DEF Outcome, Unexecuted
<1>5. CASE out \in BranchOutcomes(c, m) \/ out \in TrapOutcomes(c, m)
  BY <1>1, <1>2, <1>4, <1>5 DEF BranchOutcomes, TrapOutcomes
<1>6. CASE out \in JsrOutcomes(c, m, locked) \/ out \in RtsOutcomes(c, m)
           \/ out \in FaultOutcomes(c, m)
  BY <1>1, <1>2, <1>3, <1>6 DEF JsrOutcomes, RtsOutcomes, FaultOutcomes
<1>7. CASE out \in RteOutcomes(c, m)
  <2>1. CASE ~c.super
    BY <1>4, <1>7, <2>1 DEF RteOutcomes
  <2>2. CASE c.super /\ (ReadFault(c.a7) # "None" \/ ReadFault(c.a7 + 1) # "None")
    BY <1>3, <1>7, <2>2 DEF RteOutcomes
  <2>3. CASE c.super /\ ReadFault(c.a7) = "None" /\ ReadFault(c.a7 + 1) = "None"
    <3> DEFINE s == m[c.a7] = SuperSR
               d == [c EXCEPT !.super = s, !.pc = m[c.a7 + 1], !.ssp = c.a7 + 2,
                              !.a7 = IF s THEN c.a7 + 2 ELSE c.usp]
    <3>1. out = Outcome("ReturnedFromInterrupt", d, m)
      BY <1>7, <2>3 DEF RteOutcomes
    <3>2. d.cycles = c.cycles
      <4> HIDE DEF s
      <4> QED BY DEF CpuState
    <3> HIDE DEF d
    <3> QED
      BY <1>2, <3>1, <3>2
  <2> QED
    BY <2>1, <2>2, <2>3
<1>8. CASE out \in UserOutcomes(c, m)
  <2>1. PICK a \in Addr : out = Outcome("Completed",
          [c EXCEPT !.super = FALSE, !.ssp = c.a7, !.a7 = c.usp, !.pc = a], m)
    BY <1>8 DEF UserOutcomes
  <2>2. [c EXCEPT !.super = FALSE, !.ssp = c.a7, !.a7 = c.usp, !.pc = a].cycles = c.cycles
    BY DEF CpuState
  <2> QED
    BY <2>1, <2>2 DEF Outcome
<1>9. CASE out \in HaltOutcomes(c, m)
  <2>1. out = Outcome("Halted", [c EXCEPT !.halted = TRUE], m)
    BY <1>9 DEF HaltOutcomes
  <2>2. [c EXCEPT !.halted = TRUE].cycles = c.cycles
    BY DEF CpuState
  <2> QED
    BY <2>1, <2>2 DEF Outcome
<1> QED
  BY <1>5, <1>6, <1>7, <1>8, <1>9 DEF CoreStep

(* However a run ends, its guest's cycles are the ones it ended with.      *)
LEMMA EndRunKeepsCycles ==
  ASSUME NEW f \in RunFrame, NEW below, NEW x, NEW c \in CpuState, NEW m, NEW s,
         EndRun(f, below, x, c, m, s)
  PROVE  cpu'.cycles = c.cycles
<1>1. CASE RollsBack(f, x.reason)
  <2>1. f.saved.cpu \in CpuState
    BY <1>1 DEF RollsBack, RunFrame, Saved
  <2>2. RestoredCpu(f, c).cycles = c.cycles
    BY <2>1 DEF RestoredCpu, CpuState
  <2> QED
    BY <1>1, <2>2 DEF EndRun
<1>2. CASE ~RollsBack(f, x.reason)
  BY <1>2 DEF EndRun
<1> QED
  BY <1>1, <1>2

(* Where a step may leave the clock.                                       *)
OnTime == cpu'.cycles \in {cpu.cycles, NextCycles(cpu.cycles)}

LEMMA StepIsOnTime ==
  ASSUME Inv, Dispatching, NEW out \in CoreStep(cpu, mem, protected),
         \/ StepContinues(out) \/ StepFaults(out) \/ StepTraps(out)
         \/ StepReturnsFromInterrupt(out) \/ StepHalts(out)
  PROVE  OnTime
<1>1. out.cpu \in CpuState /\ out.cpu.cycles = cpu.cycles
  BY InvParts, CoreStepType, CoreKeepsCycles DEF CoreOutcome
<1>2. Retired(out.cpu) \in CpuState /\ Retired(out.cpu).cycles = NextCycles(cpu.cycles)
  BY <1>1, RetiredType DEF Retired, CpuState
<1>3. ASSUME NEW x, NEW c \in CpuState, StepEnds(out, x, c)
      PROVE  cpu'.cycles = c.cycles
  BY <1>3, CountedOK, EndRunKeepsCycles DEF StepEnds
<1>4. CASE StepContinues(out)
  BY <1>2, <1>4 DEF StepContinues, OnTime
<1>5. CASE StepFaults(out)
  <2> DEFINE d == [out.cpu EXCEPT !.vector = "BusError"]
  <2>1. d \in CpuState /\ d.cycles = out.cpu.cycles
    BY <1>1 DEF CpuState, Vectors
  <2>2. PICK x : StepEnds(out, x, d)
    BY <1>5 DEF StepFaults
  <2> HIDE DEF d
  <2> QED
    BY <1>1, <1>3, <2>1, <2>2 DEF OnTime
<1>6. CASE StepTraps(out)
  <2> DEFINE d == [out.cpu EXCEPT !.vector = "Trap", !.cycles = NextCycles(@),
                     !.executed = IF out.executed THEN NextExecuted(@) ELSE @]
  <2>1. /\ NextExecuted(out.cpu.executed) \in ExecutedCounter
        /\ NextCycles(out.cpu.cycles) \in CycleCounter
    BY <1>1, CountersType DEF CpuState
  <2>2. d \in CpuState /\ d.cycles = NextCycles(out.cpu.cycles)
    BY <1>1, <2>1 DEF CpuState, Vectors
  <2>3. PICK x : StepEnds(out, x, d)
    BY <1>6 DEF StepTraps
  <2> HIDE DEF d
  <2> QED
    BY <1>1, <1>3, <2>2, <2>3 DEF OnTime
<1>7. CASE StepReturnsFromInterrupt(out) \/ StepHalts(out)
  BY <1>1, <1>2, <1>3, <1>7 DEF StepReturnsFromInterrupt, StepHalts, OnTime
<1> QED
  BY <1>4, <1>5, <1>6, <1>7

(* The synchronization of a stack pointer leaves the clock alone.          *)
LEMMA SynchronizedOnTime ==
  ASSUME NEW c \in CpuState
  PROVE  Synchronized(c).cycles = c.cycles
BY DEF Synchronized, WithSp, CpuState

LEMMA RunLoopOnTime == Inv /\ RunLoop => OnTime
<1> SUFFICES ASSUME Inv, RunLoop PROVE OnTime
  OBVIOUS
<1>1. CASE RunStops
  <2>1. Top \in RunFrame
    BY <1>1, TopOK DEF RunStops, Running
  <2>2. cpu'.cycles = cpu.cycles
    BY <1>1, <2>1, InvParts, EndRunKeepsCycles DEF RunStops
  <2> QED
    BY <2>2 DEF OnTime
<1>2. CASE HandlerEnter \/ OverrideEnter
  BY <1>2 DEF HandlerEnter, OverrideEnter, machine, OnTime
<1>3. CASE CoreSteps
  BY <1>3, StepIsOnTime DEF CoreSteps
<1>4. CASE GuestStep
  BY <1>3, <1>4 DEF GuestStep
<1>5. ASSUME NEW tag \in Tags, GuestStepReplacesImage(tag) PROVE OnTime
  BY <1>3, <1>5 DEF GuestStepReplacesImage
<1> QED
  BY <1>1, <1>2, <1>4, <1>5 DEF RunLoop

LEMMA CallbackEndsOnTime == Inv /\ CallbackEnds => OnTime
<1> SUFFICES ASSUME Inv, CallbackEnds PROVE OnTime
  OBVIOUS
<1>1. stack # <<>> /\ Top.kind # "run"
  BY DEF CallbackEnds, NativeContinues, NativeReturns, InNative, HandlerReturns,
         CallbackThrows
<1>2. Caller \in RunFrame /\ cpu \in CpuState
  BY <1>1, TopOK, InvParts
<1>3. ASSUME NEW x \in NativeResults, NativeReturns(x) PROVE OnTime
  <2>1. cpu'.cycles = cpu.cycles
    BY <1>2, <1>3, EndRunKeepsCycles DEF NativeReturns
  <2> QED
    BY <2>1 DEF OnTime
<1>4. CASE HandlerReturns
  <2>1. cpu'.cycles = cpu.cycles
    BY <1>2, <1>4, EndRunKeepsCycles DEF HandlerReturns
  <2> QED
    BY <2>1 DEF OnTime
<1>5. ASSUME NEW x \in NativeResults, NativeContinues(x) PROVE OnTime
  BY <1>5 DEF NativeContinues, machine, OnTime
<1>6. CASE CallbackThrows
  BY <1>6 DEF CallbackThrows, machine, OnTime
<1> QED
  BY <1>3, <1>4, <1>5, <1>6 DEF CallbackEnds

LEMMA TitleStepOnTime == Inv /\ TitleStep => OnTime
<1> SUFFICES ASSUME Inv, TitleStep PROVE OnTime
  OBVIOUS
<1>1. cpu \in CpuState
  BY InvParts
<1>2. ASSUME NEW a \in Addr, TitleWritesPc(a) PROVE OnTime
  BY <1>1, <1>2 DEF TitleWritesPc, CpuState, OnTime
<1>3. ASSUME NEW sp \in Sp, TitleWritesA7(sp) PROVE OnTime
  BY <1>1, <1>3 DEF TitleWritesA7, CpuState, OnTime
<1>4. CASE TitleReturnsForGuest
  BY <1>1, <1>4 DEF TitleReturnsForGuest, CpuState, OnTime
<1>5. CASE UNCHANGED machine
  BY <1>5 DEF machine, OnTime
<1> QED
  BY <1>2, <1>3, <1>4, <1>5
     DEF TitleStep, ReplaceImage, RegisterOverride, RemoveOverride, TitleProtects,
         SetBreakpoint, ClearBreakpoint, ClearBreakpoints, SetBreakpointHandler

LEMMA TitleCallOnTime == Inv /\ TitleCall => OnTime
<1> SUFFICES ASSUME Inv, TitleCall PROVE OnTime
  OBVIOUS
<1> DEFINE c == Synchronized(cpu)
<1>1. cpu \in CpuState /\ c \in CpuState /\ c.cycles = cpu.cycles
  BY InvParts, SynchronizedType, SynchronizedOnTime
<1>2. CASE ContinueOriginal
  BY <1>2 DEF ContinueOriginal, machine, OnTime
<1>3. ASSUME NEW d, d.cycles = cpu.cycles, cpu' = d PROVE OnTime
  BY <1>3 DEF OnTime
<1>4. ASSUME NEW x, NEW d, NEW t, d.cycles = cpu.cycles,
             Answers(x, d, t) \/ Throws(d, t)
      PROVE  OnTime
  BY <1>3, <1>4 DEF Answers, Throws
<1>5. ASSUME NEW n, NEW stop, NEW rte, NEW scope, NEW saved, NEW d, NEW m,
             d.cycles = cpu.cycles, StartRun(n, stop, rte, scope, saved, d, m)
      PROVE  OnTime
  BY <1>3, <1>5 DEF StartRun
<1>6. ASSUME NEW n \in Requests, Execute(n) PROVE OnTime
  BY <1>1, <1>4, <1>5, <1>6 DEF Execute
<1>7. ASSUME NEW n \in Requests, ContinueCall(n) PROVE OnTime
  BY <1>1, <1>4, <1>5, <1>7 DEF ContinueCall
<1>8. ASSUME NEW n \in Requests, CallOriginal(n) PROVE OnTime
  BY <1>1, <1>5, <1>8 DEF CallOriginal
<1>9. ASSUME NEW n \in Requests, CallOriginalSubroutine(n) PROVE OnTime
  BY <1>1, <1>4, <1>5, <1>9 DEF CallOriginalSubroutine
<1>10. ASSUME NEW a \in Addr, NEW n \in Requests, CallInterrupt(a, n) PROVE OnTime
  <2>1. \A sp : [c EXCEPT !.ssp = sp, !.a7 = sp, !.super = TRUE, !.pc = a].cycles
                  = cpu.cycles
    <3> HIDE DEF c
    <3> QED BY <1>1 DEF CpuState
  <2>2. ASSUME NEW s, NEW m, NEW fault, RefusesFrame(s, c, m, fault) PROVE OnTime
    BY <1>1, <1>3, <2>2 DEF RefusesFrame
  <2>3. \/ \E x : Answers(x, c, token)
        \/ \E s, m, fault : RefusesFrame(s, c, m, fault)
        \/ \E at, s, m :
             StartRun(n, None, TRUE, None, s,
               [c EXCEPT !.ssp = at, !.a7 = at, !.super = TRUE, !.pc = a], m)
    BY <1>10 DEF CallInterrupt
  <2> HIDE DEF c
  <2> QED
    BY <1>1, <1>4, <1>5, <2>1, <2>2, <2>3
<1>11. ASSUME NEW a \in Addr, NEW boundary \in CallBoundary, NEW n \in Requests,
              NEW given \in Given, Call(a, boundary, n, given)
       PROVE  OnTime
  <2> DEFINE d == [c EXCEPT !.a7 = @ - 1]
  <2>1. ASSUME NEW stop, NEW e, NEW m, [e EXCEPT !.pc = a].cycles = cpu.cycles,
               StartCall(a, boundary, n, given, stop, e, m)
        PROVE  OnTime
    BY <1>5, <2>1 DEF StartCall
  <2>2. [c EXCEPT !.pc = a].cycles = cpu.cycles /\ [d EXCEPT !.pc = a].cycles = cpu.cycles
    <3> HIDE DEF c
    <3> QED BY <1>1 DEF CpuState
  <2>3. \/ \E x, t : Answers(x, cpu, t) \/ Answers(x, c, t)
        \/ \E t : Throws(cpu, t) \/ Throws(c, t)
        \/ \E stop, m : \/ StartCall(a, boundary, n, given, stop, c, m)
                        \/ StartCall(a, boundary, n, given, stop, d, m)
    BY <1>11 DEF Call
  <2> HIDE DEF c, d
  <2> QED
    BY <1>1, <1>4, <2>1, <2>2, <2>3
<1> QED
  BY <1>2, <1>6, <1>7, <1>8, <1>9, <1>10, <1>11 DEF TitleCall

(* elapsed_cycles never goes back and never jumps: not by the rollback of  *)
(* an interrupt at any depth, not by a throw, not by a title's call        *)
(* (call_interrupt carries the counter across the restore).                *)
THEOREM ExecutorTimeMonotonic == Spec => GuestTimeMonotonic
<1>1. Inv /\ [Next]_vars => [OnTime]_vars
  BY RunLoopOnTime, CallbackEndsOnTime, TitleStepOnTime, TitleCallOnTime DEF Next
<1> QED
  BY <1>1, InvInit, InvNext, PTL DEF Spec, GuestTimeMonotonic, OnTime

-----------------------------------------------------------------------------
(* The rollback of an interrupt.                                           *)

(* What the caller of the interrupt in frame f finds.                      *)
Undone(f) ==
  LET s == f.saved
  IN  /\ [cpu' EXCEPT !.cycles = s.cpu.cycles, !.executed = s.cpu.executed] = s.cpu
      /\ WriteFault(s.at, protected) = "None" => mem'[s.at] = s.sr
      /\ WriteFault(s.at + 1, protected) = "None" => mem'[s.at + 1] = s.pc

(* Each word goes back where the memory accepts it, and nowhere else.      *)
LEMMA RestoredWords ==
  ASSUME NEW m \in Memory, NEW s \in Saved
  PROVE  /\ WriteFault(s.at, protected) = "None" => RestoredMem(s, m)[s.at] = s.sr
         /\ WriteFault(s.at + 1, protected) = "None"
              => RestoredMem(s, m)[s.at + 1] = s.pc
<1> DEFINE n == Tried(m, s.at, s.sr)
<1>1. /\ s.at \in Cell /\ s.at + 1 \in Cell /\ s.at # s.at + 1
      /\ s.sr \in Addr /\ s.pc \in Addr
  BY GuestAssumption DEF Saved, FrameCell, Cell
<1>2. \A w \in Memory, c \in Cell, word \in Addr :
        /\ Stored(w, c, word) \in Memory /\ Stored(w, c, word)[c] = word
        /\ \A d \in Cell : d # c => Stored(w, c, word)[d] = w[d]
  BY DEF Stored, Memory
<1>3. n \in Memory /\ (WriteFault(s.at, protected) = "None" => n[s.at] = s.sr)
  BY <1>1, <1>2 DEF Tried
<1> HIDE DEF n
<1>4. /\ Tried(n, s.at + 1, s.pc)[s.at] = n[s.at]
      /\ WriteFault(s.at + 1, protected) = "None"
           => Tried(n, s.at + 1, s.pc)[s.at + 1] = s.pc
  BY <1>1, <1>2, <1>3 DEF Tried
<1>5. RestoredMem(s, m) = Tried(n, s.at + 1, s.pc)
  BY DEF RestoredMem, n
<1> QED
  BY <1>3, <1>4, <1>5

LEMMA EndRunUndoes ==
  ASSUME NEW f \in RunFrame, f.saved # None, NEW below, NEW x, NEW c \in CpuState,
         NEW m \in Memory, NEW s, EndRun(f, below, x, c, m, s),
         exit'.reason # "ReturnToHost"
  PROVE  Undone(f)
<1>1. RollsBack(f, x.reason)
  BY DEF EndRun, RollsBack
<1>2. cpu' = RestoredCpu(f, c) /\ mem' = RestoredMem(f.saved, m)
  BY <1>1 DEF EndRun
<1>3. f.saved \in Saved /\ f.saved.cpu \in CpuState
  BY DEF RunFrame, Saved
<1>4. [cpu' EXCEPT !.cycles = f.saved.cpu.cycles, !.executed = f.saved.cpu.executed]
        = f.saved.cpu
  BY <1>2, <1>3 DEF RestoredCpu, CpuState
<1> QED
  BY <1>2, <1>3, <1>4, RestoredWords DEF Undone

(* A run on top of the stack, or under the callback on top, ends.          *)
LEMMA EndsTopUndoes ==
  ASSUME Inv, Running, NEW x, NEW c \in CpuState, NEW m \in Memory,
         EndRun(Top, PopBack(stack), x, c, m, suppressions),
         NEW i \in DOMAIN stack, EndsInterrupt(i), exit'.reason # "ReturnToHost"
  PROVE  Undone(stack[i])
<1>1. stack # <<>> /\ Top \in RunFrame
  BY TopOK DEF Running
<1>2. Len(stack') = Len(stack) - 1 /\ Len(stack) \in Nat
  BY <1>1, PopOK, TopOK DEF EndRun, Inv
<1>3. i = Len(stack)
  BY <1>2 DEF EndsInterrupt
<1> QED
  BY <1>1, <1>3, EndRunUndoes DEF EndsInterrupt, Top

LEMMA EndsCallerUndoes ==
  ASSUME Inv, stack # <<>>, Top.kind # "run", NEW x, NEW s,
         EndRun(Caller, BelowCaller, x, cpu, mem, s),
         NEW i \in DOMAIN stack, EndsInterrupt(i), exit'.reason # "ReturnToHost"
  PROVE  Undone(stack[i])
<1>1. /\ Len(stack) \in Nat /\ Caller \in RunFrame
      /\ cpu \in CpuState /\ mem \in Memory
  BY TopOK, InvParts
<1>2. Len(PopBack(stack)) = Len(stack) - 1 /\ PopBack(stack) # <<>>
      /\ PopBack(stack) \in Seq(Frame)
  BY TopOK, PopOK, InvParts DEF StackOK
<1>3. Len(stack) - 1 # 0
  BY <1>2, EmptySeq
<1>4. Len(stack) - 2 \in 0..Len(stack)
  BY <1>1, <1>2, <1>3, LenProperties
<1>5. Len(BelowCaller) = Len(stack) - 2
  BY <1>4, PrefixOK DEF BelowCaller, Inv
<1>6. i = Len(stack) - 1
  BY <1>1, <1>5 DEF EndsInterrupt, EndRun
<1> QED
  BY <1>1, <1>6, EndRunUndoes DEF EndsInterrupt, Caller

(* A step that leaves the height of the stack, or raises it, ends nothing. *)
LEMMA NothingEnds ==
  ASSUME Inv, NEW i \in DOMAIN stack, EndsInterrupt(i)
  PROVE  /\ Len(stack') # Len(stack)
         /\ \A f \in Frame : stack' # Append(stack, f)
<1>1. Len(stack) \in Nat /\ stack \in Seq(Frame) /\ i \in 1..Len(stack)
  BY LenProperties DEF Inv, StackOK
<1>2. Len(stack') # Len(stack)
  BY <1>1 DEF EndsInterrupt
<1>3. ASSUME NEW f \in Frame, stack' = Append(stack, f) PROVE FALSE
  <2>1. Len(stack') = Len(stack) + 1
    BY <1>1, <1>3, AppendProperties
  <2> QED
    BY <1>1, <2>1 DEF EndsInterrupt
<1> QED
  BY <1>2, <1>3

LEMMA RunLoopUndoes ==
  ASSUME Inv, RunLoop, NEW i \in DOMAIN stack, EndsInterrupt(i),
         exit'.reason # "ReturnToHost"
  PROVE  Undone(stack[i])
<1>1. CASE RunStops
  BY <1>1, InvParts, EndsTopUndoes DEF RunStops
<1>2. ~HandlerEnter
  <2>1. [kind |-> "handler"] \in Frame
    BY DEF Frame, HandlerFrame
  <2> QED
    BY <2>1, NothingEnds DEF HandlerEnter
<1>3. ~OverrideEnter
  <2>1. [kind |-> "native", id |-> Identity] \in Frame
    BY InvParts DEF Frame, NativeFrame
  <2> QED
    BY <2>1, NothingEnds DEF OverrideEnter
<1>4. ASSUME NEW out \in CoreOutcome, Dispatching, StepContinues(out) PROVE FALSE
  <2>1. Len(stack') = Len(stack)
    <3>1. stack # <<>> /\ Len(stack) \in 1..Len(stack) /\ Counted(Top) \in Frame
      BY <1>4, TopOK, CountedOK DEF Dispatching, Running, Counted, Frame, RunFrame
    <3> QED
      BY <1>4, <3>1, ExceptSeq DEF StepContinues, Inv, StackOK
  <2> QED
    BY <2>1, NothingEnds
<1>5. CASE CoreSteps
  <2>1. PICK out \in CoreStep(cpu, mem, protected) :
          \/ StepContinues(out) \/ StepFaults(out) \/ StepTraps(out)
          \/ StepReturnsFromInterrupt(out) \/ StepHalts(out)
    BY <1>5 DEF CoreSteps
  <2>2. out \in CoreOutcome /\ Dispatching /\ Running
    BY <1>5, InvParts, CoreStepType DEF CoreSteps, Dispatching
  <2>3. ASSUME NEW x, NEW c \in CpuState, StepEnds(out, x, c)
        PROVE  Undone(stack[i])
    <3>1. out.mem \in Memory
      BY <2>2 DEF CoreOutcome
    <3> QED
      BY <2>2, <2>3, <3>1, EndsTopUndoes DEF StepEnds
  <2>4. PICK c \in CpuState : \E x : StepEnds(out, x, c)
    <3>1. out.cpu \in CpuState
      BY <2>2 DEF CoreOutcome
    <3>2. CASE StepFaults(out)
      <4>1. [out.cpu EXCEPT !.vector = "BusError"] \in CpuState
        BY <3>1 DEF CpuState, Vectors
      <4> QED
        BY <3>2, <4>1 DEF StepFaults
    <3>3. CASE StepTraps(out)
      <4> DEFINE d == [out.cpu EXCEPT !.vector = "Trap", !.cycles = NextCycles(@),
                         !.executed = IF out.executed THEN NextExecuted(@) ELSE @]
      <4>1. /\ NextExecuted(out.cpu.executed) \in ExecutedCounter
            /\ NextCycles(out.cpu.cycles) \in CycleCounter
        BY <3>1, CountersType DEF CpuState
      <4>2. d \in CpuState
        BY <3>1, <4>1 DEF CpuState, Vectors
      <4>3. \E x : StepEnds(out, x, d)
        BY <3>3 DEF StepTraps
      <4> HIDE DEF d
      <4> QED
        BY <4>2, <4>3
    <3>4. CASE StepReturnsFromInterrupt(out) \/ StepHalts(out)
      BY <3>1, <3>4, RetiredType DEF StepReturnsFromInterrupt, StepHalts
    <3> QED
      BY <1>4, <2>1, <2>2, <3>2, <3>3, <3>4
  <2> QED
    BY <2>3, <2>4
<1>6. CASE GuestStep \/ \E tag \in Tags : GuestStepReplacesImage(tag)
  BY <1>5, <1>6 DEF GuestStep, GuestStepReplacesImage
<1> QED
  BY <1>1, <1>2, <1>3, <1>6 DEF RunLoop

LEMMA StartDeepens ==
  ASSUME Inv, NEW n, NEW stop, NEW rte, NEW scope, NEW saved, NEW c, NEW m,
         StartRun(n, stop, rte, scope, saved, c, m)
  PROVE  Len(stack') = Len(stack) + 1 /\ stack' # stack
<1>1. PICK f : stack' = Append(stack, f)
  BY DEF StartRun
<1>2. Len(stack) \in Nat /\ Len(stack') = Len(stack) + 1
  BY <1>1, LenProperties DEF Inv, StackOK
<1> QED
  BY <1>2

(* An interrupt that did not reach its RTE leaves the guest as it was, but *)
(* for its counters and for words the memory refuses to take back, however *)
(* deep it was nested and whatever ended it: a fault, a trap, a budget, a  *)
(* replaced image, a breakpoint, an override (call_interrupt).             *)
THEOREM ExecutorUndoesInterrupt == Spec => InterruptUndone
<1> DEFINE Promise == \A i \in DOMAIN stack :
             EndsInterrupt(i) /\ exit'.reason # "ReturnToHost" => Undone(stack[i])
<1>1. Inv /\ [Next]_vars => [Promise]_vars
  <2> SUFFICES ASSUME Inv, Next, NEW i \in DOMAIN stack, EndsInterrupt(i),
                      exit'.reason # "ReturnToHost"
               PROVE  Undone(stack[i])
    OBVIOUS
  <2>1. CASE RunLoop
    BY <2>1, RunLoopUndoes
  <2>2. CASE CallbackEnds
    <3>1. stack # <<>> /\ Top.kind # "run"
      BY <2>2 DEF CallbackEnds, NativeContinues, NativeReturns, InNative,
                  HandlerReturns, CallbackThrows
    <3>2. ~CallbackThrows
      BY DEF EndsInterrupt
    <3>3. ASSUME NEW x \in NativeResults, NativeContinues(x) PROVE FALSE
      <4>1. /\ PopBack(stack) # <<>> /\ PopBack(stack) \in Seq(Frame)
            /\ Len(PopBack(stack)) = Len(stack) - 1 /\ Len(stack) \in Nat
            /\ Reauthorized(Caller) \in Frame
        BY <3>1, TopOK, PopOK, InvParts DEF StackOK, Reauthorized, Frame, RunFrame
      <4>2. Len(stack) - 1 # 0
        BY <4>1, EmptySeq
      <4>3. Len(stack) - 1 \in 1..(Len(stack) - 1)
        BY <4>1, <4>2, LenProperties
      <4>4. Len(stack') = Len(stack) - 1
        BY <3>3, <4>1, <4>3, ExceptSeq DEF NativeContinues
      <4> QED
        BY <3>1, <4>1, <4>4 DEF EndsInterrupt, Top
    <3>4. CASE HandlerReturns
      BY <3>1, <3>4, EndsCallerUndoes DEF HandlerReturns
    <3>5. ASSUME NEW x \in NativeResults, NativeReturns(x) PROVE Undone(stack[i])
      BY <3>1, <3>5, EndsCallerUndoes DEF NativeReturns
    <3> QED
      BY <2>2, <3>2, <3>3, <3>4, <3>5 DEF CallbackEnds
  <2>3. CASE UNCHANGED stack
    BY <2>3, NothingEnds
  <2>4. CASE TitleStep
    BY <2>3, <2>4
       DEF TitleStep, TitleWritesPc, TitleWritesA7, TitleReturnsForGuest, ReplaceImage,
           RegisterOverride, RemoveOverride, TitleProtects, SetBreakpoint, ClearBreakpoint,
           ClearBreakpoints, SetBreakpointHandler
  <2>5. CASE TitleCall
    <3>1. Len(stack) \in Nat /\ Len(stack') # Len(stack) + 1
      BY LenProperties DEF EndsInterrupt, Inv, StackOK
    <3>2. ~ \E n \in Requests : \E stop, rte, scope, saved, c, m :
              StartRun(n, stop, rte, scope, saved, c, m)
      BY <3>1, StartDeepens
    <3>3. ASSUME NEW x, NEW c, NEW t, Answers(x, c, t) \/ Throws(c, t)
          PROVE  UNCHANGED stack
      BY <3>3 DEF Answers, Throws
    <3>4. ASSUME NEW n \in Requests PROVE ~CallOriginal(n)
      BY <3>2 DEF CallOriginal
    <3>5. ASSUME NEW n \in Requests,
                 Execute(n) \/ ContinueCall(n) \/ CallOriginalSubroutine(n)
          PROVE  UNCHANGED stack
      BY <3>2, <3>3, <3>5 DEF Execute, ContinueCall, CallOriginalSubroutine
    <3>6. ASSUME NEW a \in Addr, NEW n \in Requests, CallInterrupt(a, n)
          PROVE  UNCHANGED stack
      BY <3>2, <3>3, <3>6 DEF CallInterrupt, RefusesFrame
    <3>7. ASSUME NEW a \in Addr, NEW boundary \in CallBoundary, NEW n \in Requests,
                 NEW given \in Given, Call(a, boundary, n, given)
          PROVE  UNCHANGED stack
      <4>1. ~ \E stop, c, m : StartCall(a, boundary, n, given, stop, c, m)
        BY <3>2 DEF StartCall
      <4> QED
        BY <3>3, <3>7, <4>1 DEF Call
    <3>8. ContinueOriginal => UNCHANGED stack
      BY DEF ContinueOriginal
    <3> QED
      BY <2>3, <2>5, <3>4, <3>5, <3>6, <3>7, <3>8 DEF TitleCall
  <2> QED
    BY <2>1, <2>2, <2>4, <2>5 DEF Next
<1> QED
  BY <1>1, InvInit, InvNext, PTL DEF Spec, InterruptUndone, Undone

-----------------------------------------------------------------------------
(* A call that starts no run.                                              *)

Traceless == mem' = mem /\ cpu' \in {cpu, Synchronized(cpu)}

(* The first word of a frame, written and put back, leaves the memory.     *)
LEMMA FrameTakenBack ==
  ASSUME NEW m \in Memory, NEW c, NEW at, NEW word \in Addr,
         ReadFault(at) = "None", ReadFault(at + 1) = "None",
         WriteFault(at, protected) = "None"
  PROVE  RestoredMem([cpu |-> c, at |-> at, sr |-> m[at], pc |-> m[at + 1]],
                     Stored(m, at, word)) = m
<1> DEFINE s == [cpu |-> c, at |-> at, sr |-> m[at], pc |-> m[at + 1]]
<1>1. at \in Cell /\ at + 1 \in Cell
  BY DEF ReadFault
<1>2. s.at = at /\ s.sr = m[at] /\ s.pc = m[at + 1]
  OBVIOUS
<1> HIDE DEF s
<1>3. Tried(Stored(m, at, word), at, m[at]) = m
  BY <1>1 DEF Tried, Stored, Memory
<1>4. Tried(m, at + 1, m[at + 1]) = m
  BY <1>1 DEF Tried, Stored, Memory
<1>5. RestoredMem(s, Stored(m, at, word)) = m
  BY <1>2, <1>3, <1>4 DEF RestoredMem
<1> QED
  BY <1>5 DEF s

LEMMA RefusedInterruptTraceless ==
  ASSUME Inv, UNCHANGED stack, NEW a \in Addr, NEW n \in Requests, CallInterrupt(a, n)
  PROVE  Traceless
<1> DEFINE c == Synchronized(cpu)
           at == c.ssp - 2
           word == IF c.super THEN SuperSR ELSE ZeroWord
           s == [cpu |-> c, at |-> at, sr |-> mem[at], pc |-> mem[at + 1]]
<1>1. \/ \E x : Answers(x, c, token)
      \/ /\ ReadFault(at) = "None" /\ ReadFault(at + 1) = "None"
         /\ WriteFault(at, protected) = "None"
         /\ \E fault : RefusesFrame(s, c, Stored(mem, at, word), fault)
      \/ \E saved, d, m : StartRun(n, None, TRUE, None, saved, d, m)
  BY DEF CallInterrupt
<1>2. word \in Addr /\ mem \in Memory
  BY InvParts, GuestAssumption
<1>3. RestoredMem(s, Stored(mem, at, word)) = mem
        \/ ~(/\ ReadFault(at) = "None" /\ ReadFault(at + 1) = "None"
             /\ WriteFault(at, protected) = "None")
  <2> HIDE DEF c, at, word
  <2> QED
    BY <1>2, FrameTakenBack DEF s
<1> HIDE DEF at, word, s
<1> QED
  BY <1>1, <1>3, StartDeepens DEF Answers, RefusesFrame, Traceless

(* A call that answers or throws without a run has touched nothing of the  *)
(* guest but its shadow stack pointer, in every memory and at every depth, *)
(* the interrupt whose frame is refused halfway included (call,            *)
(* call_interrupt and its restore_frame, continue_call).                   *)
THEOREM ExecutorRefusedCallUndone == Spec => RefusedCallUndone
<1> DEFINE Promise == TitleCall /\ stack' = stack => Traceless
<1>1. Inv /\ [Next]_vars => [Promise]_vars
  <2> SUFFICES ASSUME Inv, TitleCall, stack' = stack PROVE Traceless
    OBVIOUS
  <2>1. ~ \E n, stop, rte, scope, saved, c, m :
            StartRun(n, stop, rte, scope, saved, c, m)
    BY StartDeepens
  <2>2. ASSUME NEW x, NEW c \in {cpu, Synchronized(cpu)}, NEW t,
               Answers(x, c, t) \/ Throws(c, t)
        PROVE  Traceless
    BY <2>2 DEF Answers, Throws, Traceless
  <2>3. ASSUME NEW n \in Requests, Execute(n) \/ ContinueCall(n) PROVE Traceless
    BY <2>1, <2>2, <2>3 DEF Execute, ContinueCall
  <2>4. ASSUME NEW n \in Requests, CallOriginal(n) \/ CallOriginalSubroutine(n)
        PROVE  Traceless
    BY <2>1, <2>2, <2>4 DEF CallOriginal, CallOriginalSubroutine
  <2>5. ASSUME NEW a \in Addr, NEW boundary \in CallBoundary, NEW n \in Requests,
               NEW given \in Given, Call(a, boundary, n, given)
        PROVE  Traceless
    <3>1. ~ \E stop, c, m : StartCall(a, boundary, n, given, stop, c, m)
      BY <2>1 DEF StartCall
    <3> QED
      BY <2>2, <2>5, <3>1 DEF Call
  <2>6. ContinueOriginal => Traceless
    BY DEF ContinueOriginal, machine, Traceless
  <2> QED
    BY <2>3, <2>4, <2>5, <2>6, RefusedInterruptTraceless DEF TitleCall
<1> QED
  BY <1>1, InvInit, InvNext, PTL DEF Spec, RefusedCallUndone, Traceless

-----------------------------------------------------------------------------
(* What a turn of the run loop costs.                                      *)

Charges ==
  \/ Len(stack') # Len(stack)
  \/ stack' = [stack EXCEPT ![Len(stack)].count = @ + 1]

LEMMA LoopCharges ==
  ASSUME Inv, LoopShape
  PROVE  Charges
<1>1. stack \in Seq(Frame) /\ Len(stack) \in Nat /\ StackOK(stack)
  BY LenProperties DEF Inv, StackOK
<1>2. CASE HandlerEnter
  <2> DEFINE f == [kind |-> "handler"]
  <2>1. stack' = Append(stack, f) /\ f \in Frame
    BY <1>2 DEF HandlerEnter, Frame, HandlerFrame
  <2> HIDE DEF f
  <2>2. Len(stack') = Len(stack) + 1
    BY <1>1, <2>1, AppendProperties
  <2> QED
    BY <1>1, <2>2 DEF Charges
<1>3. CASE OverrideEnter
  BY <1>1, <1>3, EnteringDeepens DEF Charges
<1>4. CASE Counts
  <2>1. stack' = [stack EXCEPT ![Len(stack)] = [Top EXCEPT !.count = @ + 1]]
    BY <1>4 DEF Counts, Counted
  <2> QED
    BY <2>1 DEF Charges, Top
<1>5. ASSUME NEW x, Stops(x) PROVE Charges
  <2>1. stack # <<>> /\ stack' = PopBack(stack)
    BY <1>5 DEF Stops, Running
  <2>2. Len(stack') = Len(stack) - 1
    BY <1>1, <2>1, PopOK
  <2> QED
    BY <1>1, <2>2 DEF Charges
<1> QED
  BY <1>2, <1>3, <1>4, <1>5 DEF LoopShape

(* No turn of the run loop is free: a run that the guest keeps to itself   *)
(* is over once its budget is spent, whatever instructions it executes     *)
(* (run).                                                                  *)
THEOREM ExecutorRunLoopCharges == Spec => RunLoopCharges
<1> DEFINE Promise == Running => Charges
<1>1. Inv /\ [Next]_vars => [Promise]_vars
  BY OnlyTheRunLoopMoves, RunLoopShape, LoopCharges
<1> QED
  BY <1>1, InvInit, InvNext, PTL DEF Spec, RunLoopCharges, Charges

-----------------------------------------------------------------------------
(* The image that an identity names.                                       *)

(* Generations only go up, one at a time.                                  *)
LEMMA ImageMoves ==
  ASSUME Next
  PROVE  UNCHANGED image \/ image'.generation = image.generation + 1
<1>1. ASSUME NEW tag \in Tags, GuestStepReplacesImage(tag) \/ ReplaceImage(tag)
      PROVE  image'.generation = image.generation + 1
  BY <1>1 DEF GuestStepReplacesImage, ReplaceImage
<1>2. CASE CallbackEnds
  BY <1>2 DEF CallbackEnds, NativeContinues, NativeReturns, HandlerReturns,
              CallbackThrows, identityVars
<1>3. CASE RunLoop
  BY <1>1, <1>3 DEF RunLoop, RunStops, HandlerEnter, OverrideEnter, GuestStep, identityVars
<1>4. CASE TitleStep
  BY <1>1, <1>4
     DEF TitleStep, TitleWritesPc, TitleWritesA7, TitleReturnsForGuest, RegisterOverride,
         RemoveOverride, TitleProtects, SetBreakpoint, ClearBreakpoint, ClearBreakpoints,
         SetBreakpointHandler, identityVars
<1>5. CASE TitleCall
  BY <1>5 DEF TitleCall, Execute, ContinueCall, CallOriginal, CallOriginalSubroutine,
              CallInterrupt, Call, ContinueOriginal, Unmoved, identityVars
<1> QED
  BY <1>2, <1>3, <1>4, <1>5 DEF Next

(* An image seen once is never mistaken for one of a later generation.     *)
LEMMA SeenForGood ==
  ASSUME Inv, Inv', Next, NEW i \in Image, Seen(i)
  PROVE  Seen(i)'
<1>1. i.generation \in Int /\ image.generation \in Int
  BY InvParts DEF Image
<1> QED
  BY <1>1, ImageMoves DEF Seen

LEMMA CurrentIsSeen ==
  ASSUME Inv, Next
  PROVE  (image.generation < image'.generation) \/ image = image'
<1>1. image.generation \in Int
  BY InvParts
<1> QED
  BY <1>1, ImageMoves

(* The token a title keeps is the one a call wrote for it.                 *)
LEMMA TokenMoves ==
  ASSUME Next
  PROVE  \/ UNCHANGED token
         \/ ~token'.valid
         \/ token'.image = image /\ token'.owner = Last(active) /\ active # <<>>
<1>1. CASE RunLoop \/ CallbackEnds \/ TitleStep \/ ContinueOriginal
  BY <1>1
     DEF RunLoop, RunStops, HandlerEnter, OverrideEnter, GuestStep,
         GuestStepReplacesImage, CallbackEnds, NativeContinues, NativeReturns,
         HandlerReturns, CallbackThrows, TitleStep, TitleWritesPc, TitleWritesA7,
         TitleReturnsForGuest, ReplaceImage, RegisterOverride, RemoveOverride,
         TitleProtects, SetBreakpoint, ClearBreakpoint, ClearBreakpoints, SetBreakpointHandler,
         ContinueOriginal, replies
<1>2. ASSUME NEW n \in Requests,
             Execute(n) \/ ContinueCall(n) \/ CallOriginal(n)
               \/ CallOriginalSubroutine(n) \/ \E a \in Addr : CallInterrupt(a, n)
      PROVE  UNCHANGED token
  BY <1>2 DEF Execute, ContinueCall, CallOriginal, CallOriginalSubroutine,
              CallInterrupt, Answers, Throws, RefusesFrame, replies
<1>3. ASSUME NEW a \in Addr, NEW boundary \in CallBoundary, NEW n \in Requests,
             NEW given \in Given, Call(a, boundary, n, given)
      PROVE  \/ UNCHANGED token
             \/ ~token'.valid
             \/ token'.image = image /\ token'.owner = Last(active) /\ active # <<>>
  <2> DEFINE c == Synchronized(cpu)
             t == IF given = "kept" THEN NoToken ELSE token
  <2>1. ~NoToken.valid
    BY DEF NoToken
  <2>2. ASSUME NEW x, NEW d, Answers(x, d, t) \/ Throws(d, t)
        PROVE  UNCHANGED token \/ ~token'.valid
    BY <2>1, <2>2 DEF Answers, Throws
  <2>3. ASSUME NEW stop, NEW d, NEW m, stop = None \/ active # <<>>,
               StartCall(a, boundary, n, given, stop, d, m)
        PROVE  \/ UNCHANGED token
               \/ ~token'.valid
               \/ token'.image = image /\ token'.owner = Last(active) /\ active # <<>>
    BY <2>1, <2>3 DEF StartCall, TokenFor
  <2>4. \/ \E x, d : Answers(x, d, t) \/ Throws(d, t)
        \/ \E stop, d, m : /\ (stop = None \/ active # <<>>)
                            /\ StartCall(a, boundary, n, given, stop, d, m)
    <3>1. (Answers(MakeExit("NoImage", 0), cpu, t))
          \/ (\E d : Throws(d, t))
          \/ (\E fault : Answers(Faulted(MakeExit("MemoryFault", 0), fault), c, t))
          \/ (\E stop, d, m : StartCall(a, boundary, n, given, stop, d, m)
                               /\ active # <<>>)
          \/ StartCall(a, boundary, n, given, None, c, mem)
      BY <1>3 DEF Call
    <3> HIDE DEF c, t
    <3> QED
      BY <3>1
  <2> HIDE DEF c, t
  <2> QED
    BY <2>2, <2>3, <2>4
<1> QED
  BY <1>1, <1>2, <1>3 DEF Next, TitleCall

(* A run's authorization is the generation it had, or the current one.     *)
LEMMA AuthorizationMoves ==
  ASSUME Inv, Next, NEW i \in DOMAIN stack', stack'[i].kind = "run"
  PROVE  \/ stack'[i].auth = image.generation
         \/ i \in DOMAIN stack /\ stack[i].kind = "run" /\ stack'[i].auth = stack[i].auth
<1>1. /\ stack \in Seq(Frame) /\ Len(stack) \in Nat /\ StepShape
      /\ DOMAIN stack = 1..Len(stack)
  BY EveryStepHasAShape, LenProperties DEF Inv, StackOK
<1>2. CASE Still
  BY <1>2 DEF Still
<1>3. ASSUME NEW f \in Frame, stack' = Append(stack, f)
      PROVE  (i \in DOMAIN stack /\ stack'[i] = stack[i]) \/ stack'[i] = f
  <2>1. /\ DOMAIN stack' = 1..(Len(stack) + 1)
        /\ \A j \in 1..Len(stack) : stack'[j] = stack[j]
        /\ stack'[Len(stack) + 1] = f
    BY <1>1, <1>3, AppendProperties, LenProperties
  <2>2. i \in 1..Len(stack) \/ i = Len(stack) + 1
    BY <1>1, <2>1
  <2> QED
    BY <1>1, <2>1, <2>2
<1>4. ASSUME NEW f \in RunFrame, StartsRun(f)
      PROVE  \/ stack'[i].auth = image.generation
             \/ i \in DOMAIN stack /\ stack'[i] = stack[i]
  BY <1>3, <1>4 DEF StartsRun, Frame
<1>5. CASE HandlerEnter \/ OverrideEnter
  <2>1. PICK f \in Frame : stack' = Append(stack, f) /\ f.kind # "run"
    <3>1. /\ [kind |-> "handler"] \in Frame
          /\ [kind |-> "native", id |-> Identity] \in Frame
      BY InvParts DEF Frame, HandlerFrame, NativeFrame
    <3> QED
      BY <1>5, <3>1 DEF HandlerEnter, OverrideEnter
  <2> QED
    BY <1>3, <2>1
<1>6. ASSUME NEW k \in 0..Len(stack), stack' = SubSeq(stack, 1, k)
      PROVE  i \in DOMAIN stack /\ stack'[i] = stack[i]
  <2>1. Len(stack') = k
    BY <1>6, PrefixOK DEF Inv
  <2>2. DOMAIN stack' = 1..k
    BY <1>1, <1>6, <2>1
  <2> QED
    BY <1>1, <1>6, <2>2
<1>7. CASE Counts
  <2>1. Top \in RunFrame /\ Top.kind = "run"
    BY <1>7, CountedOK DEF Counts, Dispatching, Running
  <2>2. Counted(Top).auth = Top.auth
    BY <2>1 DEF Counted, RunFrame
  <2>3. i \in DOMAIN stack /\ stack'[i] = IF i = Len(stack) THEN Counted(Top) ELSE stack[i]
    BY <1>7 DEF Counts
  <2> QED
    BY <2>1, <2>2, <2>3 DEF Top
<1>8. CASE \E x : Stops(x)
  <2>1. Len(stack) - 1 \in 0..Len(stack) /\ stack' = PopBack(stack)
    BY <1>1, <1>8, TopOK DEF Stops, Running
  <2> QED
    BY <1>6, <2>1 DEF PopBack
<1>9. ASSUME NEW x, NativeContinues(x)
      PROVE  \/ stack'[i].auth = image.generation
             \/ i \in DOMAIN stack /\ stack'[i] = stack[i]
  <2> DEFINE p == PopBack(stack)
  <2>1. stack # <<>> /\ Top.kind = "native"
    BY <1>9 DEF NativeContinues, InNative
  <2>2. /\ Caller \in RunFrame
        /\ Len(p) = Len(stack) - 1 /\ p \in Seq(Frame)
        /\ \A j \in 1..(Len(stack) - 1) : p[j] = stack[j]
    BY <1>1, <2>1, TopOK, PopBackType
  <2>3. stack' = [p EXCEPT ![Len(stack) - 1] = Reauthorized(Caller)]
    BY <1>9 DEF NativeContinues
  <2> HIDE DEF p
  <2>4. DOMAIN stack' = 1..(Len(stack) - 1)
    BY <1>1, <2>2, <2>3
  <2>5. stack'[i] = IF i = Len(stack) - 1 THEN Reauthorized(Caller) ELSE stack[i]
    BY <2>2, <2>3, <2>4
  <2>6. Reauthorized(Caller).auth = image.generation
    BY <2>2 DEF Reauthorized, RunFrame
  <2> QED
    BY <1>1, <2>4, <2>5, <2>6
<1>10. CASE CallbackEnds
  <2>1. Len(stack) - 2 \in 0..Len(stack)
    BY <1>10, CallbackAbove
  <2>2. (\E x \in NativeResults : NativeContinues(x)) \/ stack' = BelowCaller
    BY <1>10 DEF CallbackEnds, NativeReturns, HandlerReturns, CallbackThrows, EndRun
  <2> QED
    BY <1>6, <1>9, <2>1, <2>2 DEF BelowCaller
<1> QED
  BY <1>1, <1>2, <1>4, <1>5, <1>7, <1>8, <1>10 DEF StepShape

LEMMA GenerationNext ==
  ASSUME Inv, Inv', Next, GenerationNamesImage, PendingIsCurrent'
  PROVE  GenerationNamesImage'
<1> DEFINE Known == Range(active) \union Range(suppressions)
<1>1. /\ active \in Seq(ExecutionIdentity) /\ suppressions \in Seq(ExecutionIdentity)
      /\ \A id \in ExecutionIdentity : id.image \in Image
      /\ Identity \in ExecutionIdentity /\ Identity.image = image
  BY InvParts DEF ExecutionIdentity, Identity
<1>2. \A id \in Known : id \in ExecutionIdentity
  BY <1>1, ElementOfSeq, LenProperties DEF Range
<1>3. \A id \in Known : Seen(id.image)'
  BY <1>1, <1>2, SeenForGood DEF GenerationNamesImage
<1>4. \A i \in Image : i = image => Seen(i)'
  BY CurrentIsSeen DEF Seen
<1>5. \A id \in ExecutionIdentity : id = Identity => Seen(id.image)'
  BY <1>1, <1>4
<1>6. \A id \in Range(active') \union Range(suppressions') : Seen(id.image)'
  <2> SUFFICES ASSUME NEW id, id \in Range(active') \union Range(suppressions')
               PROVE  Seen(id.image)'
    OBVIOUS
  <2>1. id \in Known \/ id = Identity
    BY HeldOver, EveryStepHasAShape
  <2> QED
    BY <1>1, <1>3, <1>5, <2>1
<1>7. (pending # None => Seen(pending.image))'
  BY DEF PendingIsCurrent, Seen
<1>8. (token.valid => Seen(token.image) /\ Seen(token.owner.image))'
  <2>1. token.image \in Image /\ token.owner.image \in Image /\ image \in Image
    BY InvParts DEF CallContinuation, ExecutionIdentity
  <2>2. CASE UNCHANGED token
    <3>1. ASSUME token.valid, NEW i \in Image, i \in {token.image, token.owner.image}
          PROVE  Seen(i)'
      <4>1. Seen(i)
        BY <3>1 DEF GenerationNamesImage
      <4> QED
        BY <4>1, SeenForGood
    <3>2. token.valid => \A i \in Image :
             i \in {token'.image, token'.owner.image} => Seen(i)'
      BY <2>2, <3>1
    <3>3. token'.image \in Image /\ token'.owner.image \in Image /\ token'.valid = token.valid
      BY <2>1, <2>2
    <3> QED
      BY <3>2, <3>3
  <2>3. CASE token'.image = image /\ token'.owner = Last(active) /\ active # <<>>
    <3>1. Last(active) \in Known
      BY <1>1, <2>3, LastInRange
    <3>2. \A id \in Known : id = Last(active) => Seen(id.image)'
      BY <1>3
    <3>3. \A i \in Image : i = token'.image => Seen(i)'
      BY <1>4, <2>3
    <3>4. \A id \in Known : id = token'.owner => Seen(id.image)'
      BY <2>3, <3>2
    <3>5. token'.image \in Image /\ token'.owner \in Known
      BY <2>1, <2>3, <3>1
    <3> QED
      BY <3>3, <3>4, <3>5
  <2> QED
    BY <2>2, <2>3, TokenMoves
<1>9. (\A i \in DOMAIN stack :
         stack[i].kind = "run" => stack[i].auth <= image.generation)'
  <2> SUFFICES ASSUME NEW i \in DOMAIN stack', stack'[i].kind = "run"
               PROVE  stack'[i].auth <= image'.generation
    OBVIOUS
  <2>1. /\ image.generation \in Int /\ image'.generation \in Int
        /\ image.generation <= image'.generation
    BY InvParts, ImageMoves
  <2>2. CASE stack'[i].auth = image.generation
    BY <2>1, <2>2
  <2>3. CASE i \in DOMAIN stack /\ stack[i].kind = "run" /\ stack'[i].auth = stack[i].auth
    <3>1. stack[i] \in RunFrame
      BY <2>3, FrameKinds, ElementOfSeq, LenProperties DEF Inv, StackOK
    <3>2. stack[i].auth \in Int /\ stack[i].auth <= image.generation
      BY <2>3, <3>1, IdentityAssumption DEF RunFrame, GenerationNamesImage
    <3> QED
      BY <2>1, <2>3, <3>2
  <2> QED
    BY <2>2, <2>3, AuthorizationMoves
<1> QED
  BY <1>6, <1>7, <1>8, <1>9 DEF GenerationNamesImage

(* Wherever the executor keeps an identity or a generation, it keeps one   *)
(* that was current once and, if its generation is the current one, the    *)
(* current image: comparing generations, as run does, or identities, as    *)
(* find and continue_call do, never confuses two images, for any number of *)
(* replacements (replace_image; ImageIdentity).                            *)
THEOREM ExecutorGenerationNamesImage == Spec => []GenerationNamesImage
<1>1. Init => GenerationNamesImage
  BY DEF Init, RegistryInit, NoToken, GenerationNamesImage, Range
<1>2. Inv /\ Inv' /\ GenerationNamesImage /\ PendingIsCurrent' /\ [Next]_vars
        => GenerationNamesImage'
  <2>1. CASE UNCHANGED vars
    BY <2>1 DEF vars, registryVars, identityVars, replies, GenerationNamesImage, Seen
  <2> QED
    BY <2>1, GenerationNext
<1> QED
  BY <1>1, <1>2, InvInit, InvNext, ExecutorPendingIsCurrent, PTL DEF Spec
=============================================================================
