---------------------------- MODULE ExecutorSteps ----------------------------
(***************************************************************************)
(* What a step of the executor may do to the call stack, to the two scope  *)
(* stacks and to the last exit: one of the shapes below.  The refinement   *)
(* of BoundedRuns and the proofs about scopes go by shape, not by call.    *)
(***************************************************************************)
EXTENDS ExecutorProofs

Refused == {"NoImage", "MemoryFault", "ImageReplaced", "NativeOverride"}

(* No activation begins or ends; a call may be answered without a run.     *)
Still ==
  /\ UNCHANGED <<stack, active, suppressions>>
  /\ \/ exit' = exit
     \/ HostTurn /\ exit'.reason \in Refused /\ exit'.instructions = 0

(* The host starts a run, suppressing the innermost override or nothing.   *)
StartsRun(f) ==
  /\ HostTurn
  /\ f.count = 0
  /\ f.auth = image.generation
  /\ f.scope # None => f.scope = Last(active) /\ active # <<>>
  /\ stack' = Append(stack, f)
  /\ suppressions' =
       IF f.scope = None THEN suppressions ELSE Append(suppressions, f.scope)
  /\ UNCHANGED <<active, exit>>

(* The run on top retires an instruction and goes on.                      *)
Counts ==
  /\ Dispatching
  /\ stack' = [stack EXCEPT ![Len(stack)] = Counted(Top)]
  /\ UNCHANGED <<active, suppressions, exit>>

(* How a run may end without a callback.                                   *)
OwnExit(f, x) ==
  \/ /\ f.count = f.budget
     /\ x.reason = "InstructionBudget" /\ x.instructions = f.count
  \/ /\ f.count < f.budget
     /\ x.reason \in {"Halted", "ImageReplaced", "ReturnToHost", "Breakpoint",
                      "MemoryFault", "Exception"}
     /\ x.reason = "Breakpoint" => f.count > 0
     /\ x.instructions = f.count
  \/ /\ f.count < f.budget
     /\ x.reason \in {"Exception", "ReturnToHost"}
     /\ x.instructions = f.count + 1

Stops(x) ==
  /\ Running
  /\ OwnExit(Top, x)
  /\ stack' = PopBack(stack)
  /\ suppressions' = IF Top.scope = None THEN suppressions ELSE PopBack(suppressions)
  /\ exit' = x
  /\ UNCHANGED active

(* One turn of the run loop.                                               *)
LoopShape ==
  \/ HandlerEnter
  \/ OverrideEnter
  \/ Counts
  \/ \E x : Stops(x)

StepShape ==
  \/ Still
  \/ \E f \in RunFrame : StartsRun(f)
  \/ HandlerEnter
  \/ OverrideEnter
  \/ Counts
  \/ \E x : Stops(x)
  \/ CallbackEnds

-----------------------------------------------------------------------------
(* The entries of a stack of scopes.                                       *)

LEMMA RangeOfAppend ==
  ASSUME NEW S, NEW q \in Seq(S), NEW v \in S
  PROVE  Range(Append(q, v)) = Range(q) \union {v}
<1> DEFINE p == Append(q, v)
<1>1. /\ Len(q) \in Nat /\ DOMAIN q = 1..Len(q) /\ DOMAIN p = 1..(Len(q) + 1)
      /\ \A i \in 1..Len(q) : p[i] = q[i]
      /\ p[Len(q) + 1] = v
  BY LenProperties, AppendProperties
<1> HIDE DEF p
<1>2. 1..(Len(q) + 1) = 1..Len(q) \union {Len(q) + 1}
  BY <1>1
<1>3. Range(p) = Range(q) \union {v}
  BY <1>1, <1>2 DEF Range
<1> QED
  BY <1>3 DEF p

LEMMA RangeOfPop ==
  ASSUME NEW S, NEW q \in Seq(S)
  PROVE  Range(PopBack(q)) \subseteq Range(q)
<1>1. CASE q = <<>>
  BY <1>1 DEF PopBack, Range
<1>2. CASE q # <<>>
  <2>1. /\ PopBack(q) \in Seq(S) /\ Len(PopBack(q)) = Len(q) - 1
        /\ \A i \in 1..(Len(q) - 1) : PopBack(q)[i] = q[i]
    BY <1>2, PopBackType
  <2>2. /\ DOMAIN PopBack(q) = 1..(Len(q) - 1) /\ DOMAIN q = 1..Len(q)
        /\ Len(q) \in Nat
    BY <2>1, LenProperties
  <2>3. \A i \in 1..(Len(q) - 1) : i \in 1..Len(q)
    BY <2>2
  <2> QED
    BY <2>1, <2>2, <2>3 DEF Range
<1> QED
  BY <1>1, <1>2

LEMMA LastInRange ==
  ASSUME NEW S, NEW q \in Seq(S), q # <<>>
  PROVE  Last(q) \in Range(q) /\ Len(q) \in DOMAIN q
<1>1. Len(q) \in Nat /\ Len(q) # 0 /\ DOMAIN q = 1..Len(q)
  BY LenProperties, EmptySeq
<1> QED
  BY <1>1 DEF Last, Range

-----------------------------------------------------------------------------
(* The run loop.                                                           *)
LEMMA RunStopsShape == Inv /\ RunStops => \E x : Stops(x)
<1> SUFFICES ASSUME Inv, RunStops PROVE \E x : Stops(x)
  OBVIOUS
<1> DEFINE x == MakeExit(HeadReason(Top), Top.count)
<1>1. /\ Top \in RunFrame /\ Top.count <= Top.budget
      /\ Top.count \in 0..MaxSlice /\ Top.budget \in 1..MaxSlice
  BY TopOK DEF RunStops, Running, RunFrame, Within
<1>2. x.reason = HeadReason(Top) /\ x.instructions = Top.count
  BY DEF MakeExit
<1>3. OwnExit(Top, x)
  BY <1>1, <1>2, ExecutorAssumption
     DEF RunStops, HeadReason, Spent, AtBreakpoint, OwnExit
<1> QED
  BY <1>3 DEF RunStops, EndRun, Stops

LEMMA StepEndsShape ==
  ASSUME Inv, Dispatching, NEW out, NEW x, NEW c, StepEnds(out, x, c), OwnExit(Top, x),
         UNCHANGED active
  PROVE  \E y : Stops(y)
BY DEF StepEnds, EndRun, Stops, Dispatching

LEMMA GuestStepShape ==
  ASSUME Inv, Dispatching, UNCHANGED active, NEW out \in CoreOutcome,
         \/ StepContinues(out) \/ StepFaults(out) \/ StepTraps(out)
         \/ StepReturnsFromInterrupt(out) \/ StepHalts(out)
  PROVE  LoopShape
<1>1. Top \in RunFrame /\ Top.count < Top.budget /\ Top.count \in Nat
  BY CountedOK, ExecutorAssumption
     DEF Dispatching, HeadReason, Spent, RunFrame
<1>2. \A r, n : /\ MakeExit(r, n).reason = r /\ MakeExit(r, n).instructions = n
                /\ \A fault : /\ Faulted(MakeExit(r, n), fault).reason = r
                              /\ Faulted(MakeExit(r, n), fault).instructions = n
  BY DEF MakeExit, Faulted
<1>3. CASE StepContinues(out)
  BY <1>3 DEF StepContinues, Counts, LoopShape
<1>4. CASE StepFaults(out)
  BY <1>1, <1>2, <1>4, StepEndsShape DEF StepFaults, OwnExit, LoopShape
<1>5. CASE StepTraps(out)
  <2>2. PICK n \in {Top.count, Top.count + 1} :
          \E c : StepEnds(out, MakeExit("Exception", n), c)
    BY <1>5 DEF StepTraps
  <2>1. PICK c : StepEnds(out, MakeExit("Exception", n), c)
    BY <2>2
  <2> QED
    BY <1>1, <1>2, <2>1, StepEndsShape DEF OwnExit, LoopShape
<1>6. CASE StepReturnsFromInterrupt(out)
  BY <1>1, <1>2, <1>6, StepEndsShape DEF StepReturnsFromInterrupt, OwnExit, LoopShape
<1>7. CASE StepHalts(out)
  BY <1>1, <1>2, <1>7, StepEndsShape DEF StepHalts, OwnExit, LoopShape
<1> QED
  BY <1>3, <1>4, <1>5, <1>6, <1>7

LEMMA RunLoopShape == Inv /\ RunLoop => LoopShape
<1> SUFFICES ASSUME Inv, RunLoop PROVE LoopShape
  OBVIOUS
<1>1. CASE RunStops
  BY <1>1, RunStopsShape DEF LoopShape
<1>2. CASE HandlerEnter \/ OverrideEnter
  BY <1>2 DEF LoopShape
<1>3. CASE CoreSteps /\ UNCHANGED active
  <2>1. PICK out \in CoreStep(cpu, mem, protected) :
          \/ StepContinues(out) \/ StepFaults(out) \/ StepTraps(out)
          \/ StepReturnsFromInterrupt(out) \/ StepHalts(out)
    BY <1>3 DEF CoreSteps
  <2>2. out \in CoreOutcome /\ Dispatching
    BY <1>3, InvParts, CoreStepType DEF CoreSteps
  <2> QED
    BY <1>3, <2>1, <2>2, GuestStepShape
<1>4. CASE GuestStep
  BY <1>3, <1>4 DEF GuestStep
<1>5. ASSUME NEW tag \in Tags, GuestStepReplacesImage(tag) PROVE LoopShape
  BY <1>3, <1>5 DEF GuestStepReplacesImage
<1> QED
  BY <1>1, <1>2, <1>4, <1>5 DEF RunLoop

-----------------------------------------------------------------------------
(* The title.                                                              *)
LEMMA TitleStepShape == TitleStep => Still
BY DEF TitleStep, TitleWritesPc, TitleWritesA7, TitleReturnsForGuest, ReplaceImage,
       RegisterOverride, RemoveOverride, TitleProtects, SetBreakpoint, ClearBreakpoint,
       ClearBreakpoints, SetBreakpointHandler, registryVars, replies, Still

LEMMA AnswersShape ==
  ASSUME HostTurn, UNCHANGED active, NEW x, NEW c, NEW t, Answers(x, c, t),
         (x.reason \in Refused /\ x.instructions = 0) \/ x = exit
  PROVE  Still
BY DEF Answers, Still

(* The frame's type is known from the state after the step.                *)
LEMMA StartRunShape ==
  ASSUME Inv, Inv', HostTurn, UNCHANGED <<active, exit>>,
         NEW n, NEW stop, NEW rte, NEW scope, NEW saved, NEW c, NEW m,
         scope # None => scope = Last(active) /\ active # <<>>,
         StartRun(n, stop, rte, scope, saved, c, m)
  PROVE  \E f \in RunFrame : StartsRun(f)
<1> DEFINE f == [kind |-> "run", request |-> n, budget |-> Effective(n), count |-> 0,
                 auth |-> image.generation, stop |-> stop, rte |-> rte,
                 scope |-> scope, saved |-> saved]
<1>1. f.kind = "run" /\ f.count = 0 /\ f.scope = scope /\ f.auth = image.generation
  OBVIOUS
<1>2. stack' = Append(stack, f)
  BY DEF StartRun
<1>3. StartsRun(f)
  BY DEF StartRun, StartsRun
<1> HIDE DEF f
<1>4. stack \in Seq(Frame) /\ Len(stack) \in Nat
  BY LenProperties DEF Inv, StackOK
<1>5. Len(stack') = Len(stack) + 1 /\ stack'[Len(stack) + 1] = f
  BY <1>2, <1>4
<1>6. f \in Frame
  BY <1>4, <1>5, ElementOfSeq DEF Inv, StackOK
<1> QED
  BY <1>1, <1>3, <1>6, FrameKinds

LEMMA RefusalReasons ==
  \A r, fault : /\ MakeExit(r, 0).reason = r /\ MakeExit(r, 0).instructions = 0
                /\ Faulted(MakeExit(r, 0), fault).reason = r
                /\ Faulted(MakeExit(r, 0), fault).instructions = 0
BY DEF MakeExit, Faulted

LEMMA TitleCallShape ==
  ASSUME Inv, Inv', TitleCall
  PROVE  StepShape
<1> DEFINE c == Synchronized(cpu)
<1>1. HostTurn /\ UNCHANGED active
  BY DEF TitleCall, May, Unmoved, Execute, ContinueCall, CallOriginal,
         CallOriginalSubroutine, CallInterrupt, Call, ContinueOriginal
<1>2. ASSUME NEW r \in Refused, NEW d, NEW t, NEW fault,
             Answers(MakeExit(r, 0), d, t) \/ Answers(Faulted(MakeExit(r, 0), fault), d, t)
      PROVE  StepShape
  BY <1>1, <1>2, AnswersShape, RefusalReasons DEF StepShape
<1>3. ASSUME NEW d, NEW t, Throws(d, t) PROVE StepShape
  BY <1>1, <1>3, AnswersShape DEF Throws, StepShape
<1>4. ASSUME NEW n, NEW stop, NEW rte, NEW scope, NEW saved, NEW d, NEW m,
             scope # None => scope = Last(active) /\ active # <<>>,
             StartRun(n, stop, rte, scope, saved, d, m), UNCHANGED exit
      PROVE  StepShape
  BY <1>1, <1>4, StartRunShape DEF StepShape
<1>5. ASSUME NEW n \in Requests, Execute(n) PROVE StepShape
  BY <1>2, <1>3, <1>4, <1>5 DEF Execute, replies, Refused
<1>6. ASSUME NEW n \in Requests, ContinueCall(n) PROVE StepShape
  <2> DEFINE scope == IF token.boundary = "GuestSubroutine" THEN Last(active) ELSE None
  <2>1. scope # None => scope = Last(active) /\ active # <<>>
    BY <1>6 DEF ContinueCall
  <2>2. \/ Answers(MakeExit("ImageReplaced", 0), cpu, token)
        \/ \E d : Throws(d, token)
        \/ StartRun(n, token.return_pc, FALSE, scope, None, c, mem) /\ UNCHANGED replies
    BY <1>6 DEF ContinueCall
  <2> HIDE DEF c, scope
  <2> QED
    BY <1>2, <1>3, <1>4, <2>1, <2>2 DEF replies, Refused
<1>7. ASSUME NEW n \in Requests, CallOriginal(n) PROVE StepShape
  BY <1>4, <1>7 DEF CallOriginal, replies
<1>8. ASSUME NEW n \in Requests, CallOriginalSubroutine(n) PROVE StepShape
  BY <1>2, <1>4, <1>8 DEF CallOriginalSubroutine, replies, Refused
<1>9. ASSUME NEW a \in Addr, NEW n \in Requests, CallInterrupt(a, n) PROVE StepShape
  <2>1. \/ \E fault : Answers(Faulted(MakeExit("MemoryFault", 0), fault), c, token)
        \/ \E s, m, fault : RefusesFrame(s, c, m, fault)
        \/ \E saved, d, m : StartRun(n, None, TRUE, None, saved, d, m) /\ UNCHANGED replies
    BY <1>9 DEF CallInterrupt
  <2>2. ASSUME NEW s, NEW m, NEW fault, RefusesFrame(s, c, m, fault) PROVE StepShape
    BY <1>1, <2>2, RefusalReasons DEF RefusesFrame, Still, StepShape, Refused
  <2> HIDE DEF c
  <2> QED
    BY <1>2, <1>4, <2>1, <2>2 DEF replies, Refused
<1>10. ASSUME NEW a \in Addr, NEW boundary \in CallBoundary, NEW n \in Requests,
              NEW given \in Given, Call(a, boundary, n, given)
       PROVE  StepShape
  <2> DEFINE t == IF given = "kept" THEN NoToken ELSE token
             scope == IF active # <<>> /\ boundary # "HostSubroutine"
                      THEN Last(active) ELSE None
  <2>1. scope # None => scope = Last(active) /\ active # <<>>
    OBVIOUS
  <2>2. \/ Answers(MakeExit("NoImage", 0), cpu, t)
        \/ \E d : Throws(d, t)
        \/ \E fault : Answers(Faulted(MakeExit("MemoryFault", 0), fault), c, t)
        \/ \E stop, d, m : StartCall(a, boundary, n, given, stop, d, m)
    BY <1>10 DEF Call
  <2>3. ASSUME NEW stop, NEW d, NEW m, StartCall(a, boundary, n, given, stop, d, m)
        PROVE  \E e : StartRun(n, stop, FALSE, scope, None, e, m) /\ UNCHANGED exit
    BY <2>3 DEF StartCall
  <2> HIDE DEF c, t, scope
  <2> QED
    BY <1>2, <1>3, <1>4, <2>1, <2>2, <2>3 DEF Refused
<1>11. CASE ContinueOriginal
  <2>1. exit'.reason = "NativeOverride" /\ exit'.instructions = 0
    BY <1>11 DEF ContinueOriginal, MakeExit
  <2> QED
    BY <1>1, <1>11, <2>1 DEF ContinueOriginal, registryVars, Still, StepShape, Refused
<1> QED
  BY <1>5, <1>6, <1>7, <1>8, <1>9, <1>10, <1>11 DEF TitleCall

(* A callback that ends sits on a run.                                     *)
LEMMA CallbackAbove ==
  ASSUME Inv, CallbackEnds
  PROVE  /\ stack # <<>> /\ Top.kind \in {"native", "handler"}
         /\ Caller \in RunFrame /\ Len(stack) - 2 \in 0..Len(stack)
<1>1. stack # <<>> /\ Top.kind # "run"
  BY DEF CallbackEnds, NativeContinues, NativeReturns, InNative, HandlerReturns,
         CallbackThrows
<1>2. Top.kind \in {"native", "handler"} /\ Caller \in RunFrame /\ Len(stack) \in Nat
  BY <1>1, TopOK, FrameKinds
<1>3. Len(stack) > 1
  BY <1>1, <1>2, TopOK DEF Inv, StackOK, Top
<1> QED
  BY <1>1, <1>2, <1>3

(* Every step from a reachable state has one of the shapes.                *)
LEMMA EveryStepHasAShape ==
  ASSUME Inv, Next
  PROVE  StepShape
<1>1. Inv'
  BY InvNext
<1>2. CASE RunLoop
  BY <1>2, RunLoopShape DEF LoopShape, StepShape
<1>3. CASE CallbackEnds
  BY <1>3 DEF StepShape
<1>4. CASE TitleStep
  BY <1>4, TitleStepShape DEF StepShape
<1>5. CASE TitleCall
  BY <1>1, <1>5, TitleCallShape
<1> QED
  BY <1>2, <1>3, <1>4, <1>5 DEF Next

-----------------------------------------------------------------------------
(* Who moves.                                                              *)

(* While a run is on top of the stack, the title cannot move.              *)
LEMMA OnlyTheRunLoopMoves ==
  ASSUME Next, Running
  PROVE  RunLoop
<1>1. ~HostTurn /\ stack # <<>> /\ Top.kind = "run"
  BY DEF HostTurn, Running
<1>2. ~CallbackEnds
  BY <1>1 DEF CallbackEnds, NativeContinues, NativeReturns, InNative, HandlerReturns,
              CallbackThrows
<1>3. ~TitleStep
  BY <1>1 DEF TitleStep, May, TitleWritesPc, TitleWritesA7, TitleReturnsForGuest,
              ReplaceImage, RegisterOverride, RemoveOverride, TitleProtects,
              SetBreakpoint, ClearBreakpoint, ClearBreakpoints, SetBreakpointHandler
<1>4. ~TitleCall
  BY <1>1 DEF TitleCall, May, Execute, ContinueCall, CallOriginal,
              CallOriginalSubroutine, CallInterrupt, Call, ContinueOriginal
<1> QED
  BY <1>2, <1>3, <1>4 DEF Next

(* A run that dispatches steps the guest or enters an override.            *)
LEMMA DispatchIsAStep ==
  ASSUME Next, Running, HeadReason(Top) = "Dispatch"
  PROVE  \/ GuestStep \/ OverrideEnter
         \/ \E tag \in Tags : GuestStepReplacesImage(tag)
<1>1. RunLoop
  BY OnlyTheRunLoopMoves
<1> QED
  BY <1>1 DEF RunLoop, RunStops, HandlerEnter

(* Entering an override deepens the stack.                                 *)
LEMMA EnteringDeepens ==
  ASSUME Inv, OverrideEnter
  PROVE  ~(Len(stack') <= Len(stack))
<1> DEFINE f == [kind |-> "native", id |-> Identity]
<1>1. f \in Frame
  BY InvParts DEF Frame, NativeFrame
<1>2. Len(Append(stack, f)) = Len(stack) + 1 /\ Len(stack) \in Nat
  BY <1>1, AppendProperties, LenProperties DEF Inv, StackOK
<1>3. stack' = Append(stack, f)
  BY DEF OverrideEnter
<1> HIDE DEF f
<1> QED
  BY <1>2, <1>3

-----------------------------------------------------------------------------
(* A step adds nothing to the two scope stacks but the override it enters. *)
LEMMA HeldOver ==
  ASSUME Inv, StepShape
  PROVE  Range(active') \union Range(suppressions')
           \subseteq Range(active) \union Range(suppressions) \union {Identity}
<1>1. /\ active \in Seq(ExecutionIdentity) /\ suppressions \in Seq(ExecutionIdentity)
      /\ Identity \in ExecutionIdentity
  BY InvParts
<1>2. /\ Range(PopBack(active)) \subseteq Range(active)
      /\ Range(PopBack(suppressions)) \subseteq Range(suppressions)
      /\ PopBack(suppressions) \in Seq(ExecutionIdentity)
  BY <1>1, RangeOfPop, PopBackType
<1>3. Range(PopBack(PopBack(suppressions))) \subseteq Range(suppressions)
  BY <1>2, RangeOfPop
<1>4. CASE Still \/ Counts \/ HandlerEnter
  BY <1>4 DEF Still, Counts, HandlerEnter, registryVars
<1>5. ASSUME NEW f \in RunFrame, StartsRun(f)
      PROVE  /\ Range(suppressions') \subseteq Range(active) \union Range(suppressions)
             /\ active' = active
  <2>1. CASE f.scope = None
    BY <1>5, <2>1 DEF StartsRun
  <2>2. CASE f.scope # None
    <3>1. f.scope \in Range(active) /\ f.scope \in ExecutionIdentity
      BY <1>1, <1>5, <2>2, LastInRange, LastActiveType DEF StartsRun
    <3>2. suppressions' = Append(suppressions, f.scope) /\ active' = active
      BY <1>5, <2>2 DEF StartsRun
    <3>3. Range(suppressions') = Range(suppressions) \union {f.scope}
      BY <1>1, <3>1, <3>2, RangeOfAppend
    <3> QED
      BY <3>1, <3>2, <3>3
  <2> QED
    BY <2>1, <2>2
<1>6. CASE OverrideEnter
  <2>1. active' = Append(active, Identity) /\ suppressions' = Append(suppressions, Identity)
    BY <1>6 DEF OverrideEnter
  <2>2. /\ Range(active') = Range(active) \union {Identity}
        /\ Range(suppressions') = Range(suppressions) \union {Identity}
    BY <1>1, <2>1, RangeOfAppend
  <2> QED
    BY <2>2
<1>7. CASE \E x : Stops(x)
  BY <1>2, <1>7 DEF Stops
<1>8. CASE CallbackEnds
  <2>1. active' \in {active, PopBack(active)}
    BY <1>8 DEF CallbackEnds, NativeContinues, NativeReturns, HandlerReturns, CallbackThrows
  <2>2. suppressions' \in {suppressions, PopBack(suppressions),
                          PopBack(PopBack(suppressions))}
    BY <1>8 DEF CallbackEnds, NativeContinues, NativeReturns, HandlerReturns,
                CallbackThrows, EndRun
  <2> QED
    BY <1>2, <1>3, <2>1, <2>2
<1> QED
  BY <1>4, <1>5, <1>6, <1>7, <1>8 DEF StepShape
=============================================================================
