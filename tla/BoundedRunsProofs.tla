-------------------------- MODULE BoundedRunsProofs --------------------------
(***************************************************************************)
(* The executor implements BoundedRuns, for every slice limit, every set   *)
(* of requests and every depth of nesting.  The abstract stack of calls is *)
(* the executor's stack, frame by frame, so each shape of step maps to one *)
(* abstract action or to a stutter.                                        *)
(***************************************************************************)
EXTENDS ExecutorSteps

Shows == {Shown(f) : f \in Frame}

LEMMA CallsSeq ==
  ASSUME NEW s \in Seq(Frame)
  PROVE  /\ Calls(s) \in Seq(Shows) /\ Len(Calls(s)) = Len(s) /\ Len(s) \in Nat
         /\ DOMAIN Calls(s) = 1..Len(s)
         /\ \A i \in 1..Len(s) : Calls(s)[i] = Shown(s[i]) /\ s[i] \in Frame
         /\ s = <<>> <=> Len(s) = 0
         /\ Calls(s) = <<>> <=> Len(s) = 0
<1>1. Len(s) \in Nat /\ DOMAIN s = 1..Len(s) /\ \A i \in 1..Len(s) : s[i] \in Frame
  BY LenProperties, ElementOfSeq
<1>2. \A i \in 1..Len(s) : Shown(s[i]) \in Shows
  BY <1>1 DEF Shows
<1>3. Calls(s) = [i \in 1..Len(s) |-> Shown(s[i])]
  BY <1>1 DEF Calls
<1>4. Calls(s) \in [1..Len(s) -> Shows]
  BY <1>2, <1>3
<1>5. Calls(s) \in Seq(Shows)
  BY <1>1, <1>4, SeqDef
<1>6. DOMAIN Calls(s) = 1..Len(Calls(s)) /\ Len(Calls(s)) \in Nat
  BY <1>5, LenProperties
<1>7. Len(Calls(s)) = Len(s)
  BY <1>1, <1>4, <1>6
<1> QED
  BY <1>1, <1>3, <1>5, <1>6, <1>7, EmptySeq

LEMMA CallsAppend ==
  ASSUME NEW s \in Seq(Frame), NEW f \in Frame
  PROVE  Calls(Append(s, f)) = Append(Calls(s), Shown(f))
<1> DEFINE p == Append(s, f)
           q == Append(Calls(s), Shown(f))
<1>1. /\ p \in Seq(Frame) /\ Len(p) = Len(s) + 1
      /\ \A i \in 1..Len(s) : p[i] = s[i]
      /\ p[Len(s) + 1] = f
  BY AppendProperties
<1>2. Shown(f) \in Shows
  BY DEF Shows
<1>3. /\ q \in Seq(Shows) /\ Len(q) = Len(s) + 1
      /\ \A i \in 1..Len(s) : q[i] = Calls(s)[i]
      /\ q[Len(s) + 1] = Shown(f)
  BY <1>2, CallsSeq, AppendProperties
<1> HIDE DEF p, q
<1>4. /\ Calls(p) \in Seq(Shows) /\ Len(Calls(p)) = Len(p)
      /\ \A i \in 1..Len(p) : Calls(p)[i] = Shown(p[i])
  BY <1>1, CallsSeq
<1>5. \A i \in 1..Len(p) : Calls(p)[i] = q[i]
  <2> SUFFICES ASSUME NEW i \in 1..Len(p) PROVE Calls(p)[i] = q[i]
    OBVIOUS
  <2>1. i \in 1..Len(s) \/ i = Len(s) + 1
    BY <1>1, LenProperties
  <2>2. \A k \in 1..Len(s) : Calls(s)[k] = Shown(s[k])
    BY CallsSeq
  <2> QED
    BY <1>1, <1>3, <1>4, <2>1, <2>2
<1>6. Calls(p) = q
  BY <1>1, <1>3, <1>4, <1>5, SeqEqual
<1> QED
  BY <1>6 DEF p, q

LEMMA CallsPrefix ==
  ASSUME NEW s \in Seq(Frame), NEW k \in 0..Len(s)
  PROVE  Calls(SubSeq(s, 1, k)) = SubSeq(Calls(s), 1, k)
<1> DEFINE p == SubSeq(s, 1, k)
           q == SubSeq(Calls(s), 1, k)
<1>1. Len(s) \in Nat /\ k \in Nat /\ \A i \in 1..k : i \in 1..Len(s)
  BY LenProperties
<1>2. \A i \in 1..k : s[i] \in Frame /\ Calls(s)[i] \in Shows
  BY <1>1, CallsSeq, ElementOfSeq
<1>3. /\ p \in Seq(Frame) /\ q \in Seq(Shows)
      /\ Len(p) = IF 1 <= k THEN k - 1 + 1 ELSE 0
      /\ Len(q) = IF 1 <= k THEN k - 1 + 1 ELSE 0
      /\ \A i \in 1..(k - 1 + 1) : p[i] = s[1 + i - 1] /\ q[i] = Calls(s)[1 + i - 1]
  BY <1>1, <1>2, CallsSeq, SubSeqProperties
<1>4. k - 1 + 1 = k /\ (1 <= k \/ k = 0) /\ \A i \in 1..k : 1 + i - 1 = i
  BY <1>1
<1>5. Len(p) = k /\ Len(q) = k /\ \A i \in 1..k : p[i] = s[i] /\ q[i] = Calls(s)[i]
  BY <1>3, <1>4
<1> HIDE DEF p, q
<1>6. /\ Calls(p) \in Seq(Shows) /\ Len(Calls(p)) = k
      /\ \A i \in 1..k : Calls(p)[i] = Shown(p[i])
  BY <1>3, <1>5, CallsSeq
<1>7. \A i \in 1..k : Calls(p)[i] = q[i]
  BY <1>1, <1>5, <1>6, CallsSeq
<1>8. Calls(p) = q
  BY <1>3, <1>5, <1>6, <1>7, SeqEqual
<1> QED
  BY <1>8 DEF p, q

LEMMA CallsExcept ==
  ASSUME NEW s \in Seq(Frame), NEW i \in 1..Len(s), NEW f \in Frame
  PROVE  Calls([s EXCEPT ![i] = f]) = [Calls(s) EXCEPT ![i] = Shown(f)]
<1>1. DOMAIN s = 1..Len(s)
  BY LenProperties
<1> QED
  BY <1>1 DEF Calls

-----------------------------------------------------------------------------
(* The mapped variables.                                                   *)
(* What the abstract guards and updates say of the executor's stack.       *)
LEMMA Mapped ==
  ASSUME Inv, stack # <<>>
  PROVE  /\ Calls(stack) # <<>> /\ Len(Calls(stack)) = Len(stack)
         /\ Len(stack) \in 1..Len(stack)
         /\ Calls(stack)[Len(stack)] = Shown(Top)
         /\ Top.kind = "run" =>
              Shown(Top) = [kind |-> "run", budget |-> Top.budget, used |-> Top.count]
         /\ Top.kind # "run" =>
              /\ Shown(Top) = [kind |-> Top.kind]
              /\ Calls(stack)[Len(stack) - 1] =
                   [kind |-> "run", budget |-> Caller.budget, used |-> Caller.count]
         /\ Calls(PopBack(stack)) = SubSeq(Calls(stack), 1, Len(stack) - 1)
         /\ Top.kind # "run" =>
              Calls(BelowCaller) = SubSeq(Calls(stack), 1, Len(stack) - 2)
<1>1. /\ stack \in Seq(Frame) /\ Len(stack) \in Nat /\ Len(stack) >= 1
      /\ Top.kind # "run" => Len(stack) - 1 \in 1..Len(stack) /\ Caller.kind = "run"
  <2>1. stack \in Seq(Frame) /\ Len(stack) \in Nat /\ Len(stack) >= 1
    BY TopOK DEF Inv, StackOK
  <2>2. Len(stack) \in 1..Len(stack)
    BY <2>1
  <2>3. Top.kind # "run" => Len(stack) > 1
    BY <2>1, <2>2 DEF Inv, StackOK, Top
  <2> QED
    BY <2>1, <2>3, TopOK
<1>2. Len(stack) \in 1..Len(stack) /\ Len(stack) - 1 \in 0..Len(stack)
  BY <1>1
<1>3. /\ Calls(stack) # <<>> /\ Len(Calls(stack)) = Len(stack)
      /\ Calls(stack)[Len(stack)] = Shown(Top)
  BY <1>1, <1>2, CallsSeq DEF Top
<1>4. Calls(PopBack(stack)) = SubSeq(Calls(stack), 1, Len(stack) - 1)
  BY <1>1, <1>2, CallsPrefix DEF PopBack
<1>5. ASSUME Top.kind # "run"
      PROVE  /\ Calls(stack)[Len(stack) - 1] = Shown(Caller)
             /\ Caller.kind = "run"
             /\ Calls(BelowCaller) = SubSeq(Calls(stack), 1, Len(stack) - 2)
  <2>1. Len(stack) - 1 \in 1..Len(stack) /\ Len(stack) - 2 \in 0..Len(stack)
    BY <1>1, <1>5
  <2> QED
    BY <1>1, <1>5, <2>1, CallsSeq, CallsPrefix DEF Caller, BelowCaller
<1> QED
  BY <1>2, <1>3, <1>4, <1>5 DEF Shown

-----------------------------------------------------------------------------
(* One lemma for each shape of step.                                       *)
LEMMA StillSimulates ==
  ASSUME Inv, Still
  PROVE  Bounded!Next \/ UNCHANGED Bounded!boundedVars
<1>1. UNCHANGED Calls(stack)
  BY DEF Still
<1>2. CASE exit' = exit
  BY <1>1, <1>2 DEF Bounded!boundedVars, Report
<1>3. CASE HostTurn /\ exit'.reason \in Refused /\ exit'.instructions = 0
  <2>1. Bounded!HostsTurn
    <3>1. CASE stack = <<>>
      BY <3>1, CallsSeq DEF Inv, StackOK, Bounded!HostsTurn, Bounded!InRun
    <3>2. CASE stack # <<>>
      BY <1>3, <3>2, Mapped
         DEF HostTurn, Running, Bounded!HostsTurn, Bounded!InRun, Bounded!Last
    <3> QED
      BY <3>1, <3>2
  <2>2. Bounded!Refuse(exit'.reason)
    BY <1>1, <1>3, <2>1 DEF Bounded!Refuse, Bounded!Reports, Report
  <2> QED
    BY <1>3, <2>2 DEF Bounded!Next, Refused
<1> QED
  BY <1>2, <1>3 DEF Still

LEMMA StartSimulates ==
  ASSUME Inv, NEW f \in RunFrame, StartsRun(f)
  PROVE  Bounded!Next
<1>1. Bounded!HostsTurn
  <2>1. CASE stack = <<>>
    BY <2>1, CallsSeq DEF Inv, StackOK, Bounded!HostsTurn, Bounded!InRun
  <2>2. CASE stack # <<>>
    BY <2>2, Mapped
       DEF StartsRun, HostTurn, Running, Bounded!HostsTurn, Bounded!InRun, Bounded!Last
  <2> QED
    BY <2>1, <2>2
<1>2. f.kind = "run" /\ f.budget \in 1..MaxSlice /\ f \in Frame
  BY DEF RunFrame, Frame
<1>3. Calls(stack') = Append(Calls(stack), Shown(f))
  BY <1>2, CallsAppend DEF StartsRun, Inv, StackOK
<1>4. Shown(f) = [kind |-> "run", budget |-> f.budget, used |-> 0]
  BY <1>2 DEF Shown, StartsRun
<1>5. Bounded!Start(f.budget)
  BY <1>1, <1>3, <1>4 DEF Bounded!Start, StartsRun, Report
<1> QED
  BY <1>2, <1>5 DEF Bounded!Next

LEMMA CallbackSimulates ==
  ASSUME Inv, HandlerEnter \/ OverrideEnter
  PROVE  Bounded!Next
<1>1. /\ stack # <<>> /\ Top.kind = "run" /\ ~Spent(Top) /\ Top \in RunFrame
      /\ HandlerEnter => Top.count > 0
  BY TopOK DEF HandlerEnter, OverrideEnter, Dispatching, Running, HeadReason, AtBreakpoint
<1>2. Top.count < Top.budget
  BY <1>1, TopOK, ExecutorAssumption DEF Spent, RunFrame
<1>3. Bounded!MayGoOn /\ Bounded!Last.used = Top.count
  BY <1>1, <1>2, Mapped DEF Bounded!MayGoOn, Bounded!InRun, Bounded!Last
<1>4. CASE HandlerEnter
  <2>1. [kind |-> "handler"] \in Frame /\ Shown([kind |-> "handler"]) = [kind |-> "handler"]
    BY DEF Frame, HandlerFrame, Shown
  <2>2. Calls(stack') = Append(Calls(stack), [kind |-> "handler"])
    BY <1>4, <2>1, CallsAppend DEF HandlerEnter, Inv, StackOK
  <2>3. Bounded!Enter("handler")
    BY <1>1, <1>3, <1>4, <2>2 DEF Bounded!Enter, HandlerEnter, replies, Report
  <2> QED
    BY <2>3 DEF Bounded!Next
<1>5. CASE OverrideEnter
  <2> DEFINE g == [kind |-> "native", id |-> Identity]
  <2>1. g \in Frame /\ Shown(g) = [kind |-> "native"]
    BY InvParts DEF Frame, NativeFrame, Shown
  <2>2. Calls(stack') = Append(Calls(stack), [kind |-> "native"])
    BY <1>5, <2>1, CallsAppend DEF OverrideEnter, Inv, StackOK
  <2>3. Bounded!Enter("native")
    BY <1>3, <1>5, <2>2 DEF Bounded!Enter, OverrideEnter, replies, Report
  <2> QED
    BY <2>3 DEF Bounded!Next
<1> QED
  BY <1>4, <1>5

LEMMA CountSimulates ==
  ASSUME Inv, Counts
  PROVE  Bounded!Next
<1>1. stack # <<>> /\ Top.kind = "run" /\ Top \in RunFrame /\ ~Spent(Top)
  BY TopOK DEF Counts, Dispatching, Running, HeadReason
<1>2. Top.count < Top.budget
  BY <1>1, TopOK, ExecutorAssumption DEF Spent, RunFrame
<1>3. Bounded!MayGoOn
  BY <1>1, <1>2, Mapped DEF Bounded!MayGoOn, Bounded!InRun, Bounded!Last
<1>4. Counted(Top) \in Frame
  BY CountedOK, <1>1 DEF Counts, Counted, Frame, RunFrame
<1>5. Calls(stack') = [Calls(stack) EXCEPT ![Len(stack)] = Shown(Counted(Top))]
  BY <1>1, <1>4, Mapped, CallsExcept DEF Counts, Inv, StackOK
<1>6. Shown(Counted(Top)) = [Shown(Top) EXCEPT !.used = @ + 1]
  BY <1>1 DEF Shown, Counted, RunFrame
<1>7. Bounded!Retire
  BY <1>1, <1>3, <1>5, <1>6, Mapped DEF Bounded!Retire, Counts, Report
<1> QED
  BY <1>7 DEF Bounded!Next

LEMMA StopSimulates ==
  ASSUME Inv, NEW x, Stops(x)
  PROVE  Bounded!Next
<1>1. stack # <<>> /\ Top.kind = "run" /\ Top \in RunFrame
  BY TopOK DEF Stops, Running
<1>2. Bounded!InRun /\ Bounded!Last.used = Top.count /\ Bounded!Last.budget = Top.budget
  BY <1>1, Mapped DEF Bounded!InRun, Bounded!Last
<1>3. Calls(stack') = Bounded!Below(1)
  BY <1>1, Mapped DEF Stops, Bounded!Below
<1>4. Bounded!Reports(x.reason, x.instructions)
  BY DEF Stops, Bounded!Reports, Report
<1>5. CASE Top.count = Top.budget /\ x.reason = "InstructionBudget"
           /\ x.instructions = Top.count
  BY <1>2, <1>3, <1>4, <1>5 DEF Bounded!EndSpent, Bounded!Next
<1>6. CASE /\ Top.count < Top.budget /\ x.instructions = Top.count
           /\ x.reason \in {"Halted", "ImageReplaced", "ReturnToHost", "Breakpoint",
                            "MemoryFault", "Exception"}
           /\ x.reason = "Breakpoint" => Top.count > 0
  <2>1. Bounded!EndEarly(x.reason)
    BY <1>2, <1>3, <1>4, <1>6 DEF Bounded!EndEarly, Bounded!MayGoOn
  <2> QED
    BY <1>6, <2>1 DEF Bounded!Next
<1>7. CASE /\ Top.count < Top.budget /\ x.instructions = Top.count + 1
           /\ x.reason \in {"Exception", "ReturnToHost"}
  <2>1. Bounded!EndRetiring(x.reason)
    BY <1>2, <1>3, <1>4, <1>7 DEF Bounded!EndRetiring, Bounded!MayGoOn
  <2> QED
    BY <1>7, <2>1 DEF Bounded!Next
<1> QED
  BY <1>5, <1>6, <1>7 DEF Stops, OwnExit

(* An override's exit carries no count of its own but 0 or the latest one. *)
LEMMA NativeResultCounts ==
  ASSUME Inv, NEW x \in NativeResults
  PROVE  x.instructions \in {0, exit.instructions}
<1>1. MakeExit("InstructionBudget", 0).instructions = 0
  BY DEF MakeExit
<1>2. /\ [MakeExit("InstructionBudget", 0) EXCEPT !.continue = TRUE].instructions = 0
      /\ [MakeExit("InstructionBudget", 0) EXCEPT !.hand_off = TRUE].instructions = 0
  BY DEF MakeExit
<1> QED
  BY <1>1, <1>2 DEF NativeResults

LEMMA OverrideExitCounts ==
  ASSUME Inv, NEW x \in NativeResults
  PROVE  /\ OverrideExit(x).instructions \in {0, exit.instructions}
         /\ OverrideExit(x).reason \in
              {"NativeOverride", "ReturnToHost", "UnterminatedNativeOverride"}
<1>1. x \in ExecutionExit /\ x.instructions \in {0, exit.instructions}
  BY NativeResultsType, NativeResultCounts
<1>2. \A r : /\ [x EXCEPT !.reason = r].instructions = x.instructions
             /\ [x EXCEPT !.reason = r].reason = r
  BY <1>1 DEF ExecutionExit
<1>3. /\ MakeExit("UnterminatedNativeOverride", 0).instructions = 0
      /\ MakeExit("UnterminatedNativeOverride", 0).reason = "UnterminatedNativeOverride"
  BY DEF MakeExit
<1> QED
  BY <1>1, <1>2, <1>3 DEF OverrideExit

LEMMA ReturnSimulates ==
  ASSUME Inv, CallbackEnds
  PROVE  Bounded!Next
<1>1. /\ stack # <<>> /\ Top.kind # "run"
      /\ Top.kind \in {"native", "handler"}
  BY TopOK, FrameKinds
     DEF CallbackEnds, NativeContinues, NativeReturns, InNative, HandlerReturns,
         CallbackThrows
<1>2. /\ Bounded!InCallback(Top.kind)
      /\ Bounded!Waiting.used = Caller.count
      /\ Calls(PopBack(stack)) = Bounded!Below(1)
      /\ Calls(BelowCaller) = Bounded!Below(2)
  BY <1>1, Mapped DEF Bounded!InCallback, Bounded!Last, Bounded!Waiting, Bounded!Below
<1>3. ASSUME NEW x \in NativeResults, NativeContinues(x) PROVE Bounded!Next
  <2> DEFINE p == PopBack(stack)
  <2>1. p \in Seq(Frame) /\ Len(p) = Len(stack) - 1 /\ Len(stack) \in Nat
    BY <1>1, PopOK, TopOK DEF StackOK, Inv
  <2>2. Len(stack) - 1 \in 1..Len(p) /\ p[Len(stack) - 1] = Caller
    <3>1. Len(stack) > 1
      BY <1>1, TopOK DEF Inv, StackOK, Top
    <3>2. \A i \in 1..(Len(stack) - 1) : p[i] = stack[i]
      BY PopBackType DEF Inv, StackOK
    <3> QED
      BY <2>1, <3>1, <3>2 DEF Caller
  <2>3. Caller \in RunFrame /\ Caller.kind = "run"
    BY <1>1, TopOK
  <2>4. Reauthorized(Caller) \in Frame /\ Shown(Reauthorized(Caller)) = Shown(Caller)
    BY <2>3, InvParts DEF Reauthorized, RunFrame, Frame, Shown
  <2>5. stack' = [p EXCEPT ![Len(stack) - 1] = Reauthorized(Caller)]
    BY <1>3 DEF NativeContinues
  <2> HIDE DEF p
  <2>6. Calls(stack') = [Calls(p) EXCEPT ![Len(stack) - 1] = Shown(Caller)]
    <3> DEFINE g == Reauthorized(Caller)
               i == Len(stack) - 1
    <3>1. g \in Frame /\ Shown(g) = Shown(Caller) /\ stack' = [p EXCEPT ![i] = g]
      BY <2>4, <2>5
    <3>2. p \in Seq(Frame) /\ i \in 1..Len(p)
      BY <2>1, <2>2
    <3> HIDE DEF g, i
    <3>3. Calls([p EXCEPT ![i] = g]) = [Calls(p) EXCEPT ![i] = Shown(g)]
      BY <3>1, <3>2, CallsExcept
    <3> QED
      BY <3>1, <3>3 DEF i
  <2>7. /\ Calls(p)[Len(stack) - 1] = Shown(Caller) /\ Calls(p) \in Seq(Shows)
    BY <2>1, <2>2, CallsSeq
  <2>8. Calls(stack') = Calls(p)
    BY <2>1, <2>2, <2>6, <2>7, CallsSeq DEF Calls
  <2>9. Bounded!Resume
    BY <1>1, <1>2, <1>3, <2>8
       DEF NativeContinues, InNative, replies, Bounded!Resume, Report, p
  <2> QED
    BY <2>9 DEF Bounded!Next
<1>4. ASSUME NEW x \in NativeResults, NativeReturns(x) PROVE Bounded!Next
  <2>1. exit' = OverrideExit(x) /\ stack' = BelowCaller /\ Top.kind = "native"
    BY <1>4 DEF NativeReturns, EndRun, InNative
  <2>2. Bounded!OverrideEnds(exit'.reason)
    BY <1>2, <2>1, OverrideExitCounts
       DEF Bounded!OverrideEnds, Bounded!Reports, Report
  <2> QED
    BY <2>1, <2>2, OverrideExitCounts DEF Bounded!Next
<1>5. CASE HandlerReturns
  <2>1. /\ exit' = MakeExit("Breakpoint", Caller.count) /\ stack' = BelowCaller
        /\ Top.kind = "handler"
    BY <1>5 DEF HandlerReturns, EndRun
  <2>2. Report(exit') = [reason |-> "Breakpoint", instructions |-> Caller.count]
    BY <2>1 DEF Report, MakeExit
  <2>3. Bounded!HandlerEnds
    BY <1>2, <2>1, <2>2 DEF Bounded!HandlerEnds, Bounded!Reports
  <2> QED
    BY <2>3 DEF Bounded!Next
<1>6. CASE CallbackThrows
  <2>1. Bounded!Unwind
    BY <1>1, <1>2, <1>6 DEF CallbackThrows, replies, Bounded!Unwind, Report
  <2> QED
    BY <2>1 DEF Bounded!Next
<1> QED
  BY <1>3, <1>4, <1>5, <1>6 DEF CallbackEnds

-----------------------------------------------------------------------------
(* Every history of runs, callbacks and exits is one that the header's     *)
(* promise allows: budgets are neither shared nor renewed, and counts are  *)
(* those of the run that ends (run and every public call).                 *)
THEOREM ExecutorImplementsBoundedRuns == Spec => ImplementsBoundedRuns
<1>1. Init => Bounded!Init
  <2> SUFFICES ASSUME Init PROVE Bounded!Init
    OBVIOUS
  <2>1. stack = <<>> /\ stack \in Seq(Frame) /\ exit = MakeExit("NoImage", 0)
    BY EmptySeq DEF Init
  <2>2. Calls(stack) = <<>>
    BY <2>1, CallsSeq, EmptySeq
  <2> QED
    BY <2>1, <2>2 DEF Bounded!Init, Report, MakeExit
<1>2. Inv /\ [Next]_vars => [Bounded!Next]_Bounded!boundedVars
  <2> SUFFICES ASSUME Inv, [Next]_vars
               PROVE  [Bounded!Next]_Bounded!boundedVars
    OBVIOUS
  <2>1. CASE UNCHANGED vars
    BY <2>1 DEF vars, replies, Bounded!boundedVars, Report
  <2>2. CASE Next
    <3>1. StepShape
      BY <2>2, EveryStepHasAShape
    <3> QED
      BY <3>1, StillSimulates, StartSimulates, CallbackSimulates, CountSimulates,
         StopSimulates, ReturnSimulates DEF StepShape
  <2> QED
    BY <2>1, <2>2
<1> QED
  BY <1>1, <1>2, InvInit, InvNext, PTL DEF Spec, ImplementsBoundedRuns, Bounded!Spec
=============================================================================
