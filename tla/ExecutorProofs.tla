--------------------------- MODULE ExecutorProofs ---------------------------
(***************************************************************************)
(* Theorems about the executor, for every set of addresses, image tags and *)
(* budgets, every slice limit, every stack and every depth of nesting.     *)
(*                                                                         *)
(* Inv strengthens the type invariant by what the call stack looks like: a *)
(* callback's activation sits on the run that called it, and no run is     *)
(* past its budget, which is the one its caller asked for.  Without the    *)
(* first, a callback's return could not be shown to end a run; without the *)
(* second, the count of an exit could not be shown to be within a slice.   *)
(***************************************************************************)
EXTENDS ExecutorProperties, SequenceTheorems, TLAPS

Memory == [Cell -> Addr]

(* A run is within its budget, which is its caller's request, clamped.     *)
Within(f) == f.count <= f.budget /\ f.budget = Effective(f.request)

StackOK(s) ==
  /\ s \in Seq(Frame)
  /\ \A i \in 1..Len(s) : s[i].kind # "run" => i > 1 /\ s[i - 1].kind = "run"
  /\ \A i \in 1..Len(s) : s[i].kind = "run" => Within(s[i])

Inv == TypeOK /\ StackOK(stack)

-----------------------------------------------------------------------------
(* Sequences.                                                              *)

LEMMA PopBackType ==
  ASSUME NEW S, NEW s \in Seq(S)
  PROVE  /\ PopBack(s) \in Seq(S)
         /\ s # <<>> => Len(PopBack(s)) = Len(s) - 1
         /\ \A i \in 1..(Len(s) - 1) : PopBack(s)[i] = s[i]
<1>1. Len(s) \in Nat /\ \A i \in 1..(Len(s) - 1) : s[i] \in S
  BY LenProperties, ElementOfSeq
<1>2. s # <<>> => Len(s) > 0
  BY <1>1, EmptySeq
<1>3. ASSUME NEW n \in Int, \A i \in 1..n : s[i] \in S
      PROVE  /\ SubSeq(s, 1, n) \in Seq(S)
             /\ n >= 1 => Len(SubSeq(s, 1, n)) = n
             /\ n = 0 => Len(SubSeq(s, 1, n)) = 0
             /\ \A i \in 1..n : SubSeq(s, 1, n)[i] = s[i]
  <2>1. /\ SubSeq(s, 1, n) \in Seq(S)
        /\ Len(SubSeq(s, 1, n)) = IF 1 <= n THEN n - 1 + 1 ELSE 0
        /\ \A i \in 1..(n - 1 + 1) : SubSeq(s, 1, n)[i] = s[1 + i - 1]
    BY <1>3, SubSeqProperties
  <2>2. n - 1 + 1 = n /\ \A i \in 1..n : 1 + i - 1 = i
    BY <1>3
  <2> QED
    BY <1>3, <2>1, <2>2
<1>4. Len(s) - 1 \in Int
  BY <1>1
<1>5. /\ PopBack(s) \in Seq(S)
      /\ Len(s) - 1 >= 1 => Len(PopBack(s)) = Len(s) - 1
      /\ Len(s) - 1 = 0 => Len(PopBack(s)) = 0
      /\ \A i \in 1..(Len(s) - 1) : PopBack(s)[i] = s[i]
  BY <1>1, <1>3, <1>4 DEF PopBack
<1>6. ASSUME s # <<>> PROVE Len(PopBack(s)) = Len(s) - 1
  <2>1. Len(s) \in Nat /\ Len(s) > 0
    BY <1>1, <1>2, <1>6
  <2>2. Len(s) - 1 >= 1 \/ Len(s) - 1 = 0
    <3>1. \A k \in Nat : k > 0 => k - 1 >= 1 \/ k - 1 = 0
      OBVIOUS
    <3> QED
      BY <2>1, <3>1, Zenon
  <2>3. CASE Len(s) - 1 >= 1
    BY <2>3, <1>5, Zenon
  <2>4. CASE Len(s) - 1 = 0
    BY <2>4, <1>5, Zenon
  <2> QED
    BY <2>2, <2>3, <2>4
<1> QED
  BY <1>5, <1>6, Zenon

LEMMA LastType ==
  ASSUME NEW S, NEW s \in Seq(S), s # <<>>
  PROVE  Last(s) \in S
BY LenProperties, EmptySeq, ElementOfSeq DEF Last

(* Kinds tell the three sorts of frame apart.                              *)
LEMMA FrameKinds ==
  ASSUME NEW f \in Frame
  PROVE  /\ f.kind = "run" => f \in RunFrame
         /\ f.kind = "native" => f \in NativeFrame
         /\ f.kind \in {"run", "native", "handler"}
BY DEF Frame, RunFrame, NativeFrame, HandlerFrame

LEMMA TopType ==
  ASSUME TypeOK, stack # <<>>
  PROVE  /\ Len(stack) \in Nat /\ Len(stack) >= 1
         /\ Top \in Frame
BY LenProperties, EmptySeq, ElementOfSeq DEF TypeOK, Top

-----------------------------------------------------------------------------
(* The guest's CPU.                                                        *)

CoreOutcome ==
  [status : Statuses, cpu : CpuState, mem : Memory, fault : Faults,
   executed : BOOLEAN]

LEMMA WithSpType ==
  ASSUME NEW c \in CpuState, NEW sp \in Sp
  PROVE  WithSp(c, sp) \in CpuState
BY DEF WithSp, CpuState

LEMMA AtPcType ==
  ASSUME NEW c \in CpuState, NEW a \in Addr
  PROVE  AtPc(c, a) \in CpuState
BY DEF AtPc, CpuState

LEMMA SynchronizedType ==
  ASSUME NEW c \in CpuState
  PROVE  Synchronized(c) \in CpuState
BY WithSpType DEF Synchronized, CpuState

LEMMA FaultTypes ==
  ASSUME NEW c, NEW locked
  PROVE  /\ ReadFault(c) \in Faults /\ WriteFault(c, locked) \in Faults
         /\ ReadFault(c) = "None" => c \in Cell
         /\ WriteFault(c, locked) = "None" => c \in Cell
BY DEF ReadFault, WriteFault, Faults

LEMMA OutcomeType ==
  ASSUME NEW s \in Statuses, NEW c \in CpuState, NEW m \in Memory
  PROVE  Outcome(s, c, m) \in CoreOutcome
BY DEF Outcome, CoreOutcome, Faults

LEMMA FaultOutcomeType ==
  ASSUME NEW c \in CpuState, NEW m \in Memory, NEW fault \in Faults
  PROVE  FaultOutcome(c, m, fault) \in CoreOutcome
BY DEF FaultOutcome, CoreOutcome, Statuses

LEMMA CellSp == \A c \in Cell : c \in Sp /\ c + 1 \in Sp
BY GuestAssumption DEF Cell, Sp

LEMMA CoreStepType ==
  ASSUME NEW c \in CpuState, NEW m \in Memory, NEW locked,
         NEW out \in CoreStep(c, m, locked)
  PROVE  out \in CoreOutcome
<1>0. c.pc \in Addr /\ c.a7 \in Sp /\ c.usp \in Sp
  BY DEF CpuState
<1>1. CASE out \in BranchOutcomes(c, m)
  BY <1>1, AtPcType, OutcomeType DEF BranchOutcomes, Statuses
<1>2. CASE out \in JsrOutcomes(c, m, locked)
  <2>1. CASE WriteFault(c.a7 - 1, locked) # "None"
    BY <1>2, <2>1, FaultTypes, FaultOutcomeType DEF JsrOutcomes
  <2>2. CASE WriteFault(c.a7 - 1, locked) = "None"
    <3>1. c.a7 - 1 \in Cell /\ WithSp(c, c.a7 - 1) \in CpuState
      BY <2>2, FaultTypes, CellSp, WithSpType
    <3>2. \A a \in Addr : AtPc(WithSp(c, c.a7 - 1), a) \in CpuState
      BY <3>1, AtPcType
    <3>3. \A r \in Addr : Stored(m, c.a7 - 1, r) \in Memory
      BY <3>1 DEF Memory, Stored
    <3> QED
      BY <1>2, <2>2, <3>2, <3>3, OutcomeType DEF JsrOutcomes, Statuses
  <2> QED
    BY <2>1, <2>2
<1>3. CASE out \in RtsOutcomes(c, m)
  <2>1. CASE ReadFault(c.a7) # "None"
    BY <1>3, <2>1, FaultTypes, FaultOutcomeType DEF RtsOutcomes
  <2>2. CASE ReadFault(c.a7) = "None"
    <3>1. c.a7 \in Cell /\ m[c.a7] \in Addr /\ WithSp(c, c.a7 + 1) \in CpuState
      BY <2>2, FaultTypes, CellSp, WithSpType DEF Memory
    <3>2. AtPc(WithSp(c, c.a7 + 1), m[c.a7]) \in CpuState
      BY <3>1, AtPcType
    <3> QED
      BY <1>3, <2>2, <3>2, OutcomeType DEF RtsOutcomes, Statuses
  <2> QED
    BY <2>1, <2>2
<1>4. CASE out \in RteOutcomes(c, m)
  <2>1. CASE ~c.super
    <3>1. Outcome("Exception", c, m) \in CoreOutcome
      BY OutcomeType DEF Statuses
    <3>2. Unexecuted(Outcome("Exception", c, m)) \in CoreOutcome
      BY <3>1 DEF CoreOutcome, Unexecuted
    <3> QED
      BY <1>4, <2>1, <3>2 DEF RteOutcomes
  <2>2. CASE c.super /\ (ReadFault(c.a7) # "None" \/ ReadFault(c.a7 + 1) # "None")
    BY <1>4, <2>2, FaultOutcomeType DEF RteOutcomes, Faults
  <2>3. CASE c.super /\ ReadFault(c.a7) = "None" /\ ReadFault(c.a7 + 1) = "None"
    <3> DEFINE s == m[c.a7] = SuperSR
               d == [c EXCEPT !.super = s, !.pc = m[c.a7 + 1], !.ssp = c.a7 + 2,
                              !.a7 = IF s THEN c.a7 + 2 ELSE c.usp]
    <3>1. c.a7 \in Cell /\ c.a7 + 1 \in Cell
      BY <2>3, FaultTypes
    <3>2. c.a7 + 2 \in Sp /\ m[c.a7 + 1] \in Addr
      BY <3>1, GuestAssumption DEF Cell, Sp, Memory
    <3>3. s \in BOOLEAN
      OBVIOUS
    <3>4. d \in CpuState
      <4> HIDE DEF s
      <4> QED BY <1>0, <3>2, <3>3 DEF CpuState
    <3>5. out = Outcome("ReturnedFromInterrupt", d, m)
      BY <1>4, <2>3 DEF RteOutcomes
    <3> QED
      BY <3>4, <3>5, OutcomeType DEF Statuses
  <2> QED
    BY <2>1, <2>2, <2>3
<1>5. CASE out \in UserOutcomes(c, m)
  <2>1. \A a \in Addr : [c EXCEPT !.super = FALSE, !.ssp = c.a7, !.a7 = c.usp,
                                  !.pc = a] \in CpuState
    BY <1>0 DEF CpuState
  <2> QED
    BY <1>5, <2>1, OutcomeType DEF UserOutcomes, Statuses
<1>6. CASE out \in TrapOutcomes(c, m)
  <2>1. \A a \in Addr : Outcome("Exception", AtPc(c, a), m) \in CoreOutcome
    BY AtPcType, OutcomeType DEF Statuses
  <2>2. \A o \in CoreOutcome : Unexecuted(o) \in CoreOutcome
    BY DEF CoreOutcome, Unexecuted
  <2> QED
    BY <1>6, <2>1, <2>2 DEF TrapOutcomes
<1>7. CASE out \in FaultOutcomes(c, m)
  BY <1>7, FaultOutcomeType DEF FaultOutcomes, Faults
<1>8. CASE out \in HaltOutcomes(c, m)
  <2>1. [c EXCEPT !.halted = TRUE] \in CpuState
    BY DEF CpuState
  <2> QED
    BY <1>8, <2>1, OutcomeType DEF HaltOutcomes, Statuses
<1> QED
  BY <1>1, <1>2, <1>3, <1>4, <1>5, <1>6, <1>7, <1>8 DEF CoreStep

-----------------------------------------------------------------------------
(* What the run loop does to its stack.                                    *)

LEMMA PrefixOK ==
  ASSUME NEW s, StackOK(s), NEW k \in 0..Len(s)
  PROVE  StackOK(SubSeq(s, 1, k)) /\ Len(SubSeq(s, 1, k)) = k
<1> DEFINE p == SubSeq(s, 1, k)
<1>1. s \in Seq(Frame) /\ Len(s) \in Nat /\ \A i \in 1..Len(s) : s[i] \in Frame
  BY LenProperties, ElementOfSeq DEF StackOK
<1>2. k \in Nat /\ \A i \in 1..k : s[i] \in Frame /\ i \in 1..Len(s)
  BY <1>1
<1>3. /\ p \in Seq(Frame)
      /\ Len(p) = IF 1 <= k THEN k - 1 + 1 ELSE 0
      /\ \A i \in 1..(k - 1 + 1) : p[i] = s[1 + i - 1]
  BY <1>1, <1>2, SubSeqProperties
<1>4. k - 1 + 1 = k /\ (1 <= k \/ k = 0) /\ \A i \in 1..k : 1 + i - 1 = i
  BY <1>2
<1>5. Len(p) = k /\ \A i \in 1..k : p[i] = s[i]
  BY <1>3, <1>4
<1> HIDE DEF p
<1>6. \A i \in 1..k : i > 1 => i - 1 \in 1..k
  BY <1>2
<1>7. \A i \in 1..Len(p) : p[i].kind # "run" => i > 1 /\ p[i - 1].kind = "run"
  BY <1>2, <1>5, <1>6 DEF StackOK
<1>8. \A i \in 1..Len(p) : p[i].kind = "run" => Within(p[i])
  BY <1>2, <1>5 DEF StackOK
<1>9. StackOK(p) /\ Len(p) = k
  BY <1>3, <1>5, <1>7, <1>8 DEF StackOK
<1> QED
  BY <1>9 DEF p

LEMMA PushOK ==
  ASSUME NEW s, StackOK(s), NEW f \in Frame,
         f.kind = "run" => Within(f),
         f.kind # "run" => s # <<>> /\ s[Len(s)].kind = "run"
  PROVE  StackOK(Append(s, f))
<1> DEFINE p == Append(s, f)
<1>1. Len(s) \in Nat /\ (s # <<>> => Len(s) >= 1)
  BY LenProperties, EmptySeq DEF StackOK
<1>2. /\ p \in Seq(Frame) /\ Len(p) = Len(s) + 1
      /\ \A i \in 1..Len(s) : p[i] = s[i]
      /\ p[Len(s) + 1] = f
  BY AppendProperties DEF StackOK
<1> HIDE DEF p
<1>3. \A i \in 1..Len(p) : i \in 1..Len(s) \/ i = Len(s) + 1
  BY <1>1, <1>2
<1>4. \A i \in 1..Len(p) : p[i].kind # "run" => i > 1 /\ p[i - 1].kind = "run"
  <2> SUFFICES ASSUME NEW i \in 1..Len(p), p[i].kind # "run"
               PROVE  i > 1 /\ p[i - 1].kind = "run"
    OBVIOUS
  <2>1. CASE i \in 1..Len(s)
    <3>1. i > 1 /\ s[i - 1].kind = "run"
      BY <1>2, <2>1 DEF StackOK
    <3>2. i - 1 \in 1..Len(s)
      BY <1>1, <2>1, <3>1
    <3> QED
      BY <1>2, <3>1, <3>2
  <2>2. CASE i = Len(s) + 1
    <3>1. s # <<>> /\ s[Len(s)].kind = "run"
      BY <1>2, <2>2
    <3>2. Len(s) \in 1..Len(s) /\ i - 1 = Len(s) /\ i > 1
      BY <1>1, <2>2, <3>1
    <3> QED
      BY <1>2, <3>1, <3>2
  <2> QED
    BY <1>3, <2>1, <2>2
<1>5. \A i \in 1..Len(p) : p[i].kind = "run" => Within(p[i])
  BY <1>2, <1>3 DEF StackOK
<1>6. StackOK(p)
  BY <1>2, <1>4, <1>5 DEF StackOK
<1> QED
  BY <1>6 DEF p

LEMMA ReplaceTopOK ==
  ASSUME NEW s, StackOK(s), s # <<>>, s[Len(s)].kind = "run",
         NEW f \in RunFrame, Within(f)
  PROVE  StackOK([s EXCEPT ![Len(s)] = f])
<1> DEFINE p == [s EXCEPT ![Len(s)] = f]
<1>1. Len(s) \in Nat /\ Len(s) >= 1 /\ f \in Frame /\ f.kind = "run"
  BY LenProperties, EmptySeq DEF StackOK, Frame, RunFrame
<1>2. Len(s) \in 1..Len(s)
  BY <1>1
<1>3. /\ p \in Seq(Frame) /\ Len(p) = Len(s)
      /\ \A i \in 1..Len(s) : p[i] = IF i = Len(s) THEN f ELSE s[i]
  BY <1>1, <1>2, ExceptSeq DEF StackOK
<1> HIDE DEF p
<1>4. \A i \in 1..Len(s) : p[i].kind = s[i].kind
  BY <1>1, <1>3
<1>5. \A i \in 1..Len(s) : i > 1 => i - 1 \in 1..Len(s)
  BY <1>1
<1>6. \A i \in 1..Len(p) : p[i].kind # "run" => i > 1 /\ p[i - 1].kind = "run"
  BY <1>3, <1>4, <1>5 DEF StackOK
<1>7. \A i \in 1..Len(p) : p[i].kind = "run" => Within(p[i])
  BY <1>3 DEF StackOK
<1>8. StackOK(p)
  BY <1>3, <1>6, <1>7 DEF StackOK
<1> QED
  BY <1>8 DEF p

LEMMA PopOK ==
  ASSUME NEW s, StackOK(s), s # <<>>
  PROVE  StackOK(PopBack(s)) /\ Len(PopBack(s)) = Len(s) - 1
<1>1. Len(s) \in Nat /\ Len(s) >= 1
  BY LenProperties, EmptySeq DEF StackOK
<1>2. Len(s) - 1 \in 0..Len(s)
  BY <1>1
<1> QED
  BY <1>2, PrefixOK DEF PopBack

(* The frame on top, and under a callback the run that called it.          *)
LEMMA TopOK ==
  ASSUME Inv, stack # <<>>
  PROVE  /\ Len(stack) \in Nat /\ Len(stack) >= 1
         /\ Top \in Frame
         /\ Top.kind = "run" => Top \in RunFrame /\ Within(Top)
         /\ Top.kind = "native" => Top \in NativeFrame
         /\ Top.kind # "run" =>
              /\ Caller \in RunFrame /\ Caller.kind = "run"
              /\ Within(Caller)
              /\ StackOK(BelowCaller)
              /\ Len(PopBack(stack)) = Len(stack) - 1
              /\ PopBack(stack) # <<>>
              /\ PopBack(stack)[Len(stack) - 1] = Caller
<1>1. /\ Len(stack) \in Nat /\ Len(stack) >= 1
      /\ \A i \in 1..Len(stack) : stack[i] \in Frame
  BY LenProperties, EmptySeq, ElementOfSeq DEF Inv, StackOK
<1>2. Len(stack) \in 1..Len(stack)
  BY <1>1
<1>3. Top \in Frame
  BY <1>1, <1>2 DEF Top
<1>4. Top.kind = "run" => Top \in RunFrame /\ Within(Top)
  BY <1>2, <1>3, FrameKinds DEF Inv, StackOK, Top
<1>5. ASSUME Top.kind # "run"
      PROVE  /\ Caller \in RunFrame /\ Caller.kind = "run"
             /\ Within(Caller)
             /\ StackOK(BelowCaller)
             /\ Len(PopBack(stack)) = Len(stack) - 1
             /\ PopBack(stack) # <<>>
             /\ PopBack(stack)[Len(stack) - 1] = Caller
  <2>1. Len(stack) > 1 /\ Caller.kind = "run"
    BY <1>2, <1>5 DEF Inv, StackOK, Top, Caller
  <2>2. /\ Len(stack) - 1 \in 1..Len(stack)
        /\ Len(stack) - 1 \in 1..(Len(stack) - 1)
        /\ Len(stack) - 2 \in 0..Len(stack)
    BY <1>1, <2>1
  <2>3. Caller \in RunFrame /\ Within(Caller)
    BY <1>1, <2>1, <2>2, FrameKinds DEF Inv, StackOK, Caller
  <2>4. StackOK(BelowCaller)
    BY <2>2, PrefixOK DEF BelowCaller, Inv
  <2>5. PopBack(stack)[Len(stack) - 1] = Caller
    BY <2>2, PopBackType DEF Inv, StackOK, Caller
  <2>6. Len(PopBack(stack)) = Len(stack) - 1
    BY <1>1, PopOK DEF Inv
  <2>7. PopBack(stack) # <<>>
    BY <2>1, <2>6, <1>1, EmptySeq
  <2> QED
    BY <2>1, <2>3, <2>4, <2>5, <2>6, <2>7
<1> QED
  BY <1>1, <1>3, <1>4, <1>5, FrameKinds

LEMMA MakeExitType ==
  ASSUME NEW reason \in Reasons, NEW n \in 0..MaxSlice
  PROVE  MakeExit(reason, n) \in ExecutionExit
BY DEF MakeExit, ExecutionExit, Faults

LEMMA FaultedType ==
  ASSUME NEW x \in ExecutionExit, NEW fault \in Faults
  PROVE  Faulted(x, fault) \in ExecutionExit
BY DEF Faulted, ExecutionExit

LEMMA CountType ==
  ASSUME NEW f \in RunFrame, Within(f)
  PROVE  /\ f.count \in 0..MaxSlice
         /\ ~Spent(f) => f.count + 1 \in 0..MaxSlice /\ f.count + 1 <= f.budget
BY ExecutorAssumption DEF RunFrame, Spent, Within

LEMMA CountersType ==
  /\ \A n \in ExecutedCounter : NextExecuted(n) \in ExecutedCounter
  /\ \A n \in CycleCounter : NextCycles(n) \in CycleCounter
BY GuestAssumption DEF NextExecuted, NextCycles, ExecutedCounter, CycleCounter

LEMMA RestoredMemType ==
  ASSUME NEW s \in Saved, NEW m \in Memory
  PROVE  RestoredMem(s, m) \in Memory
<1>1. \A n \in Memory, k \in Cell, word \in Addr : Tried(n, k, word) \in Memory
  BY DEF Tried, Stored, Memory
<1>2. /\ s.at \in Cell /\ s.at + 1 \in Cell
      /\ s.sr \in Addr /\ s.pc \in Addr
  BY DEF Saved, FrameCell
<1>3. Tried(m, s.at, s.sr) \in Memory
  BY <1>1, <1>2
<1> QED
  BY <1>1, <1>2, <1>3 DEF RestoredMem

(* A run ends: whatever is restored has the type of what it replaces.      *)
LEMMA EndRunType ==
  ASSUME NEW f \in RunFrame, NEW below, StackOK(below), NEW x \in ExecutionExit,
         NEW c \in CpuState, NEW m \in Memory,
         NEW s \in Seq(ExecutionIdentity), EndRun(f, below, x, c, m, s)
  PROVE  /\ StackOK(stack')
         /\ suppressions' \in Seq(ExecutionIdentity)
         /\ exit' \in ExecutionExit
         /\ cpu' \in CpuState
         /\ mem' \in Memory
<1>1. suppressions' \in Seq(ExecutionIdentity)
  BY PopBackType DEF EndRun
<1>2. ASSUME RollsBack(f, x.reason)
      PROVE  RestoredCpu(f, c) \in CpuState /\ RestoredMem(f.saved, m) \in Memory
  <2>1. f.saved \in Saved
    BY <1>2 DEF RollsBack, RunFrame
  <2>2. f.saved.cpu \in CpuState /\ f.saved.sr \in Addr /\ f.saved.pc \in Addr
    BY <2>1 DEF Saved
  <2>3. RestoredCpu(f, c) \in CpuState
    BY <2>2 DEF RestoredCpu, CpuState
  <2>4. RestoredMem(f.saved, m) \in Memory
    BY <2>1, RestoredMemType
  <2> QED
    BY <2>3, <2>4
<1>3. cpu' \in CpuState /\ mem' \in Memory
  BY <1>2 DEF EndRun
<1> QED
  BY <1>1, <1>3 DEF EndRun

LEMMA EffectiveType ==
  ASSUME NEW n \in Requests
  PROVE  Effective(n) \in 1..MaxSlice
BY ExecutorAssumption DEF Effective

LEMMA StartRunType ==
  ASSUME Inv, NEW n \in Requests, NEW stop \in Addr \union {None},
         NEW rte \in BOOLEAN, NEW scope \in ExecutionIdentity \union {None},
         NEW saved \in Saved \union {None}, NEW c \in CpuState, NEW m \in Memory,
         StartRun(n, stop, rte, scope, saved, c, m)
  PROVE  /\ StackOK(stack')
         /\ suppressions' \in Seq(ExecutionIdentity)
         /\ cpu' \in CpuState
         /\ mem' \in Memory
<1> DEFINE f == [kind |-> "run", request |-> n, budget |-> Effective(n),
                 count |-> 0, auth |-> image.generation, stop |-> stop,
                 rte |-> rte, scope |-> scope, saved |-> saved]
<1>1. image.generation \in 0..MaxGeneration
  BY DEF Inv, TypeOK, Image
<1>2. Effective(n) \in 1..MaxSlice
  BY EffectiveType
<1>3. 0 \in 0..MaxSlice
  BY ExecutorAssumption
<1>4. f \in RunFrame
  BY <1>1, <1>2, <1>3 DEF RunFrame
<1>5. f \in Frame /\ f.kind = "run" /\ Within(f)
  BY <1>2, <1>4, ExecutorAssumption DEF Frame, Within
<1>6. stack' = Append(stack, f)
  BY DEF StartRun
<1> HIDE DEF f
<1>7. StackOK(stack')
  BY <1>5, <1>6, PushOK DEF Inv
<1>8. suppressions' \in Seq(ExecutionIdentity)
  BY AppendProperties DEF StartRun, Inv, TypeOK, RegistryTypeOK
<1> QED
  BY <1>7, <1>8 DEF StartRun

-----------------------------------------------------------------------------
(* The run loop preserves the invariant.                                   *)

(* What the actions find, and what they have to leave behind.              *)
LEMMA InvParts ==
  ASSUME Inv
  PROVE  /\ overrides \subseteq ExecutionIdentity
         /\ suppressions \in Seq(ExecutionIdentity)
         /\ active \in Seq(ExecutionIdentity)
         /\ cpu \in CpuState /\ mem \in Memory
         /\ image \in Image /\ image.generation \in 0..MaxGeneration
         /\ cpu.pc \in Addr /\ cpu.a7 \in Sp
         /\ Identity \in ExecutionIdentity
         /\ exit \in ExecutionExit /\ token \in CallContinuation
         /\ StackOK(stack)
BY DEF Inv, TypeOK, RegistryTypeOK, Memory, Image, CpuState, Identity,
       ExecutionIdentity

(* Leaving all but the machine, the stack, the suppressions and the reply  *)
(* alone.                                                                  *)
LEMMA MachineStep ==
  ASSUME Inv,
         StackOK(stack'), suppressions' \in Seq(ExecutionIdentity),
         exit' \in ExecutionExit, token' \in CallContinuation,
         cpu' \in CpuState, mem' \in Memory,
         active' \in Seq(ExecutionIdentity),
         UNCHANGED <<identityVars, overrides, setup>>
  PROVE  Inv'
BY DEF Inv, TypeOK, RegistryTypeOK, StackOK, Memory, identityVars, setup

LEMMA HeadReasonType == HeadReason(Top) # "Dispatch" => HeadReason(Top) \in Reasons
BY DEF HeadReason, Reasons

LEMMA RunStopsInv == Inv /\ RunStops => Inv'
<1> SUFFICES ASSUME Inv, RunStops PROVE Inv'
  OBVIOUS
<1>1. stack # <<>> /\ Top.kind = "run"
  BY DEF RunStops, Running
<1>2. Top \in RunFrame /\ Within(Top)
  BY <1>1, TopOK
<1>3. MakeExit(HeadReason(Top), Top.count) \in ExecutionExit
  BY <1>2, HeadReasonType, CountType, MakeExitType DEF RunStops
<1>4. StackOK(PopBack(stack))
  BY <1>1, PopOK DEF Inv
<1>5. EndRun(Top, PopBack(stack), MakeExit(HeadReason(Top), Top.count), cpu, mem,
             suppressions)
  BY DEF RunStops
<1>6. /\ StackOK(stack') /\ suppressions' \in Seq(ExecutionIdentity)
      /\ exit' \in ExecutionExit /\ cpu' \in CpuState /\ mem' \in Memory
  BY <1>2, <1>3, <1>4, <1>5, InvParts, EndRunType
<1> QED
  BY <1>6, InvParts, MachineStep DEF RunStops

LEMMA HandlerEnterInv == Inv /\ HandlerEnter => Inv'
<1> SUFFICES ASSUME Inv, HandlerEnter PROVE Inv'
  OBVIOUS
<1>1. stack # <<>> /\ stack[Len(stack)].kind = "run"
  BY DEF HandlerEnter, Running, Top
<1>2. [kind |-> "handler"] \in Frame
  BY DEF Frame, HandlerFrame
<1>3. StackOK(stack')
  BY <1>1, <1>2, PushOK DEF HandlerEnter, Inv
<1> QED
  BY <1>3, InvParts, MachineStep DEF HandlerEnter, machine, registryVars, replies

LEMMA OverrideEnterInv == Inv /\ OverrideEnter => Inv'
<1> SUFFICES ASSUME Inv, OverrideEnter PROVE Inv'
  OBVIOUS
<1>1. stack # <<>> /\ stack[Len(stack)].kind = "run"
  BY DEF OverrideEnter, Dispatching, Running, Top
<1>2. [kind |-> "native", id |-> Identity] \in Frame
  BY InvParts DEF Frame, NativeFrame
<1>3. StackOK(stack')
  BY <1>1, <1>2, PushOK DEF OverrideEnter, Inv
<1>4. /\ suppressions' \in Seq(ExecutionIdentity)
      /\ active' \in Seq(ExecutionIdentity)
  BY InvParts, AppendProperties DEF OverrideEnter
<1> QED
  BY <1>3, <1>4, InvParts, MachineStep DEF OverrideEnter, machine, replies

LEMMA RetiredType ==
  ASSUME NEW c \in CpuState
  PROVE  Retired(c) \in CpuState
<1>1. NextExecuted(c.executed) \in ExecutedCounter /\ NextCycles(c.cycles) \in CycleCounter
  BY CountersType DEF CpuState
<1> QED
  BY <1>1 DEF Retired, CpuState

LEMMA CountedOK ==
  ASSUME Inv, Dispatching
  PROVE  /\ Top \in RunFrame /\ Within(Top)
         /\ Top.count \in 0..MaxSlice /\ Top.count + 1 \in 0..MaxSlice
         /\ StackOK([stack EXCEPT ![Len(stack)] = Counted(Top)])
         /\ StackOK(PopBack(stack))
<1>1. stack # <<>> /\ Top.kind = "run" /\ ~Spent(Top)
  BY DEF Dispatching, Running, HeadReason
<1>2. Top \in RunFrame /\ Within(Top)
  BY <1>1, TopOK
<1>3. /\ Top.count \in 0..MaxSlice
      /\ Top.count + 1 \in 0..MaxSlice /\ Top.count + 1 <= Top.budget
  BY <1>1, <1>2, CountType
<1>4. Counted(Top) \in RunFrame /\ Within(Counted(Top))
  BY <1>2, <1>3 DEF Counted, RunFrame, Within
<1>5. StackOK([stack EXCEPT ![Len(stack)] = Counted(Top)])
  BY <1>1, <1>4, ReplaceTopOK DEF Top, Inv
<1> QED
  BY <1>1, <1>2, <1>3, <1>5, PopOK DEF Inv

(* A step of the core that ends the run.                                   *)
LEMMA StepEndsType ==
  ASSUME Inv, Dispatching, NEW out \in CoreOutcome, NEW x \in ExecutionExit,
         NEW c \in CpuState, StepEnds(out, x, c)
  PROVE  /\ StackOK(stack')
         /\ suppressions' \in Seq(ExecutionIdentity)
         /\ exit' \in ExecutionExit
         /\ cpu' \in CpuState
         /\ mem' \in Memory
<1>1. out.mem \in Memory
  BY DEF CoreOutcome
<1>2. EndRun(Top, PopBack(stack), x, c, out.mem, suppressions)
  BY DEF StepEnds
<1> QED
  BY <1>1, <1>2, CountedOK, InvParts, EndRunType

LEMMA StepContinuesType ==
  ASSUME Inv, Dispatching, NEW out \in CoreOutcome, StepContinues(out)
  PROVE  /\ StackOK(stack')
         /\ suppressions' \in Seq(ExecutionIdentity)
         /\ exit' \in ExecutionExit
         /\ cpu' \in CpuState
         /\ mem' \in Memory
<1>1. out.cpu \in CpuState /\ out.mem \in Memory
  BY DEF CoreOutcome
<1>2. Retired(out.cpu) \in CpuState
  BY <1>1, RetiredType
<1> QED
  BY <1>1, <1>2, CountedOK, InvParts DEF StepContinues

(* A step of the core, however it ends.                                    *)
LEMMA CoreStepsType ==
  ASSUME Inv, CoreSteps
  PROVE  /\ StackOK(stack')
         /\ suppressions' \in Seq(ExecutionIdentity)
         /\ exit' \in ExecutionExit
         /\ cpu' \in CpuState
         /\ mem' \in Memory
<1>1. PICK out \in CoreStep(cpu, mem, protected) :
        \/ StepContinues(out) \/ StepFaults(out) \/ StepTraps(out)
        \/ StepReturnsFromInterrupt(out) \/ StepHalts(out)
  BY DEF CoreSteps
<1>2. out \in CoreOutcome /\ Dispatching
  BY InvParts, CoreStepType DEF CoreSteps
<1>3. out.cpu \in CpuState /\ out.mem \in Memory /\ out.fault \in Faults
  BY <1>2 DEF CoreOutcome
<1>4. \A reason \in Reasons : /\ MakeExit(reason, Top.count) \in ExecutionExit
                              /\ MakeExit(reason, Top.count + 1) \in ExecutionExit
  BY <1>2, CountedOK, MakeExitType
<1>5. CASE StepContinues(out)
  BY <1>2, <1>5, StepContinuesType
<1>6. CASE StepFaults(out)
  <2>1. [out.cpu EXCEPT !.vector = "BusError"] \in CpuState
    BY <1>3 DEF CpuState, Vectors
  <2>2. Faulted(MakeExit("MemoryFault", Top.count), out.fault) \in ExecutionExit
    BY <1>3, <1>4, FaultedType DEF Reasons
  <2> QED
    BY <1>2, <1>6, <2>1, <2>2, StepEndsType DEF StepFaults
<1>7. CASE StepTraps(out)
  <2> DEFINE e == IF out.executed THEN NextExecuted(out.cpu.executed)
                  ELSE out.cpu.executed
             d == [out.cpu EXCEPT !.vector = "Trap", !.cycles = NextCycles(@),
                     !.executed = IF out.executed THEN NextExecuted(@) ELSE @]
             n == IF out.executed THEN Top.count + 1 ELSE Top.count
  <2>1. /\ NextExecuted(out.cpu.executed) \in ExecutedCounter
        /\ NextCycles(out.cpu.cycles) \in CycleCounter
    BY <1>3, CountersType DEF CpuState
  <2>2. d \in CpuState
    BY <1>3, <2>1 DEF CpuState, Vectors
  <2>3. MakeExit("Exception", n) \in ExecutionExit
    BY <1>4 DEF Reasons
  <2>4. StepEnds(out, MakeExit("Exception", n), d)
    BY <1>7 DEF StepTraps
  <2> QED
    BY <1>2, <2>2, <2>3, <2>4, StepEndsType
<1>8. CASE StepReturnsFromInterrupt(out)
  <2>1. MakeExit("ReturnToHost", Top.count + 1) \in ExecutionExit
    BY <1>4 DEF Reasons
  <2>2. Retired(out.cpu) \in CpuState
    BY <1>3, RetiredType
  <2> QED
    BY <1>2, <1>8, <2>1, <2>2, StepEndsType DEF StepReturnsFromInterrupt
<1>9. CASE StepHalts(out)
  <2>1. MakeExit("Halted", Top.count) \in ExecutionExit
    BY <1>4 DEF Reasons
  <2> QED
    BY <1>2, <1>3, <1>9, <2>1, StepEndsType DEF StepHalts
<1> QED
  BY <1>1, <1>5, <1>6, <1>7, <1>8, <1>9

LEMMA GuestStepInv == Inv /\ GuestStep => Inv'
<1> SUFFICES ASSUME Inv, GuestStep PROVE Inv'
  OBVIOUS
<1>1. /\ StackOK(stack') /\ suppressions' \in Seq(ExecutionIdentity)
      /\ exit' \in ExecutionExit /\ cpu' \in CpuState /\ mem' \in Memory
  BY CoreStepsType DEF GuestStep
<1>2. pending' \in ExecutionIdentity \union {None}
  BY DEF GuestStep, PendingAfterStep, Inv, TypeOK
<1> QED
  BY <1>1, <1>2 DEF GuestStep, Inv, TypeOK, RegistryTypeOK, StackOK, Memory, setup

LEMMA GuestStepReplacesImageInv ==
  ASSUME NEW tag \in Tags
  PROVE  Inv /\ GuestStepReplacesImage(tag) => Inv'
<1> SUFFICES ASSUME Inv, GuestStepReplacesImage(tag) PROVE Inv'
  OBVIOUS
<1>1. /\ StackOK(stack') /\ suppressions' \in Seq(ExecutionIdentity)
      /\ exit' \in ExecutionExit /\ cpu' \in CpuState /\ mem' \in Memory
  BY CoreStepsType DEF GuestStepReplacesImage
<1>2. image' \in Image
  BY InvParts, IdentityAssumption DEF GuestStepReplacesImage, Image
<1> QED
  BY <1>1, <1>2
     DEF GuestStepReplacesImage, Inv, TypeOK, RegistryTypeOK, StackOK, Memory, setup

-----------------------------------------------------------------------------
(* Callbacks and the title's own steps preserve the invariant.             *)

LEMMA NativeResultsType ==
  ASSUME Inv, NEW x \in NativeResults
  PROVE  x \in ExecutionExit
<1>1. MakeExit("InstructionBudget", 0) \in ExecutionExit
  BY ExecutorAssumption, MakeExitType DEF Reasons
<1>2. \A y \in ExecutionExit : /\ [y EXCEPT !.continue = TRUE] \in ExecutionExit
                               /\ [y EXCEPT !.hand_off = TRUE] \in ExecutionExit
  BY DEF ExecutionExit
<1>3. /\ [MakeExit("InstructionBudget", 0) EXCEPT !.continue = TRUE] \in ExecutionExit
      /\ [MakeExit("InstructionBudget", 0) EXCEPT !.hand_off = TRUE] \in ExecutionExit
  BY <1>1, <1>2, Zenon
<1> QED
  BY <1>1, <1>3, InvParts, Zenon DEF NativeResults

LEMMA OverrideExitType ==
  ASSUME NEW x \in ExecutionExit
  PROVE  OverrideExit(x) \in ExecutionExit
<1>1. MakeExit("UnterminatedNativeOverride", 0) \in ExecutionExit
  BY ExecutorAssumption, MakeExitType DEF Reasons
<1>2. /\ [x EXCEPT !.reason = "ReturnToHost"] \in ExecutionExit
      /\ [x EXCEPT !.reason = "NativeOverride"] \in ExecutionExit
  BY DEF ExecutionExit, Reasons
<1> QED
  BY <1>1, <1>2 DEF OverrideExit

LEMMA NativeContinuesInv ==
  ASSUME NEW x \in NativeResults
  PROVE  Inv /\ NativeContinues(x) => Inv'
<1> SUFFICES ASSUME Inv, NativeContinues(x) PROVE Inv'
  OBVIOUS
<1>1. stack # <<>> /\ Top.kind # "run"
  BY DEF NativeContinues, InNative
<1>2. Reauthorized(Caller) \in RunFrame
      /\ Within(Reauthorized(Caller))
  BY <1>1, TopOK, InvParts DEF Reauthorized, RunFrame, Within
<1>3. /\ StackOK(PopBack(stack)) /\ PopBack(stack) # <<>>
      /\ Len(PopBack(stack)) = Len(stack) - 1
      /\ PopBack(stack)[Len(PopBack(stack))].kind = "run"
  BY <1>1, TopOK, PopOK, InvParts
<1>4. StackOK([PopBack(stack) EXCEPT ![Len(PopBack(stack))] = Reauthorized(Caller)])
  BY <1>2, <1>3, ReplaceTopOK
<1>5. StackOK(stack')
  BY <1>3, <1>4 DEF NativeContinues
<1>6. /\ suppressions' \in Seq(ExecutionIdentity)
      /\ active' \in Seq(ExecutionIdentity)
  BY InvParts, PopBackType DEF NativeContinues
<1> QED
  BY <1>5, <1>6, InvParts, MachineStep DEF NativeContinues, machine, replies

LEMMA NativeReturnsInv ==
  ASSUME NEW x \in NativeResults
  PROVE  Inv /\ NativeReturns(x) => Inv'
<1> SUFFICES ASSUME Inv, NativeReturns(x) PROVE Inv'
  OBVIOUS
<1>1. stack # <<>> /\ Top.kind # "run"
  BY DEF NativeReturns, InNative
<1>2. OverrideExit(x) \in ExecutionExit
  BY NativeResultsType, OverrideExitType
<1>3. /\ PopBack(suppressions) \in Seq(ExecutionIdentity)
      /\ active' \in Seq(ExecutionIdentity)
  BY InvParts, PopBackType DEF NativeReturns
<1>4. EndRun(Caller, BelowCaller, OverrideExit(x), cpu, mem, PopBack(suppressions))
  BY DEF NativeReturns
<1>5. /\ StackOK(stack') /\ suppressions' \in Seq(ExecutionIdentity)
      /\ exit' \in ExecutionExit /\ cpu' \in CpuState /\ mem' \in Memory
  BY <1>1, <1>2, <1>3, <1>4, InvParts, TopOK, EndRunType
<1> QED
  BY <1>3, <1>5, InvParts, MachineStep DEF NativeReturns

LEMMA HandlerReturnsInv == Inv /\ HandlerReturns => Inv'
<1> SUFFICES ASSUME Inv, HandlerReturns PROVE Inv'
  OBVIOUS
<1>1. stack # <<>> /\ Top.kind # "run"
  BY DEF HandlerReturns
<1>2. MakeExit("Breakpoint", Caller.count) \in ExecutionExit
  BY <1>1, TopOK, CountType, MakeExitType DEF Reasons
<1>3. EndRun(Caller, BelowCaller, MakeExit("Breakpoint", Caller.count), cpu, mem,
             suppressions)
  BY DEF HandlerReturns
<1>4. /\ StackOK(stack') /\ suppressions' \in Seq(ExecutionIdentity)
      /\ exit' \in ExecutionExit /\ cpu' \in CpuState /\ mem' \in Memory
  BY <1>1, <1>2, <1>3, InvParts, TopOK, EndRunType
<1> QED
  BY <1>4, InvParts, MachineStep DEF HandlerReturns

LEMMA CallbackThrowsInv == Inv /\ CallbackThrows => Inv'
<1> SUFFICES ASSUME Inv, CallbackThrows PROVE Inv'
  OBVIOUS
<1>1. StackOK(stack')
  BY TopOK DEF CallbackThrows
<1> DEFINE s == IF InNative THEN PopBack(suppressions) ELSE suppressions
<1>2. s \in Seq(ExecutionIdentity)
  BY InvParts, PopBackType
<1>3. suppressions' = IF Caller.scope = None THEN s ELSE PopBack(s)
  BY DEF CallbackThrows
<1> HIDE DEF s
<1>4. suppressions' \in Seq(ExecutionIdentity)
  BY <1>2, <1>3, PopBackType
<1>5. active' \in Seq(ExecutionIdentity)
  BY InvParts, PopBackType DEF CallbackThrows
<1> QED
  BY <1>1, <1>4, <1>5, InvParts, MachineStep DEF CallbackThrows, machine, replies

(* The steps of a title that change the CPU and nothing else.              *)
LEMMA CpuOnly ==
  ASSUME Inv, cpu' \in CpuState,
         UNCHANGED <<mem, identityVars, registryVars, active, setup, stack, replies>>
  PROVE  Inv'
BY DEF Inv, TypeOK, RegistryTypeOK, StackOK, identityVars, registryVars, setup,
       replies

LEMMA TitleStepInv == Inv /\ TitleStep => Inv'
<1> SUFFICES ASSUME Inv, TitleStep PROVE Inv'
  OBVIOUS
<1>1. ASSUME NEW a \in Addr, TitleWritesPc(a) PROVE Inv'
  <2>1. [cpu EXCEPT !.pc = a] \in CpuState
    BY InvParts DEF CpuState
  <2> QED
    BY <1>1, <2>1, CpuOnly DEF TitleWritesPc
<1>2. ASSUME NEW sp \in Sp, TitleWritesA7(sp) PROVE Inv'
  <2>1. [cpu EXCEPT !.a7 = sp] \in CpuState
    BY InvParts DEF CpuState
  <2> QED
    BY <1>2, <2>1, CpuOnly DEF TitleWritesA7
<1>3. CASE TitleReturnsForGuest
  <2>1. cpu.a7 \in Cell
    BY <1>3, FaultTypes DEF TitleReturnsForGuest
  <2>2. mem[cpu.a7] \in Addr /\ cpu.a7 + 1 \in Sp
    BY <2>1, InvParts, CellSp DEF Memory
  <2>3. [cpu EXCEPT !.pc = mem[cpu.a7], !.a7 = @ + 1] \in CpuState
    BY <2>2, InvParts DEF CpuState
  <2> QED
    BY <1>3, <2>3, CpuOnly DEF TitleReturnsForGuest
<1>4. ASSUME NEW tag \in Tags, ReplaceImage(tag) PROVE Inv'
  <2>1. image' \in Image
    BY <1>4, InvParts, IdentityAssumption DEF ReplaceImage, Image
  <2> QED
    BY <1>4, <2>1 DEF ReplaceImage, Inv, TypeOK, RegistryTypeOK, StackOK, machine,
                      registryVars, setup, replies
<1>5. ASSUME NEW a \in Addr, RegisterOverride(a) PROVE Inv'
  <2>1. overrides' \subseteq ExecutionIdentity
    BY <1>5, InvParts DEF RegisterOverride, Install, ExecutionIdentity
  <2> QED
    BY <1>5, <2>1 DEF RegisterOverride, Inv, TypeOK, RegistryTypeOK, StackOK, machine,
                      identityVars, setup, replies
<1>6. ASSUME NEW id \in overrides, RemoveOverride(id) PROVE Inv'
  <2>1. overrides' \subseteq ExecutionIdentity
    BY <1>6, InvParts DEF RemoveOverride, Erase
  <2> QED
    BY <1>6, <2>1 DEF RemoveOverride, Inv, TypeOK, RegistryTypeOK, StackOK, machine,
                      identityVars, setup, replies
<1>7. ASSUME NEW a \in Addr, SetBreakpoint(a) PROVE Inv'
  BY <1>7 DEF SetBreakpoint, BP!AddTo, Inv, TypeOK, RegistryTypeOK, StackOK, machine,
              identityVars, registryVars, replies
<1>8. ASSUME NEW a \in Addr, ClearBreakpoint(a) PROVE Inv'
  BY <1>8 DEF ClearBreakpoint, BP!DropFrom, Inv, TypeOK, RegistryTypeOK, StackOK,
              machine, identityVars, registryVars, replies
<1>9. CASE ClearBreakpoints
  BY <1>9 DEF ClearBreakpoints, Inv, TypeOK, RegistryTypeOK, StackOK, machine,
              identityVars, registryVars, replies
<1>10. ASSUME NEW set \in BOOLEAN, SetBreakpointHandler(set) PROVE Inv'
  BY <1>10 DEF SetBreakpointHandler, Inv, TypeOK, RegistryTypeOK, StackOK, machine,
               identityVars, registryVars, replies
<1>11. ASSUME NEW on \in BOOLEAN, TitleProtects(on) PROVE Inv'
  BY <1>11 DEF TitleProtects, Inv, TypeOK, RegistryTypeOK, StackOK, machine,
               identityVars, registryVars, replies
<1> QED
  BY <1>1, <1>2, <1>3, <1>4, <1>5, <1>6, <1>7, <1>8, <1>9, <1>10, <1>11 DEF TitleStep

-----------------------------------------------------------------------------
(* The title's calls preserve the invariant.                               *)

LEMMA AnswersInv ==
  ASSUME Inv, Unmoved, NEW x \in ExecutionExit, NEW c \in CpuState,
         NEW t \in CallContinuation, Answers(x, c, t)
  PROVE  Inv'
BY InvParts, MachineStep DEF Answers, Unmoved

LEMMA ThrowsInv ==
  ASSUME Inv, Unmoved, NEW c \in CpuState, NEW t \in CallContinuation, Throws(c, t)
  PROVE  Inv'
BY InvParts, AnswersInv DEF Throws

LEMMA StartRunInv ==
  ASSUME Inv, Unmoved, UNCHANGED exit, token' \in CallContinuation,
         NEW n \in Requests, NEW stop \in Addr \union {None},
         NEW rte \in BOOLEAN, NEW scope \in ExecutionIdentity \union {None},
         NEW saved \in Saved \union {None}, NEW c \in CpuState, NEW m \in Memory,
         StartRun(n, stop, rte, scope, saved, c, m)
  PROVE  Inv'
BY StartRunType, InvParts, MachineStep DEF Unmoved

LEMMA RefusalTypes ==
  /\ MakeExit("NoImage", 0) \in ExecutionExit
  /\ MakeExit("ImageReplaced", 0) \in ExecutionExit
  /\ \A fault \in Faults : Faulted(MakeExit("MemoryFault", 0), fault) \in ExecutionExit
<1>1. /\ MakeExit("NoImage", 0) \in ExecutionExit
      /\ MakeExit("ImageReplaced", 0) \in ExecutionExit
      /\ MakeExit("MemoryFault", 0) \in ExecutionExit
  BY ExecutorAssumption, MakeExitType DEF Reasons
<1> QED
  BY <1>1, FaultedType

LEMMA NoTokenType == NoToken \in CallContinuation
<1>1. NoIdentity.image \in Image /\ NoIdentity \in ExecutionIdentity
  BY GuestAssumption, IdentityAssumption DEF NoIdentity, Image, ExecutionIdentity
<1> QED
  BY <1>1, GuestAssumption DEF NoToken, CallContinuation, CallBoundary

LEMMA LastActiveType ==
  ASSUME Inv, active # <<>>
  PROVE  Last(active) \in ExecutionIdentity
BY InvParts, LastType

LEMMA ExecuteInv ==
  ASSUME NEW n \in Requests
  PROVE  Inv /\ Execute(n) => Inv'
<1> SUFFICES ASSUME Inv, Execute(n) PROVE Inv'
  OBVIOUS
<1> DEFINE c == Synchronized(cpu)
<1>1. c \in CpuState
  BY InvParts, SynchronizedType
<1>2. Unmoved
  BY DEF Execute
<1> HIDE DEF c
<1>3. CASE Answers(MakeExit("NoImage", 0), cpu, token)
  BY <1>2, <1>3, RefusalTypes, InvParts, AnswersInv
<1>4. CASE Throws(c, token)
  BY <1>1, <1>2, <1>4, InvParts, ThrowsInv
<1>5. CASE StartRun(n, None, FALSE, None, None, c, mem) /\ UNCHANGED replies
  BY <1>1, <1>2, <1>5, InvParts, StartRunInv DEF replies
<1> QED
  BY <1>3, <1>4, <1>5 DEF Execute, c

LEMMA StartCallInv ==
  ASSUME Inv, Unmoved, NEW a \in Addr, NEW boundary \in CallBoundary,
         NEW n \in Requests, NEW given \in Given,
         NEW stop \in Addr \union {None}, NEW c \in CpuState, NEW m \in Memory,
         stop # None => active # <<>>,
         StartCall(a, boundary, n, given, stop, c, m)
  PROVE  Inv'
<1> DEFINE scope == IF active # <<>> /\ boundary # "HostSubroutine"
                    THEN Last(active) ELSE None
           d == [c EXCEPT !.pc = a]
<1>1. scope \in ExecutionIdentity \union {None}
  BY LastActiveType
<1>2. d \in CpuState
  BY DEF CpuState
<1>3. ASSUME stop # None
      PROVE  [boundary |-> boundary, return_pc |-> stop, image |-> image,
              owner |-> Last(active), valid |-> TRUE] \in CallContinuation
  <2>1. stop \in Addr
    BY <1>3
  <2>2. Last(active) \in ExecutionIdentity
    BY <1>3, LastActiveType
  <2> QED
    BY <2>1, <2>2, InvParts DEF CallContinuation
<1>4. TokenFor(boundary, stop) \in CallContinuation
  BY <1>3, NoTokenType DEF TokenFor
<1>5. token' \in CallContinuation
  BY <1>4, InvParts DEF StartCall
<1>6. StartRun(n, stop, FALSE, scope, None, d, m) /\ UNCHANGED exit
  BY DEF StartCall
<1> HIDE DEF scope, d
<1> QED
  BY <1>1, <1>2, <1>5, <1>6, StartRunInv

LEMMA CallInv ==
  ASSUME NEW a \in Addr, NEW boundary \in CallBoundary, NEW n \in Requests,
         NEW given \in Given
  PROVE  Inv /\ Call(a, boundary, n, given) => Inv'
<1> SUFFICES ASSUME Inv, Call(a, boundary, n, given) PROVE Inv'
  OBVIOUS
<1> DEFINE t == IF given = "kept" THEN NoToken ELSE token
           c == Synchronized(cpu)
           Fails(fault) == Answers(Faulted(MakeExit("MemoryFault", 0), fault), c, t)
           Pushes == StartCall(a, boundary, n, given, c.pc, [c EXCEPT !.a7 = @ - 1],
                               [mem EXCEPT ![c.a7 - 1] = c.pc])
           Returns == StartCall(a, boundary, n, given, mem[c.a7], c, mem)
           Jumps == StartCall(a, boundary, n, given, None, c, mem)
<1>1. t \in CallContinuation /\ c \in CpuState /\ Unmoved
  BY InvParts, NoTokenType, SynchronizedType DEF Call
<1>2. \/ Answers(MakeExit("NoImage", 0), cpu, t)
      \/ Throws(cpu, t)
      \/ Throws(c, t)
      \/ WriteFault(c.a7 - 1, protected) # "None" /\ Fails(WriteFault(c.a7 - 1, protected))
      \/ WriteFault(c.a7 - 1, protected) = "None" /\ active # <<>> /\ Pushes
      \/ ReadFault(c.a7) # "None" /\ Fails(ReadFault(c.a7))
      \/ ReadFault(c.a7) = "None" /\ active # <<>> /\ Returns
      \/ Jumps
  BY DEF Call
<1>3. c.a7 \in Sp /\ c.pc \in Addr
  BY <1>1 DEF CpuState
<1> HIDE DEF t, c
<1>4. CASE Answers(MakeExit("NoImage", 0), cpu, t)
  BY <1>1, <1>4, RefusalTypes, InvParts, AnswersInv
<1>5. CASE Throws(cpu, t) \/ Throws(c, t)
  BY <1>1, <1>5, InvParts, ThrowsInv
<1>6. CASE Fails(WriteFault(c.a7 - 1, protected)) \/ Fails(ReadFault(c.a7))
  <2>1. WriteFault(c.a7 - 1, protected) \in Faults /\ ReadFault(c.a7) \in Faults
    BY FaultTypes
  <2> QED
    BY <1>1, <1>6, <2>1, RefusalTypes, AnswersInv
<1>7. CASE WriteFault(c.a7 - 1, protected) = "None" /\ active # <<>> /\ Pushes
  <2>1. c.a7 - 1 \in Sp
    BY <1>7, FaultTypes, CellSp
  <2>2. [c EXCEPT !.a7 = @ - 1] \in CpuState
    BY <1>1, <2>1 DEF CpuState
  <2>3. [mem EXCEPT ![c.a7 - 1] = c.pc] \in Memory
    BY <1>3, InvParts DEF Memory
  <2> QED
    BY <1>1, <1>3, <1>7, <2>2, <2>3, StartCallInv
<1>8. CASE ReadFault(c.a7) = "None" /\ active # <<>> /\ Returns
  <2>1. mem[c.a7] \in Addr
    BY <1>8, FaultTypes, InvParts DEF Memory
  <2> QED
    BY <1>1, <1>8, <2>1, InvParts, StartCallInv
<1>9. CASE Jumps
  BY <1>1, <1>9, InvParts, StartCallInv
<1> QED
  BY <1>2, <1>4, <1>5, <1>6, <1>7, <1>8, <1>9

LEMMA ContinueCallInv ==
  ASSUME NEW n \in Requests
  PROVE  Inv /\ ContinueCall(n) => Inv'
<1> SUFFICES ASSUME Inv, ContinueCall(n) PROVE Inv'
  OBVIOUS
<1> DEFINE c == Synchronized(cpu)
           scope == IF token.boundary = "GuestSubroutine" THEN Last(active) ELSE None
<1>1. c \in CpuState /\ Unmoved
  BY InvParts, SynchronizedType DEF ContinueCall
<1>2. scope \in ExecutionIdentity \union {None} /\ token.return_pc \in Addr
  BY LastActiveType, InvParts DEF ContinueCall, CallContinuation
<1>3. \/ Answers(MakeExit("ImageReplaced", 0), cpu, token)
      \/ Throws(cpu, token)
      \/ Throws(c, token)
      \/ StartRun(n, token.return_pc, FALSE, scope, None, c, mem) /\ UNCHANGED replies
  BY DEF ContinueCall
<1> HIDE DEF c, scope
<1>4. CASE Answers(MakeExit("ImageReplaced", 0), cpu, token)
  BY <1>1, <1>4, RefusalTypes, InvParts, AnswersInv
<1>5. CASE Throws(cpu, token) \/ Throws(c, token)
  BY <1>1, <1>5, InvParts, ThrowsInv
<1>6. CASE StartRun(n, token.return_pc, FALSE, scope, None, c, mem) /\ UNCHANGED replies
  BY <1>1, <1>2, <1>6, InvParts, StartRunInv DEF replies
<1> QED
  BY <1>3, <1>4, <1>5, <1>6

LEMMA RefusesFrameInv ==
  ASSUME Inv, Unmoved, NEW s \in Saved, NEW c \in CpuState, NEW m \in Memory,
         NEW fault \in Faults, RefusesFrame(s, c, m, fault)
  PROVE  Inv'
<1>1. exit' \in ExecutionExit
  BY RefusalTypes DEF RefusesFrame
<1>2. mem' \in Memory
  BY RestoredMemType DEF RefusesFrame
<1> QED
  BY <1>1, <1>2, InvParts, MachineStep DEF RefusesFrame, Unmoved

LEMMA CallInterruptInv ==
  ASSUME NEW a \in Addr, NEW n \in Requests
  PROVE  Inv /\ CallInterrupt(a, n) => Inv'
<1> SUFFICES ASSUME Inv, CallInterrupt(a, n) PROVE Inv'
  OBVIOUS
<1> DEFINE c == Synchronized(cpu)
           at == c.ssp - 2
           Fault(cell) == WriteFault(cell, protected)
           Fails(fault) == Answers(Faulted(MakeExit("MemoryFault", 0), fault), c, token)
           saved == [cpu |-> c, at |-> at, sr |-> mem[at], pc |-> mem[at + 1]]
           word == IF c.super THEN SuperSR ELSE ZeroWord
           pushed == Stored(mem, at, word)
           d == [c EXCEPT !.ssp = at, !.a7 = at, !.super = TRUE, !.pc = a]
           m == Stored(pushed, at + 1, c.pc)
<1>1. c \in CpuState /\ Unmoved
  BY InvParts, SynchronizedType DEF CallInterrupt
<1>2. \/ Fails("None") \/ Fails(ReadFault(at)) \/ Fails(ReadFault(at + 1))
      \/ Fails(Fault(at))
      \/ /\ ReadFault(at) = "None" /\ ReadFault(at + 1) = "None"
         /\ \/ RefusesFrame(saved, c, pushed, Fault(at + 1))
            \/ StartRun(n, None, TRUE, None, saved, d, m) /\ UNCHANGED replies
  BY DEF CallInterrupt
<1>3. CASE \/ Fails("None") \/ Fails(ReadFault(at)) \/ Fails(ReadFault(at + 1))
           \/ Fails(Fault(at))
  <2> HIDE DEF c, at
  <2>1. {"None", ReadFault(at), ReadFault(at + 1), Fault(at)} \subseteq Faults
    BY FaultTypes DEF Faults
  <2> QED
    BY <1>1, <1>3, <2>1, RefusalTypes, InvParts, AnswersInv
<1>4. CASE /\ ReadFault(at) = "None" /\ ReadFault(at + 1) = "None"
           /\ \/ RefusesFrame(saved, c, pushed, Fault(at + 1))
              \/ StartRun(n, None, TRUE, None, saved, d, m) /\ UNCHANGED replies
  <2> HIDE DEF c, at
  <2>1. at \in Cell /\ at + 1 \in Cell /\ at \in Sp
    BY <1>4, FaultTypes, CellSp
  <2>2. mem[at] \in Addr /\ mem[at + 1] \in Addr /\ c.pc \in Addr /\ word \in Addr
    BY <1>1, <2>1, InvParts, GuestAssumption DEF Memory, CpuState
  <2>3. saved \in Saved
    BY <1>1, <2>1, <2>2 DEF Saved, FrameCell
  <2>4. d \in CpuState
    BY <1>1, <2>1 DEF CpuState
  <2>5. pushed \in Memory /\ m \in Memory
    <3> HIDE DEF word
    <3> QED BY <2>2, InvParts DEF Memory, Stored
  <2>6. Fault(at + 1) \in Faults
    BY FaultTypes
  <2> HIDE DEF saved, d, m, pushed, Fault
  <2> QED
    BY <1>1, <1>4, <2>3, <2>4, <2>5, <2>6, InvParts, StartRunInv, RefusesFrameInv
       DEF replies
<1> QED
  BY <1>2, <1>3, <1>4

LEMMA CallOriginalInv ==
  ASSUME NEW n \in Requests
  PROVE  Inv /\ CallOriginal(n) => Inv'
<1> SUFFICES ASSUME Inv, CallOriginal(n) PROVE Inv'
  OBVIOUS
<1>1. Synchronized(cpu) \in CpuState /\ Last(active) \in ExecutionIdentity
  BY InvParts, SynchronizedType, LastActiveType DEF CallOriginal
<1> QED
  BY <1>1, InvParts, StartRunInv DEF CallOriginal, replies

LEMMA CallOriginalSubroutineInv ==
  ASSUME NEW n \in Requests
  PROVE  Inv /\ CallOriginalSubroutine(n) => Inv'
<1> SUFFICES ASSUME Inv, CallOriginalSubroutine(n) PROVE Inv'
  OBVIOUS
<1> DEFINE c == Synchronized(cpu)
<1>1. c \in CpuState /\ Last(active) \in ExecutionIdentity /\ Unmoved
  BY InvParts, SynchronizedType, LastActiveType DEF CallOriginalSubroutine
<1>2. \/ Answers(Faulted(MakeExit("MemoryFault", 0), ReadFault(c.a7)), c, token)
      \/ /\ ReadFault(c.a7) = "None"
         /\ StartRun(n, mem[c.a7], FALSE, Last(active), None, c, mem)
         /\ UNCHANGED replies
  BY DEF CallOriginalSubroutine
<1> HIDE DEF c
<1>3. CASE Answers(Faulted(MakeExit("MemoryFault", 0), ReadFault(c.a7)), c, token)
  <2>1. ReadFault(c.a7) \in Faults
    BY FaultTypes
  <2> QED
    BY <1>1, <1>3, <2>1, RefusalTypes, InvParts, AnswersInv
<1>4. CASE /\ ReadFault(c.a7) = "None"
           /\ StartRun(n, mem[c.a7], FALSE, Last(active), None, c, mem)
           /\ UNCHANGED replies
  <2>1. mem[c.a7] \in Addr
    BY <1>4, FaultTypes, InvParts DEF Memory
  <2> QED
    BY <1>1, <1>4, <2>1, InvParts, StartRunInv DEF replies
<1> QED
  BY <1>2, <1>3, <1>4

LEMMA ContinueOriginalInv == Inv /\ ContinueOriginal => Inv'
<1> SUFFICES ASSUME Inv, ContinueOriginal PROVE Inv'
  OBVIOUS
<1>1. exit' \in ExecutionExit
  <2>1. MakeExit("NativeOverride", 0) \in ExecutionExit
    BY ExecutorAssumption, MakeExitType DEF Reasons
  <2> QED
    BY <2>1 DEF ContinueOriginal, ExecutionExit
<1>2. pending' \in ExecutionIdentity \union {None}
  BY LastActiveType DEF ContinueOriginal
<1> QED
  BY <1>1, <1>2 DEF ContinueOriginal, Inv, TypeOK, RegistryTypeOK, StackOK, machine,
                    registryVars, setup

-----------------------------------------------------------------------------
(* The invariant holds.                                                    *)

LEMMA InvInit == Init => Inv
<1> SUFFICES ASSUME Init PROVE Inv
  OBVIOUS
<1>1. /\ overrides \subseteq ExecutionIdentity
      /\ suppressions \in Seq(ExecutionIdentity) /\ active \in Seq(ExecutionIdentity)
      /\ stack \in Seq(Frame) /\ Len(stack) = 0
  BY EmptySeq DEF Init, RegistryInit
<1>2. cpu \in CpuState
  BY GuestAssumption DEF Init, CpuState, Sp, ExecutedCounter, CycleCounter, Vectors
<1>3. mem \in [Cell -> Addr]
  BY GuestAssumption DEF Init
<1>4. image \in Image
  BY IdentityAssumption DEF Init, NoIdentity, Image
<1>5. exit \in ExecutionExit /\ token \in CallContinuation
  BY RefusalTypes, NoTokenType DEF Init
<1>6. StackOK(stack)
  BY <1>1 DEF StackOK
<1> QED
  BY <1>1, <1>2, <1>3, <1>4, <1>5, <1>6 DEF Init, Inv, TypeOK, RegistryTypeOK

LEMMA InvNext == Inv /\ [Next]_vars => Inv'
<1> SUFFICES ASSUME Inv, [Next]_vars PROVE Inv'
  OBVIOUS
<1>1. CASE RunLoop
  BY <1>1, RunStopsInv, HandlerEnterInv, OverrideEnterInv, GuestStepInv,
     GuestStepReplacesImageInv DEF RunLoop
<1>2. CASE CallbackEnds
  BY <1>2, NativeContinuesInv, NativeReturnsInv, HandlerReturnsInv, CallbackThrowsInv
     DEF CallbackEnds
<1>3. CASE TitleStep
  BY <1>3, TitleStepInv
<1>4. CASE TitleCall
  BY <1>4, ExecuteInv, ContinueCallInv, CallOriginalInv, CallOriginalSubroutineInv,
     CallInterruptInv, CallInv, ContinueOriginalInv DEF TitleCall
<1>5. CASE UNCHANGED vars
  BY <1>5 DEF vars, machine, identityVars, registryVars, setup, replies, Inv,
              TypeOK, RegistryTypeOK, StackOK
<1> QED
  BY <1>1, <1>2, <1>3, <1>4, <1>5 DEF Next

(* Every reachable state of the executor has its type: no nesting of runs, *)
(* callbacks, throws and rollbacks puts a value where the code has no room *)
(* for it (the members of Impl and of ExecutionExit).                      *)
THEOREM ExecutorTypeOK == Spec => []TypeOK
<1>1. Inv => TypeOK
  BY DEF Inv
<1> QED
  BY <1>1, InvInit, InvNext, PTL DEF Spec

(* No run on the stack has retired more than its caller asked for, or than *)
(* a slice, for every request, slice limit and nesting (the clamp and the  *)
(* loop condition of run, and the extra count of an instruction that       *)
(* traps).                                                                 *)
THEOREM ExecutorWithinBudget == Spec => []RunsWithinBudget
<1>1. Inv => RunsWithinBudget
  <2> SUFFICES ASSUME Inv PROVE RunsWithinBudget
    OBVIOUS
  <2>1. DOMAIN stack = 1..Len(stack)
    BY LenProperties DEF Inv, StackOK
  <2>2. ASSUME NEW f \in RunFrame, Within(f)
        PROVE  f.count <= MaxSlice /\ (f.request # 0 => f.count <= f.request)
    <3>1. f.request \in Requests /\ f.count \in 0..MaxSlice /\ f.budget \in 1..MaxSlice
      BY <2>2 DEF RunFrame
    <3>2. f.count <= f.budget /\ f.budget = Effective(f.request)
      BY <2>2 DEF Within
    <3>3. \A n \in Nat : Effective(n) <= MaxSlice /\ (n # 0 => Effective(n) <= n)
      BY ExecutorAssumption DEF Effective
    <3>4. f.request \in Nat
      BY <3>1, ExecutorAssumption
    <3>5. f.budget <= MaxSlice /\ (f.request # 0 => f.budget <= f.request)
      BY <3>2, <3>3, <3>4, Zenon
    <3>6. f.count \in Nat /\ f.budget \in Nat /\ MaxSlice \in Nat
      BY <3>1, ExecutorAssumption
    <3> QED
      BY <3>2, <3>4, <3>5, <3>6
  <2>3. \A i \in 1..Len(stack) :
          stack[i].kind = "run" => stack[i] \in RunFrame /\ Within(stack[i])
    BY ElementOfSeq, FrameKinds DEF Inv, StackOK
  <2> QED
    BY <2>1, <2>2, <2>3 DEF RunsWithinBudget
<1> QED
  BY <1>1, InvInit, InvNext, PTL DEF Spec

-----------------------------------------------------------------------------
(* The bypass of an override belongs to the current image.                 *)

LEMMA PendingNext == PendingIsCurrent /\ [Next]_vars => PendingIsCurrent'
<1> SUFFICES ASSUME PendingIsCurrent, [Next]_vars PROVE PendingIsCurrent'
  OBVIOUS
<1>1. CASE UNCHANGED identityVars
  BY <1>1 DEF PendingIsCurrent, identityVars
<1>2. CASE pending' = None
  BY <1>2 DEF PendingIsCurrent
<1>3. CASE RunLoop
  <2>1. CASE RunStops \/ HandlerEnter \/ OverrideEnter
    BY <1>1, <2>1 DEF RunStops, HandlerEnter, OverrideEnter
  <2>2. CASE GuestStep
    BY <2>2 DEF GuestStep, PendingAfterStep, PendingIsCurrent
  <2>3. ASSUME NEW tag \in Tags, GuestStepReplacesImage(tag) PROVE PendingIsCurrent'
    BY <1>2, <2>3 DEF GuestStepReplacesImage
  <2> QED
    BY <1>3, <2>1, <2>2, <2>3 DEF RunLoop
<1>4. CASE CallbackEnds
  BY <1>1, <1>4 DEF CallbackEnds, NativeContinues, NativeReturns, HandlerReturns,
                    CallbackThrows
<1>5. CASE TitleStep
  <2>1. ASSUME NEW tag \in Tags, ReplaceImage(tag) PROVE PendingIsCurrent'
    BY <1>2, <2>1 DEF ReplaceImage
  <2> QED
    BY <1>1, <1>5, <2>1
       DEF TitleStep, TitleWritesPc, TitleWritesA7, TitleReturnsForGuest,
           RegisterOverride, RemoveOverride, SetBreakpoint, ClearBreakpoint,
           ClearBreakpoints, SetBreakpointHandler, TitleProtects
<1>6. CASE TitleCall
  <2>1. CASE ContinueOriginal
    BY <2>1 DEF ContinueOriginal, PendingIsCurrent, Identity
  <2>2. CASE Unmoved
    BY <1>1, <2>2 DEF Unmoved
  <2> QED
    BY <1>6, <2>1, <2>2 DEF TitleCall, Execute, ContinueCall, CallOriginal,
                            CallOriginalSubroutine, CallInterrupt, Call
<1>7. CASE UNCHANGED vars
  BY <1>1, <1>7 DEF vars, identityVars
<1> QED
  BY <1>3, <1>4, <1>5, <1>6, <1>7 DEF Next

(* A bypass asked for by continue_original is never spent on another image *)
(* than the one it was asked in (replace_image resets pending_original,    *)
(* from a title's call and from a memory callback inside a guest step).    *)
THEOREM ExecutorPendingIsCurrent == Spec => []PendingIsCurrent
<1>1. Init => PendingIsCurrent
  BY DEF Init, PendingIsCurrent
<1> QED
  BY <1>1, PendingNext, PTL DEF Spec
=============================================================================
