------------------------- MODULE ExecutorProperties -------------------------
(***************************************************************************)
(* What the executor promises its title, over every nesting of runs,       *)
(* native overrides and breakpoint handlers.                               *)
(***************************************************************************)
EXTENDS Executor

(* The entry that a frame keeps open in active_overrides, and the one it   *)
(* keeps open in suppressions_, if any.                                    *)
ActiveMark(f) == IF f.kind = "native" THEN f.id ELSE None
ScopeMark(f) ==
  IF f.kind = "native" THEN f.id
  ELSE IF f.kind = "run" THEN f.scope ELSE None

ActiveMarks(s) == [i \in DOMAIN s |-> ActiveMark(s[i])]
ScopeMarks(s) == [i \in DOMAIN s |-> ScopeMark(s[i])]

(* How many of the first i frames keep an entry open.                      *)
MarkedUpTo(marks, i) == Cardinality({j \in 1..i : marks[j] # None})

(* q has one entry for each mark, in their order, and no other.            *)
Mirrors(q, marks) ==
  /\ Len(q) = MarkedUpTo(marks, Len(marks))
  /\ \A i \in DOMAIN marks :
       marks[i] # None => q[MarkedUpTo(marks, i)] = marks[i]
  /\ \A k \in DOMAIN q : \E i \in DOMAIN marks :
       marks[i] # None /\ MarkedUpTo(marks, i) = k

(* active_overrides and suppressions_ always hold one entry per C++ scope  *)
(* alive on the call stack, in its order, however the scopes were left: by *)
(* a return, a continuation or an exception (ActiveOverrideScope and       *)
(* ScopedSuppression pop whatever is last).                                *)
ScopesMirrorStack ==
  /\ Mirrors(active, ActiveMarks(stack))
  /\ Mirrors(suppressions, ScopeMarks(stack))

(* No override is ever entered while an activation of it is on the stack:  *)
(* its own nested calls reach the guest code it replaces instead of        *)
(* recursing into it (run_override and OverrideRegistry::find).            *)
NoOverrideReentered ==
  /\ IsInjective(active)
  /\ Range(active) \subseteq Range(suppressions)

(* An override is hidden from dispatch only while an activation of it is   *)
(* on the call stack: no scope that a return, a continuation or an         *)
(* exception left behind keeps an override out of use (ScopedSuppression). *)
HiddenOnlyWhileActive == Range(suppressions) \subseteq Range(active)

Natives == {i \in DOMAIN stack : stack[i].kind = "native"}

(* Overrides may call each other through the guest, but not without end:   *)
(* they are never nested deeper than there are registered overrides, which *)
(* is what keeps the C++ stack from growing with the guest's recursion     *)
(* (run_override; OverrideRegistry::find).                                 *)
OverridesNestBounded == Cardinality(Natives) <= Cardinality(overrides)

(* An image seen before: older than the current one, or the current one.   *)
Seen(i) == i.generation < image.generation \/ i = image

(* A generation names one image, wherever the executor still holds one: in *)
(* active_overrides, a suppression, a pending bypass or a token, however   *)
(* often images are replaced meanwhile.  So a run may compare generations  *)
(* alone, and an identity that matches is of the image that is loaded      *)
(* (replace_image; run's authorized_generation; ImageIdentity).            *)
GenerationNamesImage ==
  /\ \A id \in Range(active) \union Range(suppressions) : Seen(id.image)
  /\ pending # None => Seen(pending.image)
  /\ token.valid => Seen(token.image) /\ Seen(token.owner.image)
  /\ \A i \in DOMAIN stack :
       stack[i].kind = "run" => stack[i].auth <= image.generation

(* A bypass that continue_original asked for never outlives the image it   *)
(* was asked in, so it cannot hit the same address of a later image        *)
(* (replace_image resets pending_original).                                *)
PendingIsCurrent == pending # None => pending.image = image

(* A step of the guest's CPU, seen from outside the run loop.              *)
GuestSteps == Running /\ stack' # stack /\ Len(stack') <= Len(stack)
              /\ HeadReason(Top) = "Dispatch"

(* Guest code that a registered override replaces is executed only from    *)
(* inside an activation of that override, which calls the original, or     *)
(* because continue_original asked for it, and then once: no scope that    *)
(* some way out of a callback left behind, and no bypass that was used,    *)
(* lets the guest run past an override (run; ScopedSuppression;            *)
(* continue_original).                                                     *)
OriginalOnlyByRequest ==
  [][ GuestSteps /\ Identity \in overrides =>
        \/ Identity \in Range(active)
        \/ pending = Identity /\ pending' = None ]_vars

(* A run whose image was replaced under it does nothing more: it ends at   *)
(* its next turn, and answers that it is spent, that the CPU has halted or *)
(* that the image was replaced, never for a stop address or a breakpoint   *)
(* that now lies in another image.  Only an override that the run entered  *)
(* itself, by asking to continue, moves it to the image that is current    *)
(* then (run's authorized_generation).                                     *)
RunsOnlyItsImage ==
  [][ /\ Running /\ Top.auth # image.generation =>
           /\ Len(stack') < Len(stack)
           /\ active' = active
           /\ exit'.reason \in {"InstructionBudget", "Halted", "ImageReplaced"}
      /\ \A i \in DOMAIN stack \intersect DOMAIN stack' :
           stack[i].kind = "run" /\ stack'[i].auth # stack[i].auth
             => /\ stack'[i].auth = image.generation
                /\ i + 1 = Len(stack)
                /\ stack[i + 1].kind = "native" ]_vars

(* elapsed_cycles, from which a host derives the video beam, never goes    *)
(* back: not by the rollback of an interrupt, nor by a title's throw       *)
(* (call_interrupt carries the counter across the restore).                *)
GuestTimeMonotonic ==
  [][ cpu'.cycles \in {cpu.cycles, NextCycles(cpu.cycles)} ]_vars

(* The run of call_interrupt that just returned to its caller; a run that  *)
(* an exception unwinds does not return.                                   *)
EndsInterrupt(i) ==
  /\ i = Len(stack') + 1 /\ i \in DOMAIN stack
  /\ stack[i].kind = "run" /\ stack[i].saved # None
  /\ ~CallbackThrows

(* An interrupt that ends for any other reason than a return leaves the    *)
(* interrupted guest as it was, but for what it counts: registers, PC,     *)
(* status and, where the title's memory still accepts a write, the two     *)
(* words its frame overwrote (call_interrupt).                             *)
InterruptUndone ==
  [][ \A i \in DOMAIN stack :
        EndsInterrupt(i) /\ exit'.reason # "ReturnToHost" =>
          LET s == stack[i].saved
          IN  /\ [cpu' EXCEPT !.cycles = s.cpu.cycles, !.executed = s.cpu.executed]
                   = s.cpu
              /\ WriteFault(s.at, protected) = "None" => mem'[s.at] = s.sr
              /\ WriteFault(s.at + 1, protected) = "None" => mem'[s.at + 1] = s.pc ]_vars

(* A call that answers or throws without having started a run has left no  *)
(* trace in the guest: no half of a frame in its memory, no moved stack    *)
(* pointer, no new PC; at most a shadow stack pointer is brought up to     *)
(* date (call, call_interrupt and its restore_frame, continue_call).       *)
RefusedCallUndone ==
  [][ TitleCall /\ stack' = stack =>
        mem' = mem /\ cpu' \in {cpu, Synchronized(cpu)} ]_vars

(* Past the first instruction of a run, no instruction at a breakpoint is  *)
(* executed and no override there is entered (executor.hpp, set_breakpoint;*)
(* Breakpoints::contains in run).                                          *)
BreakpointStopsRun ==
  [][ Running /\ Top.count > 0 /\ cpu.pc \in breakpoints =>
        ~GuestSteps /\ active' = active ]_vars

(* Every run is within the budget its caller asked for, if it asked for    *)
(* one, and within the slice limit of the configuration, on every path     *)
(* that counts and through every continuation (run).                       *)
RunsWithinBudget ==
  \A i \in DOMAIN stack :
    stack[i].kind = "run" =>
      /\ stack[i].count <= MaxSlice
      /\ stack[i].request # 0 => stack[i].count <= stack[i].request

(* No turn of the run loop is free: it ends the run, calls the title, or   *)
(* charges the run one instruction.  Together with RunsWithinBudget this   *)
(* is why a run without callbacks comes back (run).                        *)
RunLoopCharges ==
  [][ Running =>
        \/ Len(stack') # Len(stack)
        \/ stack' = [stack EXCEPT ![Len(stack)].count = @ + 1] ]_vars

-----------------------------------------------------------------------------
(* A frame, and the stack, as BoundedRuns sees them.                       *)
Shown(f) ==
  IF f.kind = "run"
  THEN [kind |-> "run", budget |-> f.budget, used |-> f.count]
  ELSE [kind |-> f.kind]
Calls(s) == [i \in DOMAIN s |-> Shown(s[i])]
Report(x) == [reason |-> x.reason, instructions |-> x.instructions]

(* The executor keeps the promise of the header: every call is a run with  *)
(* a budget of its own, which nothing above it on the stack uses up and no *)
(* continuation renews; a run ends as spent exactly when it is, and every  *)
(* exit but that of an override, which is the override's own, counts what  *)
(* the run retired (run, run_override, every public call).                 *)
Bounded == INSTANCE BoundedRuns WITH calls <- Calls(stack), report <- Report(exit)
ImplementsBoundedRuns == Bounded!Spec
=============================================================================
