----------------------------- MODULE BoundedRuns -----------------------------
(***************************************************************************)
(* What the header promises of bounded, nested execution, without images,  *)
(* overrides, breakpoints or a CPU: "Every call remains bounded", and      *)
(* every exit says how many instructions ran (include/amigaport/           *)
(* executor.hpp, ExitReason, ExecutionExit and lines 128-131).             *)
(*                                                                         *)
(* A call is a run with a budget of its own.  A run may wait for a         *)
(* callback of the host, an override or the breakpoint handler, which may  *)
(* start further runs; nothing that happens above a waiting run is charged *)
(* to it, and nothing gives it a second budget.                            *)
(***************************************************************************)
EXTENDS Naturals, Sequences

CONSTANT MaxSlice   \* the instructions of the longest slice

VARIABLES
  calls,   \* the runs and callbacks that are alive, outermost first
  report   \* the reason and the instruction count of the latest exit

boundedVars == <<calls, report>>

Last == calls[Len(calls)]
Waiting == calls[Len(calls) - 1]
Below(n) == SubSeq(calls, 1, Len(calls) - n)

InRun == calls # <<>> /\ Last.kind = "run"
InCallback(kind) == calls # <<>> /\ Last.kind = kind
HostsTurn == ~InRun

Reports(reason, n) == report' = [reason |-> reason, instructions |-> n]

Init == calls = <<>> /\ report = [reason |-> "NoImage", instructions |-> 0]

Start(budget) ==
  /\ HostsTurn
  /\ calls' = Append(calls, [kind |-> "run", budget |-> budget, used |-> 0])
  /\ UNCHANGED report

(* A call that is answered without a run has executed nothing.             *)
Refuse(reason) ==
  /\ HostsTurn
  /\ Reports(reason, 0)
  /\ UNCHANGED calls

MayGoOn == InRun /\ Last.used < Last.budget

Retire ==
  /\ MayGoOn
  /\ calls' = [calls EXCEPT ![Len(calls)].used = @ + 1]
  /\ UNCHANGED report

(* A breakpoint is never seen before the run has made progress.            *)
Enter(kind) ==
  /\ MayGoOn
  /\ kind = "handler" => Last.used > 0
  /\ calls' = Append(calls, [kind |-> kind])
  /\ UNCHANGED report

(* A run whose budget is spent says so, and only such a run does.          *)
EndSpent ==
  /\ InRun /\ Last.used = Last.budget
  /\ Reports("InstructionBudget", Last.used)
  /\ calls' = Below(1)

EndEarly(reason) ==
  /\ MayGoOn
  /\ reason = "Breakpoint" => Last.used > 0
  /\ Reports(reason, Last.used)
  /\ calls' = Below(1)

(* A trap, and the RTE of an interrupt, end the run with an instruction.   *)
EndRetiring(reason) ==
  /\ MayGoOn
  /\ Reports(reason, Last.used + 1)
  /\ calls' = Below(1)

(* An override goes on with the run it interrupted, or ends it with an     *)
(* exit that is its own: empty, or the latest one, passed on.              *)
Resume ==
  /\ InCallback("native")
  /\ calls' = Below(1)
  /\ UNCHANGED report

OverrideEnds(reason) ==
  /\ InCallback("native")
  /\ \E n \in {0, report.instructions} : Reports(reason, n)
  /\ calls' = Below(2)

HandlerEnds ==
  /\ InCallback("handler")
  /\ Reports("Breakpoint", Waiting.used)
  /\ calls' = Below(2)

(* A callback throws: its run is gone and reports nothing.                 *)
Unwind ==
  /\ InCallback("native") \/ InCallback("handler")
  /\ calls' = Below(2)
  /\ UNCHANGED report

Next ==
  \/ \E budget \in 1..MaxSlice : Start(budget)
  \/ \E reason \in {"NoImage", "MemoryFault", "ImageReplaced", "NativeOverride"} :
       Refuse(reason)
  \/ Retire
  \/ Enter("native") \/ Enter("handler")
  \/ EndSpent
  \/ \E reason \in {"Halted", "ImageReplaced", "ReturnToHost", "Breakpoint",
                    "MemoryFault", "Exception"} : EndEarly(reason)
  \/ \E reason \in {"Exception", "ReturnToHost"} : EndRetiring(reason)
  \/ Resume
  \/ \E reason \in {"NativeOverride", "ReturnToHost", "UnterminatedNativeOverride"} :
       OverrideEnds(reason)
  \/ HandlerEnds
  \/ Unwind

Spec == Init /\ [][Next]_boundedVars
=============================================================================
