--------------------------- MODULE ExecutorClaims ---------------------------
(***************************************************************************)
(* Statements that the repository's documents and tests make of the        *)
(* executor and that its code does not keep in every case.                 *)
(***************************************************************************)
EXTENDS ExecutorProperties

(* "monotonic instruction/cycle counters" (docs/project-state.md:50, S002):*)
(* executed_instructions never goes back.                                  *)
InstructionsMonotonic ==
  [][ cpu'.executed \in {cpu.executed, NextExecuted(cpu.executed)} ]_vars

(* "Resume the outer run at this PC, executing the original instruction    *)
(* once ... Later visits still select it normally" (executor.hpp:140-142): *)
(* guest code under a live override is executed only as the answer to      *)
(* continue_original, which is the last exit anyone was given.  This is    *)
(* how it is said where no call is nested in another (MaxNesting = 1), so  *)
(* that no exit of a nested run can come between the two.                  *)
LaterVisitsSelect ==
  [][ GuestSteps /\ Identity \in overrides \ Range(suppressions)
        => exit.continue ]_vars

(* "Every call remains bounded; resume after a budget, override, or        *)
(* breakpoint exit with continue_call until ReturnToHost"                  *)
(* (executor.hpp:129-131): when the slice of a call that left a            *)
(* continuation runs out, continue_call goes on for the same override.     *)
TokenOfTop ==
  token.valid /\ Top.stop = token.return_pc /\ active # <<>> /\ token.owner = Last(active)

=============================================================================
