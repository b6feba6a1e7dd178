-------------------------- MODULE ExecutorLiveness --------------------------
(***************************************************************************)
(* Termination of a title's call.  The run loop is ordinary sequential     *)
(* code, so it is never abandoned (weak fairness).  What its callbacks do  *)
(* is the title's business: an activation may call the executor as often   *)
(* as it likes, but it is assumed not to do so forever.  The assumption is *)
(* stated for each depth of the call stack, because a callback that ends   *)
(* deeper says nothing of the ones waiting below it.                       *)
(***************************************************************************)
EXTENDS ExecutorProperties

Depths == 1..(2 * MaxNesting)

(* A callback ends the run it was called from.                             *)
EndsItsRun ==
  \/ \E x \in NativeResults : NativeReturns(x)
  \/ HandlerReturns
  \/ CallbackThrows

(* A callback ends, but may ask for its run to continue every time.        *)
Ends == EndsItsRun \/ \E x \in NativeResults : NativeContinues(x)

(* Titles whose overrides do not ask to continue forever.                  *)
FairSpec ==
  /\ Spec
  /\ WF_vars(RunLoop)
  /\ \A d \in Depths : SF_vars(Len(stack) = d /\ EndsItsRun)

(* Titles whose overrides only return every time they are entered.         *)
ReturningSpec ==
  /\ Spec
  /\ WF_vars(RunLoop)
  /\ \A d \in Depths : SF_vars(Len(stack) = d /\ Ends)

(* A call that the title made from outside every run comes back to it: the *)
(* guest cannot loop past its slice, whatever it executes and however runs *)
(* are nested (run's budget; executor.hpp: "Every call remains bounded").  *)
CallsReturn == stack # <<>> ~> stack = <<>>
=============================================================================
