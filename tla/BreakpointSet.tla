---------------------------- MODULE BreakpointSet ----------------------------
(***************************************************************************)
(* What the executor's breakpoint set promises to a host: a bounded set of *)
(* guest addresses.  set_breakpoint answers FALSE when the address is      *)
(* already set or the set is full, clear_breakpoint answers FALSE when it  *)
(* was not set (include/amigaport/executor.hpp, lines 109-114).            *)
(*                                                                         *)
(* The Executor module uses the three set operators; BreakpointTable       *)
(* models the flat table behind them and is shown to implement Spec.       *)
(***************************************************************************)
EXTENDS Naturals, FiniteSets

CONSTANTS
  Addr,       \* guest addresses
  BpCapacity  \* Breakpoints::kCapacity, 64 in the code

VARIABLES
  breakpoints, \* the addresses that are set
  answer       \* what the last set_breakpoint / clear_breakpoint returned

bpVars == <<breakpoints, answer>>

(* The effect of each call on a set of addresses. *)
CanAdd(set, a)  == Cardinality(set) < BpCapacity /\ a \notin set
AddTo(set, a)   == IF CanAdd(set, a) THEN set \union {a} ELSE set
DropFrom(set, a) == set \ {a}

Init == breakpoints = {} /\ answer = TRUE

SetBreakpoint(a) ==
  /\ answer' = CanAdd(breakpoints, a)
  /\ breakpoints' = AddTo(breakpoints, a)

ClearBreakpoint(a) ==
  /\ answer' = (a \in breakpoints)
  /\ breakpoints' = DropFrom(breakpoints, a)

ClearBreakpoints ==
  /\ breakpoints' = {}
  /\ UNCHANGED answer

Next ==
  \/ \E a \in Addr : SetBreakpoint(a) \/ ClearBreakpoint(a)
  \/ ClearBreakpoints

Spec == Init /\ [][Next]_bpVars
=============================================================================
