# A TLA+ model of amigaport

amigaport runs a title's 68000 code for a native port. The title owns the memory and the devices,
and it may replace any piece of guest code by a *native override*, a C++ function that runs instead.
The library steps an emulated CPU within an instruction budget, dispatches to the overrides, and lets
an override call back into the guest. This directory models what is hard in that: re-entrant runs,
images that change under them, interrupts that have to be undone, breakpoints, and a trace ring read
without a lock. Paths below are relative to the repository's root.

Run a configuration with `tlc -config MCx.cfg Module.tla` (the module is in the table of runs) and a
proof module with `tlapm Module.tla`.

## Inventory

| Component | Code | State | Operations |
|---|---|---|---|
| Executor | `src/executor.cpp`, `include/amigaport/executor.hpp` | CPU state, current image, `active_overrides`, `pending_original`, breakpoints and their handler, the trace, and the C++ call stack | `execute`, `call` (three boundaries), `continue_call`, `call_interrupt`, `call_original`, `call_original_subroutine`, `continue_original`, `replace_image`, override and breakpoint registration, `recent_execution` |
| OverrideRegistry | `src/override_registry.cpp` | registered overrides, the stack of suppressions | `install`, `remove`, `find`, `is_suppressed`, `ScopedSuppression` |
| Image identity | `include/amigaport/types.hpp` | tag and generation | compared everywhere, advanced by `replace_image` |
| CpuState | `include/amigaport/cpu_state.hpp`, `src/cpu_state.cpp` | registers, shadow stack pointers, counters, exception | written by the core, the executor and the title |
| Breakpoints | `src/executor.cpp:40-110` | flat table and count | `add`, `remove` (swaps the last cell in), `clear`, `contains`, `copy` |
| Execution trace | `src/executor.cpp:343-367` | ring of packed words and a count, relaxed atomics | one writer (the run loop), readers on any thread or in a signal handler |
| PuaeCore | `src/puae_core.cpp` | the external core's context | `step`: import the state, step, export the state |
| Memory, Logger | `include/amigaport/` | the title's | callbacks |
| Tools | `tools/` | none that persists | verification driver, link audit, PE symbols, LLVM discovery, source policy |

**How they interact.** There is one thread of control. The run loop (`Executor::Impl::run`) calls an
override or the breakpoint handler, and these call the executor again, so the state that matters is
the C++ call stack: which runs wait below the current one, with which budget, stop address and
authorized image, and which scopes (`ActiveOverrideScope`, `ScopedSuppression`) are open. A callback
can leave by a return, a request to continue, a hand-off, the exit of a nested call, or an exception.
The core calls the title's memory in the middle of a step; a title with a bank register may replace
the image there. Only the trace is shared with other threads.

**What is hard, and what makes each part correct.**

* Executor: scopes balanced on every way out; no override recursing into itself; guest code that an
  override replaces executed only inside that override, or once by `continue_original`; no run going
  on in an image it was not authorized for, or reporting an address of another image; the budget a
  caller asked for respected on every counting path; an interrupt that does not reach its RTE undone,
  except for the counters and what the memory refuses to take back; a call that starts no run leaving
  no trace; a call of the title that comes back.
* Breakpoints: a set, in spite of stale cells and swap removal; a run stops at every one of them
  except on its first instruction.
* Trace: what a racing copy may contain, for a reader that sees stores in order and one that does not.
* CpuState and PuaeCore: supervisor and user stack pointers consistent with `A7`; the state after a
  step is the core's.

`PROJECT.json` lists every component and every hazard at its line.

## Modules

| Module | Models |
|---|---|
| `Types` | addresses, images, execution identities |
| `OverrideRegistry` | `overrides_` and `suppressions_`, their operations |
| `GuestCpu` | `CpuState`, the stack region of the title's memory, one step of the core |
| `PuaeCore` | that step from inside: the copies around it, the memory callbacks, faults and statuses |
| `BreakpointSet` | what the header promises of breakpoints: a bounded set, with the answer of the last call |
| `BreakpointTable` | the flat table; implements `BreakpointSet` |
| `Executor` | the run loop, the callbacks and every public call; extends the two modules above it |
| `BoundedRuns` | what the header promises of bounded, nested calls; no images, overrides or CPU |
| `ExecutorProperties` | the safety and action properties of the executor, and the mapping to `BoundedRuns` |
| `ExecutorLiveness` | fairness and termination |
| `ExecutorClaims` | statements of the documents and tests that the code does not keep |
| `TraceRing` | `record_execution` against `copy_recent_execution`, store by store |
| `ExecutorProofs` | the executor's inductive invariant, and the theorems on single states |
| `ExecutorSteps` | what any step does to the call stack: a lemma, `EveryStepHasAShape`, that the next three rest on |
| `ExecutorActionProofs`, `ScopeProofs`, `BoundedRunsProofs` | theorems on steps, on the scopes, and the implementation of `BoundedRuns` |
| `BreakpointProofs`, `TraceRingProofs`, `PuaeCoreProofs` | theorems of the other components |

### How Executor.tla corresponds to the code

`stack` is the C++ call stack. A `RunFrame` is an activation of `run`: `request` (a history of what the
caller asked for), `budget`, `count`
(`progress.instructions`), `auth` (`authorized_generation`), `stop` (`stop_at_pc`), `rte`
(`stop_on_rte`), and two things its *caller* holds for as long as it runs: the `ScopedSuppression` of
a call (`scope`) and what `call_interrupt` saved (`saved`). A `NativeFrame` is an override that is
running, a `HandlerFrame` the breakpoint handler. Whoever is on top moves: the run loop, or the
title's code, which on its turn may take any step of the public interface.

Each public call is one action up to the moment it enters `run` or answers without a run (`Call`,
`CallInterrupt`, ...); everything the caller does after `run` returns is in `EndRun`, in the same step
as the return: the scope pops, and the rollback of an interrupt. One turn of the run loop is one
action: `HeadReason` is the chain of checks at its head, in the code's order, and then either the run
ends (`RunStops`), the handler is called (`HandlerEnter`), an override is entered (`OverrideEnter`) or
the core steps (`CoreSteps`, with one disjunct for each `CoreStep::Status`). `GuestStepReplacesImage` is
such a step, with any ending, in which a write callback of the title has replaced the image.
`CallbackThrows` unwinds a callback and the run it was called from; the callback below may catch or
throw in its turn.

Abstractions. Guest memory is the stack region, in cells of one pushed word; reading and writing a
cell may fault, and the title may protect some cells and release them again on its turn (`protected`,
`TitleProtects`), so that a write may succeed when a frame is pushed and fail when it is restored.
The two words of an exception frame (status, PC; six bytes in the code) are two cells, written one
after the other: the second may be refused when the first is already there (`RefusesFrame`).
A word is a member of `Addr`, so it can be a PC or, if it is `SuperSR` or `ZeroWord`, a status
register. Registers that decide nothing here are left out. Cycles advance by one per step.
`breakpoints` is the abstract set: that the table implements it is checked and proved separately. The
trace's writes at every step touch nothing else and are in `TraceRing`. `ExecutedModulus` and
`CycleModulus` stand for the 2^64 at which the two counters wrap. The guest program and the title are
arbitrary within `GuestOps` and `HostOps`.

Every caller of `call` holds a `CallContinuation` of its own. The model follows one of them, `token`:
each call is given none, the one that is kept, or another that the title never resumes from
(`Given`), so an inner call may or may not overwrite what an outer one resumes from, and every
resumption of a single call is there. Two tokens that are alive at once and both resumed later are
not. A title that never resumes (no `continue_call` in `HostOps`) keeps no token: nothing else reads
one, and it would multiply the states of the other runs by ten. The tokens are in `images`.

### How the other modules correspond to the code

`BoundedRuns` keeps of the call stack only which calls are alive, their budgets and what they have
used, and of an exit its reason and count. Its steps are those a reader of the header expects: a run
retires one instruction at a time below its budget, waits for a callback, and ends early or exactly
when its budget is spent, with its own count; only an override's exit may carry another count.
`ExecutorProperties` maps the executor to it (`Calls`, `Report`), so budget, reasons, counts,
re-authorization after a continuation, handlers and throws are checked together, as a refinement.

`PuaeCore` is one call of `PuaeCore::step`. The tables `Imported` and `Exported` are the two lists of
assignments of `import_state` and `export_state`. Between them the core may change any register of
the snapshot, and each memory access runs a method of the title that may write `state()` before it
answers. The width of the access chooses the method and nothing else, so it is left out: whatever the
width, a title may answer any `MemoryFault`, `Misaligned` included. A value is named by its writer and its field, so a lost, swapped or
mixed-up field shows. `StepIsTheCores` is the reason why `GuestStep` in `Executor` may take a step of
the core for one atomic action; fields outside the snapshot (`exception` and the counters) keep what a
title wrote.

`TraceRing` has one action for each load and each store; `SlotFor` is the slot of a record. There is a
record for every step of the core: `record_execution` comes before the status of the step is looked at
(`executor.cpp:200`), so one that faulted, trapped or halted is recorded too, where the header says
"retired instructions".

Assumptions on the title. It does not replace or remove an override while that override is running
(the `std::function` in execution would be destroyed: undefined behaviour). A memory callback only
replaces the image (and, in `PuaeCore`, writes `state()`); one that re-enters the executor or registers overrides in the middle of a step is
not modelled. An override answers with an exit of its own or with the last one it received. It
registers overrides for the image that is loaded: one registered for another image is not found until
that image is, so registering it later makes no difference, and one for an image that is gone is never
found.

## Runs

Every `HostOps` and `GuestOps` of a configuration names the calls its title makes and the
instructions its guest contains; together the passing runs contain all of them.

| Run | Module, configuration | States | Shows |
|---|---|---|---|
| `breakpoint_table` | `BreakpointTable`, `MCBreakpointTable` | 400 | table typed, `NoDuplicates`, `CopyIsFaithful`, implements the bounded set (`ImplementsSet`) |
| `nesting` | `ExecutorProperties`, `MCNesting` | 448 592 | `TypeOK`, `ScopesMirrorStack`, `NoOverrideReentered`, `HiddenOnlyWhileActive`, `OverridesNestBounded`, `OriginalOnlyByRequest` three runs deep |
| `images` | `ExecutorProperties`, `MCImages` | 459 400 | `PendingIsCurrent`, `GenerationNamesImage`, `RunsOnlyItsImage` with two image replacements, also inside a step that halts, and `continue_call` refused and accepted; implements `BoundedRuns` (`ImplementsBoundedRuns`), continuations in a new image included |
| `interrupts` | `ExecutorProperties`, `MCInterrupts` | 442 802 | `InterruptUndone`, `RefusedCallUndone`, `GuestTimeMonotonic` for interrupts from both CPU modes, from overrides and inside interrupts; `ImplementsBoundedRuns` |
| `liveness` | `ExecutorLiveness`, `MCLiveness` | 94 072 | `CallsReturn` and its safety half, `RunLoopCharges` and `RunsWithinBudget`, `BreakpointStopsRun`, and `ScopesMirrorStack` and `ImplementsBoundedRuns` with breakpoint handlers that call back, throw and change the breakpoints, and steps that trap |
| `puae_core` | `PuaeCore`, `MCPuaeCore` | 6 392 | `StepIsTheCores`, `StepReportsItsFault` for three accesses, each with a write of the title to `state()` |
| `trace_ring` | `TraceRing`, `MCTraceRing` | 9 571 | `NeverOlderThanAsked`, `ExactWhenQuiet`, `NoRecordTwice`, `OldestFirstUnlessOvertaken` |

**Why these bounds.** Two addresses distinguish "here" from "elsewhere", which is all the code does
with a PC: it compares it with an override, a breakpoint, a stop or the override's own address. Depth
two puts one override's callback between two runs, depth three an override between an outer and an
inner activation that each have their own scope. Slices of two instructions contain a first
instruction, a later one and the exhaustion of the budget; breakpoints need two, because they do not
count on the first. Two generations after the first make an image come, go and be missed by a run
that waits. A stack of four cells holds two exception frames, one under the other, and not three; one
word of it can be protected, which is the second word of a frame that starts at the bottom and the
first of one a word higher, before a frame is pushed or between the push and the restore. Requests of
one and three are below and above the slice limit of two. The cycle counter's modulus of three tells a
counter that advances from one that goes back; the instruction counter's is one where no property
looks at it, since the rollback of it would only multiply states. A ring of three with nine records is overwritten twice during
a copy, with buffers smaller than, equal to and larger than the ring. The table's four addresses and
three cells let every cell be the removed one and the last one. Three accesses let a title write the same
and different fields before and after the core does; the sets of registers and fields of `MCPuaeCore`
contain every pair that one line could confuse (the two prefetch words, the two stack pointers). No run uses symmetry.

`MaxNesting`, `MaxGeneration`, `MaxRecords`, `HostOps` and `GuestOps` are bounds of the instance. In
the code the depth is limited by the C++ stack, and the generation by 2^64-1, where `replace_image`
throws; the guard on `MaxGeneration` is that throw, which changes nothing.

Deadlock is checked everywhere: the title can always call.

**Fairness.** The run loop is straight sequential code and is never abandoned: weak fairness of
`RunLoop`. What a callback does is the title's. `FairSpec` assumes, for each depth of the stack, that
a callback that keeps getting the turn at that depth finally ends the run it was called from (by a
return or an exception): strong fairness, because each nested call disables the end of the callback
until it is back. It is stated by depth because a callback that ends deeper says nothing of the ones
that wait. It is not assumed that the guest ever returns: the budget has to do that, and the counters
wrap at once so that nothing else bounds the run. `ReturningSpec` only assumes that callbacks return,
perhaps asking to continue every time; then `CallsReturn` fails (below).

### Disagreements between documents and code

Each is a configuration in which TLC finds the quoted statement violated.

| Run | Statement | What the code does |
|---|---|---|
| `claim_bounded` | "Every call remains bounded" (`executor.hpp:129`) | an override that asks to continue costs no budget, so a guest that stays among such overrides keeps the call from returning |
| `claim_later_visits` | "executing the original instruction once without selecting this override again. Later visits still select it normally" (`executor.hpp:140-142`) | `continue_original` leaves the bypass pending until the run loop is next at that PC; an override that then hands off, or answers for itself, ends its run with the bypass pending, and a later visit, in another run, executes the original instead of the override |
| `claim_instructions` | "monotonic instruction/cycle counters" (`docs/project-state.md:48-50`) | the rollback of an interrupt restores `executed_instructions` with the rest of `CpuState` (`executor.cpp:327-330`); only `elapsed_cycles` is carried across |
| `claim_oldest_first` | "oldest first ... safe to call from a fatal signal handler" (`executor.hpp:145-148`) | with the ring full and the writer between its two stores, the oldest slot already holds the newest record, which is returned first |
| `claim_resume` | "resume after a budget ... exit with continue_call until ReturnToHost" (`executor.hpp:129-131`) | an override inside a host subroutine replaces the image and continues, which re-authorizes the run (`executor.cpp:156-160`); its token still names the old image, so after the slice `continue_call` answers `ImageReplaced` and the subroutine cannot be finished |

`LaterVisitsSelect` is stated for a title without nested calls, where the last exit anyone was given is
the answer of `continue_original` exactly when the run goes on because of it; the safe half, that the
bypass is used once and dies with its image, holds at every depth (`OriginalOnlyByRequest`,
`PendingIsCurrent`). `InterruptUndone` says nothing of the two counters: one must not go back, the
other does and should not.

Smaller ones are visible in the model without a run of their own. A run that ends in an override
returns the override's exit, so the instructions it had retired before are not in it (`OverrideExit`;
`executor.cpp:194` and `266`), where `docs/project-state.md:20` promises "precise ... instruction
counts"; `BoundedRuns` exempts these exits. `call_interrupt` with a supervisor stack pointer below 6
exits with `MemoryFault` but no fault (`executor.cpp:286`). The trace records steps that did not
retire (above).

## Proofs

All of them hold for every set of addresses and tags, every budget and slice limit, every stack
region and faulting cells, any `MaxNesting` and any `HostOps` and `GuestOps`, a table and a ring of
any size, and any registers and fields written in a step, under the named assumptions
`IdentityAssumption`, `GuestAssumption`, `ExecutorAssumption`, `TableAssumption`, `TraceAssumption`
and `PuaeAssumption`, which TLC evaluates in the runs of their modules.

*Executor.* The type invariant is not inductive: a callback's return pops two frames and ends the
lower one, which has to be a run, and the exit of a run carries its count, which has to be within a
slice. So `Inv == TypeOK /\ StackOK(stack)`, where `StackOK` says that every frame that is not a run
sits on a run, and that every run is within a budget that is its caller's request, clamped
(`Within`). `ExecutorProofs` has lemmas about `PopBack` and
about pushing, popping and replacing the last frame, one about the core (`CoreStep` keeps the CPU and
memory typed), and one lemma per action or group of actions.

What a step does to the stack is stated once: `EveryStepHasAShape` says that every step pushes a run
or a callback, replaces the top run, or removes one or two frames, and what it does then to
`active_overrides`, the suppressions, the image and the exit. The theorems on scopes, on breakpoints
and images, and on the bounded calls go through these few shapes rather than the 40 actions.

*Scopes.* `ScopesMirrorStack` says that `active_overrides` and the suppressions are the marks of the
frames in order: as many, and each where a count of the marks below it puts it. Pushing a frame with a
mark appends one to each, and removing it takes the last; that is an induction over steps, not over
the stack. `NoOverrideReentered` follows: an override is entered only if `find` sees no suppression of
it, and every active override has one.

The converse is `HiddenOnlyWhileActive`: a suppression belongs to an override that is running. An
override's own scope is; the scope of a call is its caller's identity, so the proof needs `ScopedBelow`,
that a run with a scope has the native frame of that identity below it, which no way of leaving a call
can take away before the run itself. The two together say that `find` refuses an identity exactly while
it is in `active_overrides`; with no call under way that is never (`ExecutorIdleFindsEveryOverride`).
`OriginalOnlyByRequest` follows from it: a step of the guest at a registered override is one that
`find` refused or that `continue_original` asked for.

*Interrupts.* `InterruptUndone` speaks of the step in which the run of a `call_interrupt` returns;
`NothingEnds`, `EndsTopUndoes` and `EndsCallerUndoes` find that step, and `RestoredWords` shows that
`restore_frame` puts each word back if the memory takes it, whether or not it takes the other.
`RefusedCallUndone` needs one more fact, `FrameTakenBack`: the memory that has just accepted the first
word of a frame accepts it back, and writing the second word's old value changes nothing.

`OverridesNestBounded` is a pigeonhole argument: native frames and entries of `active_overrides`
correspond one to one, no entry occurs twice, and each is a registered override (`Registered`). The last
part is where the assumption matters that a title does not remove an override that is running. It bounds the
override frames and nothing else: an override may still make any number of calls one inside the other
through breakpoint handlers, which nothing suppresses.

*Generations.* `GenerationNamesImage` says of every identity the executor holds that its image is the
current one or has an older generation, and of every waiting run that it is authorized for no later
one. Each such identity was taken from the current image or copied from one held already (`HeldOver`,
`TokenMoves`, `AuthorizationMoves`), and every action that changes the image increases its
generation; `PendingIsCurrent` covers the bypass. This is what makes it right that `run` compares
generations and not tags, and that a stale token or scope can only fail to match. It ends at
2^64-1, where `replace_image` throws instead of wrapping; with a wrap TLC finds a run authorized for a
later generation than the image has.

*Charges.* `CallsReturn` cannot be proved here, its safety half can: each turn of the run loop either
changes the depth of the stack (the run ends, or the title is called) or adds one to the run's count
and changes nothing else of the stack (`RunLoopCharges`), and the count never passes the budget
(`RunsWithinBudget`). What is left to fairness is that the loop keeps turning and callbacks end.

*Trace ring.* The invariant says that a slot holds a record of its own, at least as new as the last
counted record of that slot, and that a copy holds only records of slots it has passed. Numbers less
than a ring apart are in different slots (`Near`, from division with remainder), so a slot still to be
read holds none of the records read so far. `OldestFirst`, the header's promise, fails (see the
disagreements above); `OldestFirstUnlessOvertaken` is what remains true of it: a record that was
counted when the copy began is in its own place and older than everything that follows it, so the
disorder is confined to records made since. (An entry does not carry its number, so a reader cannot
see which those are.) Its proof needs that the records read and the slots still to be read together
are never more than the ring holds (`CopyOK`): a counted record cannot then be a later one of the slot
it was asked from.

*PuaeCore.* While the core runs, each register of the snapshot is the core's or the field's at the
start; `TablesAgree` shows that the two tables of assignments are inverse to each other.

| Theorem | Property | Argument |
|---|---|---|
| `ExecutorTypeOK` | `TypeOK` | `Inv` is inductive |
| `ExecutorWithinBudget` | `RunsWithinBudget` | part of `StackOK`: the budget is the request, clamped, a dispatching run is below it, and each step counts one |
| `ExecutorPendingIsCurrent` | `PendingIsCurrent` | each replacement of the image resets the bypass in the same step |
| `ExecutorOriginalOnlyByRequest` | `OriginalOnlyByRequest` | above; the bypass is used up by the step |
| `ExecutorTimeMonotonic` | `GuestTimeMonotonic` | the rollback takes the current cycles; every other action keeps or advances them |
| `ExecutorUndoesInterrupt` | `InterruptUndone` | the only step that shortens the stack past an interrupt's run is `EndRun`, or a throw; then as above |
| `ExecutorRefusedCallUndone` | `RefusedCallUndone` | a run that starts deepens the stack; every other branch of a call leaves the memory, one of them as above |
| `ExecutorStopsAtBreakpoints` | `BreakpointStopsRun` | only a run that dispatches counts, and one that has counted dispatches off the breakpoints |
| `ExecutorRunsOnlyItsImage` | `RunsOnlyItsImage` | a run of another image cannot dispatch nor look at an address, so it ends; only a continuation changes its authorization |
| `ExecutorScopesMirrorStack`, `ExecutorNeverReenters` | `ScopesMirrorStack`, `NoOverrideReentered` | above |
| `ExecutorHidesOnlyActive`, `ExecutorOverridesNestBounded` | `HiddenOnlyWhileActive`, `OverridesNestBounded` | above |
| `ExecutorIdleFindsEveryOverride` | | with an empty stack there are no marks |
| `ExecutorGenerationNamesImage` | `GenerationNamesImage` | above |
| `ExecutorRunLoopCharges` | `RunLoopCharges` | by the shapes: a run loop step pushes, pops or counts |
| `ExecutorImplementsBoundedRuns` | `ImplementsBoundedRuns` | the initial state maps to the initial state; each shape is one step of `BoundedRuns`, or changes nothing of it |
| `TableTypeOK`, `TableHasNoDuplicates` | `TypeOK`, `NoDuplicates` of the table | an addition is checked against the used cells, a removal moves the only copy |
| `TableCopyIsFaithful` | `CopyIsFaithful` | with no duplicates, the cells copied out and the numbers up to the buffer's size are in bijection |
| `TableImplementsSet` | `ImplementsSet` | with no duplicates, the count is the cardinality of the set, so "full" and every answer agree |
| `TraceTypeOK`, `TraceNoRecordTwice`, `TraceNeverOlderThanAsked`, `TraceExactWhenQuiet`, `TraceOldestFirstUnlessOvertaken` | the invariants of the ring | above |
| `PuaeTypeOK`, `PuaeStepIsTheCores`, `PuaeStepReportsItsFault` | the invariants of `PuaeCore` | above |

*Only model-checked.* `CallsReturn`: liveness under fairness and `ENABLED` are out of the prover's
reach, as is induction over data, which nothing here needs. Every safety invariant, action property
and refinement of the passing runs has a theorem.

## Not modelled, and why

* The inside of a PUAE step, an external submodule: a step is any outcome the binding can report.
  With it the use of prefetched words after an image was replaced, and when a pending interrupt is
  taken.
* In `Executor`, `MemoryFault::Misaligned`, stopped and pending-interrupt state, prefetch and
  condition codes: no control flow of `src/executor.cpp` depends on them (`PuaeCore` copies them, and
  has `Misaligned` with the vector it raises).
* What a memory callback could do beyond replacing the image and writing `state()`: one that starts a
  run in the middle of a step would enter the core twice on one context, which no document allows.
* The hash of an identity (it decides no result), `Logger`, the packing of a trace entry (one word, so
  never torn; it keeps eight bits of the image tag, as its declaration says), construction and
  destruction.
* Tools, build and CI: subprocesses and parsers of tool output, with no state that outlives a call.

## What remains

Some hazards in `PROJECT.json` have no property, because the repository does not say what should
happen; each has a note. They are the questions a team would settle first: whether a token may be kept
past its activation, whether an interrupt should be undone when a callback throws or hands off out of
it, in which run the RTE of an interrupt counts, what a rolled-back interrupt should do when its
handler replaced the image, whether a breakpoint handler may start runs (handlers nest without a limit
if it may), and which image a trace record names when a step replaced it. Once a document answers one, the property belongs in `ExecutorProperties`
and the steps it speaks of are already in the model.
