------------------------------ MODULE TraceRing ------------------------------
(***************************************************************************)
(* The always-on execution trace (record_execution and                     *)
(* copy_recent_execution in src/executor.cpp): a ring of packed words and  *)
(* a count, written by the guest's thread at every step of the core and    *)
(* read, without a lock, from another thread or a fatal signal handler.    *)
(*                                                                         *)
(* A record is its number, 1 for the first; a slot that was never written  *)
(* holds 0.  A step is recorded as soon as the core returns, one that has  *)
(* faulted, trapped or halted included, where the header says "retired".   *)
(* All loads and stores are relaxed.  The header has two kinds of reader:  *)
(* one that sees the writer's stores in program order (a signal handler on *)
(* the same thread, or a thread on x86-64), and a thread on arm64, to      *)
(* which stores to different words may become visible in any order.        *)
(***************************************************************************)
EXTENDS SequencesExt, Integers

CONSTANTS
  Capacity,    \* kExecutionTraceCapacity, 256 in the code
  Sizes,       \* the buffer capacities a reader passes
  MaxRecords   \* bound: steps of the core

ASSUME TraceAssumption ==
  /\ Capacity \in Nat \ {0}
  /\ Sizes \subseteq Nat \ {0}
  /\ MaxRecords \in Nat

VARIABLES
  trace,     \* trace: slot -> record number
  written,   \* trace_written
  storing,   \* the writer is between its two stores
  ordered,   \* the reader sees stores in program order
  reading,   \* a copy is under way
  loaded,    \* the reader's copy of trace_written
  offset,    \* how far from loaded the next slot to read is
  copied,    \* destination: the records copied out so far
  quiet      \* history: no store has overlapped the copy

writer == <<trace, written, storing>>
reader == <<reading, loaded, offset, copied>>
traceVars == <<writer, reader, ordered, quiet>>

Slot == 0..(Capacity - 1)
Records == 0..MaxRecords

(* The slot that record n is stored in.                                    *)
SlotFor(n) == (n - 1) % Capacity

TypeOK ==
  /\ trace \in [Slot -> Records]
  /\ written \in Records
  /\ storing \in BOOLEAN
  /\ ordered \in BOOLEAN
  /\ reading \in BOOLEAN
  /\ loaded \in Records
  /\ offset \in 0..Capacity
  /\ copied \in Seq(Records)
  /\ quiet \in BOOLEAN

Init ==
  /\ trace = [s \in Slot |-> 0]
  /\ written = 0
  /\ storing = FALSE
  /\ ordered \in BOOLEAN
  /\ reading = FALSE
  /\ loaded = 0
  /\ offset = 0
  /\ copied = <<>>
  /\ quiet = TRUE

(* record_execution is two stores: the slot, then the count.               *)
StoreSlot ==
  /\ ~storing
  /\ written < MaxRecords
  /\ trace' = [trace EXCEPT ![SlotFor(written + 1)] = written + 1]
  /\ storing' = TRUE
  /\ quiet' = FALSE
  /\ UNCHANGED <<written, ordered, reader>>

StoreCount ==
  /\ storing
  /\ written' = written + 1
  /\ storing' = FALSE
  /\ quiet' = FALSE
  /\ UNCHANGED <<trace, ordered, reader>>

(* What a load may return: the current value, or to a reader that sees the *)
(* stores out of order any value the word has had.                         *)
CountsSeen == IF ordered THEN {written} ELSE 0..written

SlotValues(s) ==
  IF ordered THEN {trace[s]}
  ELSE {0} \union {n \in 1..trace[s] : SlotFor(n) = s}

Minimum(a, b) == IF a < b THEN a ELSE b

(* Mutant: the number of slots is not limited to the ring.                 *)
WantedUnlimited(w, size) == Minimum(w, size)

Wanted(w, size) == Minimum(Minimum(w, Capacity), size)

BeginCopy(size) ==
  /\ ~reading
  /\ \E w \in CountsSeen :
       /\ loaded' = w
       /\ offset' = Wanted(w, size)
  /\ reading' = TRUE
  /\ copied' = <<>>
  /\ quiet' = ~storing
  /\ UNCHANGED <<writer, ordered>>

(* Mutant: slots are read from the one after the oldest wanted.            *)
SlotOfNext == (loaded - offset + 1) % Capacity

SlotOf == (loaded - offset) % Capacity

(* A slot that was never written is skipped.                               *)
ReadSlot ==
  /\ reading
  /\ offset > 0
  /\ \E n \in SlotValues(SlotOf) :
       copied' = IF n = 0 THEN copied ELSE Append(copied, n)
  /\ offset' = offset - 1
  /\ UNCHANGED <<writer, ordered, reading, loaded, quiet>>

EndCopy ==
  /\ reading
  /\ offset = 0
  /\ reading' = FALSE
  /\ UNCHANGED <<writer, ordered, loaded, offset, copied, quiet>>

Next ==
  \/ StoreSlot \/ StoreCount
  \/ \E size \in Sizes : BeginCopy(size)
  \/ ReadSlot \/ EndCopy

Spec == Init /\ [][Next]_traceVars

-----------------------------------------------------------------------------
(* The records a copy asked for, oldest first.                             *)
Asked == [i \in 1..(Len(copied)) |-> loaded - offset - Len(copied) + i]

(* A reader that sees stores in order never gets a record older than the   *)
(* one it asked the slot for: what the writer overtook is replaced by a    *)
(* newer record of the same slot, never by stale or empty contents         *)
(* (record_execution publishes the count after the slot).                  *)
NeverOlderThanAsked ==
  ordered => \A i \in DOMAIN copied :
    copied[i] >= Asked[i] /\ SlotFor(copied[i]) = SlotFor(Asked[i])

(* A copy reports no record twice, however the writer races with it and    *)
(* in whatever order its stores become visible: the slots a copy visits    *)
(* are distinct (copy_recent_execution's limit to the ring).               *)
NoRecordTwice == IsInjective(copied)

(* A copy by a reader that sees stores in order, that no store of the      *)
(* writer overlaps and that does not begin between the two stores of one   *)
(* record, is exact: the last records, each once and in order (post-mortem *)
(* use: the guest's thread has stopped).                                   *)
ExactWhenQuiet == ordered /\ quiet => copied = Asked

(* What is left of the order while the guest is running: for a reader that *)
(* sees stores in order, a record that was counted when the copy began is  *)
(* in its own place and older than all that follow it; any other is one    *)
(* that was not counted then (copy_recent_execution).                      *)
OldestFirstUnlessOvertaken ==
  ordered => \A i \in DOMAIN copied :
    \/ copied[i] > loaded
    \/ /\ copied[i] = Asked[i]
       /\ \A j \in DOMAIN copied : i < j => copied[i] < copied[j]

(* "Copy the most recently retired instructions, oldest first ... safe to  *)
(* call from a fatal signal handler or another thread while the guest is   *)
(* running" (executor.hpp:145-148).                                        *)
OldestFirst ==
  ordered => \A i, j \in DOMAIN copied : i < j => copied[i] < copied[j]
=============================================================================
