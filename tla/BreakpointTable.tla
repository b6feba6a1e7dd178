--------------------------- MODULE BreakpointTable ---------------------------
(***************************************************************************)
(* The flat table behind the breakpoint set (class Breakpoints in          *)
(* src/executor.cpp): an array of kCapacity addresses of which the first   *)
(* count are in use.  A removal overwrites the removed cell with the last  *)
(* used one, so cells past count keep values that are no longer set, and a *)
(* cell's index says nothing about the order of insertion.                 *)
(***************************************************************************)
EXTENDS Naturals, FiniteSets, Sequences

CONSTANTS
  Addr,         \* guest addresses
  BpCapacity,   \* kCapacity
  ZeroAddr      \* the value the array is initialised with, a guest address

ASSUME TableAssumption ==
  /\ BpCapacity \in Nat \ {0}
  /\ ZeroAddr \in Addr

VARIABLES
  addresses,  \* addresses_, cells numbered from 0
  count,      \* count_
  answer      \* the last boolean answer given to the host

tableVars == <<addresses, count, answer>>

Cells == 0..(BpCapacity - 1)
Used == 0..(count - 1)

TypeOK ==
  /\ addresses \in [Cells -> Addr]
  /\ count \in 0..BpCapacity
  /\ answer \in BOOLEAN

Init ==
  /\ addresses = [i \in Cells |-> ZeroAddr]
  /\ count = 0
  /\ answer = TRUE

(* contains: a linear probe of the used cells. *)
Contains(a) == \E i \in Used : addresses[i] = a

(* The first used cell that holds a, where remove stops probing. *)
FirstAt(a, i) ==
  /\ i \in Used
  /\ addresses[i] = a
  /\ \A j \in Used : addresses[j] = a => i <= j

(* Mutant: the duplicate check of add is forgotten. *)
AddUnchecked(a) ==
  /\ answer' = (count < BpCapacity)
  /\ IF count < BpCapacity
       THEN /\ addresses' = [addresses EXCEPT ![count] = a]
            /\ count' = count + 1
       ELSE UNCHANGED <<addresses, count>>

(* Mutant: the capacity check of add is forgotten. *)
AddUnbounded(a) ==
  /\ answer' = ~Contains(a)
  /\ IF ~Contains(a)
       THEN /\ addresses' = [addresses EXCEPT ![count] = a]
            /\ count' = count + 1
       ELSE UNCHANGED <<addresses, count>>

Add(a) ==
  /\ answer' = (count < BpCapacity /\ ~Contains(a))
  /\ IF count < BpCapacity /\ ~Contains(a)
       THEN /\ addresses' = [addresses EXCEPT ![count] = a]
            /\ count' = count + 1
       ELSE UNCHANGED <<addresses, count>>

(* Mutant: the count is decremented after the copy is indexed with it. *)
RemoveAtStale(i) ==
  /\ addresses' = [addresses EXCEPT ![i] = addresses[count % BpCapacity]]
  /\ count' = count - 1
  /\ answer' = TRUE

(* remove: the last used cell fills the hole. *)
RemoveAt(i) ==
  /\ addresses' = [addresses EXCEPT ![i] = addresses[count - 1]]
  /\ count' = count - 1
  /\ answer' = TRUE

Remove(a) ==
  \/ \E i \in Cells : FirstAt(a, i) /\ RemoveAt(i)
  \/ /\ ~Contains(a)
     /\ answer' = FALSE
     /\ UNCHANGED <<addresses, count>>

Clear ==
  /\ count' = 0
  /\ UNCHANGED <<addresses, answer>>

Next ==
  \/ \E a \in Addr : Add(a) \/ Remove(a)
  \/ Clear

Spec == Init /\ [][Next]_tableVars

-----------------------------------------------------------------------------
(* Mutant: the copy starts at the second cell. *)
CopiedFromOne(capacity) ==
  LET wanted == IF capacity < count THEN capacity ELSE count
  IN  [k \in 1..wanted |-> addresses[k % BpCapacity]]

(* copy: what breakpoints(destination, capacity) writes out. *)
Copied(capacity) ==
  LET wanted == IF capacity < count THEN capacity ELSE count
  IN  [k \in 1..wanted |-> addresses[k - 1]]

AsSet == {addresses[i] : i \in Used}

(* Two used cells never hold the same address.  remove clears one cell     *)
(* only, so a duplicate would leave the address set after the host was     *)
(* told that it had been cleared (Breakpoints::add and remove).            *)
NoDuplicates == \A i, j \in Used : addresses[i] = addresses[j] => i = j

(* A host that reads the set with a buffer large enough sees every set     *)
(* address exactly once, and with a smaller buffer a full buffer of        *)
(* distinct set addresses (Breakpoints::copy after any history of          *)
(* additions and swap removals).                                           *)
CopyIsFaithful ==
  \A capacity \in 0..BpCapacity :
    LET seen == {Copied(capacity)[k] : k \in 1..Len(Copied(capacity))}
    IN  /\ seen \subseteq AsSet
        /\ Cardinality(seen) =
             (IF capacity < Cardinality(AsSet) THEN capacity
                                               ELSE Cardinality(AsSet))

(* The table implements the set of addresses that the header describes:    *)
(* every call changes the set, and answers, as the abstract set does.      *)
Abstract == INSTANCE BreakpointSet WITH breakpoints <- AsSet
ImplementsSet == Abstract!Spec

=============================================================================
