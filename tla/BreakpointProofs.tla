-------------------------- MODULE BreakpointProofs --------------------------
(***************************************************************************)
(* For every set of addresses and every capacity: the table of breakpoints *)
(* is well typed, holds no address twice, and implements the bounded set   *)
(* that the header promises.                                               *)
(***************************************************************************)
EXTENDS BreakpointTable, FiniteSetTheorems, TLAPS

Inv == TypeOK /\ NoDuplicates

(* The invariant is inductive: an addition is checked against all used     *)
(* cells, and a removal moves the only copy of the last one.               *)
LEMMA InvInit == Init => Inv
BY TableAssumption DEF Init, Inv, TypeOK, NoDuplicates, Cells, Used

LEMMA InvStep == Inv /\ [Next]_tableVars => Inv'
<1> SUFFICES ASSUME Inv, [Next]_tableVars PROVE Inv'
    OBVIOUS
<1> USE TableAssumption DEF Inv, TypeOK, NoDuplicates, Cells, Used
<1>1. ASSUME NEW a \in Addr, Add(a) PROVE Inv'
  BY <1>1 DEF Add, Contains
<1>2. ASSUME NEW a \in Addr, Remove(a) PROVE Inv'
  <2>1. ASSUME NEW i \in Cells, FirstAt(a, i), RemoveAt(i) PROVE Inv'
    BY <2>1 DEF FirstAt, RemoveAt
  <2>2. ASSUME ~Contains(a), answer' = FALSE, UNCHANGED <<addresses, count>>
        PROVE  Inv'
    BY <2>2
  <2> QED
    BY <1>2, <2>1, <2>2 DEF Remove
<1>3. CASE Clear
  BY <1>3 DEF Clear
<1>4. CASE UNCHANGED tableVars
  BY <1>4 DEF tableVars
<1> QED
  BY <1>1, <1>2, <1>3, <1>4 DEF Next

(* The cells of the table have their types in every reachable state.       *)
THEOREM TableTypeOK == Spec => []TypeOK
<1>1. Inv => TypeOK
  BY DEF Inv
<1> QED
  BY InvInit, InvStep, <1>1, PTL DEF Spec

(* No address is ever in two used cells, so clearing an address once       *)
(* clears it (Breakpoints::add, Breakpoints::remove).                      *)
THEOREM TableHasNoDuplicates == Spec => []NoDuplicates
<1>1. Inv => NoDuplicates
  BY DEF Inv
<1> QED
  BY InvInit, InvStep, <1>1, PTL DEF Spec

-----------------------------------------------------------------------------
(* Without duplicates, the table's count is the size of the set.           *)
LEMMA CountIsCardinality ==
  ASSUME Inv
  PROVE  Cardinality(AsSet) = count /\ IsFiniteSet(AsSet)
<1> DEFINE f == [i \in Used |-> addresses[i]]
<1>1. f \in Bijection(Used, AsSet)
  BY TableAssumption
  DEF Inv, TypeOK, NoDuplicates, Cells, Used, AsSet, Bijection, Injection,
      Surjection, IsInjective
<1>2. IsFiniteSet(Used) /\ Cardinality(Used) = count
  <2>1. count \in Nat /\ 0 \in Int /\ count - 1 \in Int
    BY TableAssumption DEF Inv, TypeOK
  <2>2. Cardinality(0..(count - 1)) = IF 0 > count - 1 THEN 0 ELSE count - 1 - 0 + 1
    BY <2>1, FS_Interval
  <2>3. IsFiniteSet(0..(count - 1))
    BY <2>1, FS_Interval
  <2> QED
    BY <2>1, <2>2, <2>3 DEF Used
<1>3. ExistsBijection(Used, AsSet)
  BY <1>1 DEF ExistsBijection
<1> QED
  BY <1>2, <1>3, FS_Bijection

(* What the host reads out: distinct set addresses, as many as fit.        *)
LEMMA CopyOfInv == Inv => CopyIsFaithful
<1> SUFFICES ASSUME Inv, NEW capacity \in 0..BpCapacity
             PROVE  LET seen == {Copied(capacity)[k] : k \in 1..Len(Copied(capacity))}
                    IN  /\ seen \subseteq AsSet
                        /\ Cardinality(seen) =
                             (IF capacity < Cardinality(AsSet) THEN capacity
                                                               ELSE Cardinality(AsSet))
  BY DEF CopyIsFaithful
<1> DEFINE wanted == IF capacity < count THEN capacity ELSE count
           f == [k \in 1..wanted |-> addresses[k - 1]]
           seen == {f[k] : k \in 1..wanted}
<1>1. /\ count \in Nat /\ capacity \in Nat /\ wanted \in Nat
      /\ wanted <= count /\ count <= BpCapacity
  BY TableAssumption DEF Inv, TypeOK
<1>2. Copied(capacity) = f
  BY DEF Copied
<1> HIDE DEF wanted
<1>3. \A k \in 1..wanted : k - 1 \in Used /\ k - 1 \in Cells
  BY <1>1, TableAssumption DEF Used, Cells
<1>4. f \in Seq(Addr) /\ Len(f) = wanted
  <2>1. f \in [1..wanted -> Addr]
    BY <1>3 DEF Inv, TypeOK
  <2> QED
    BY <1>1, <2>1
<1>5. seen \subseteq AsSet
  BY <1>3 DEF AsSet
<1>6. \A j, k \in 1..wanted : f[j] = f[k] => j = k
  BY <1>1, <1>3 DEF Inv, NoDuplicates
<1>7. f \in Bijection(1..wanted, seen)
  BY <1>6 DEF Bijection, Injection, Surjection, IsInjective
<1>8. IsFiniteSet(1..wanted) /\ Cardinality(1..wanted) = wanted
  <2>1. /\ IsFiniteSet(1..wanted)
        /\ Cardinality(1..wanted) = IF 1 > wanted THEN 0 ELSE wanted - 1 + 1
    BY <1>1, FS_Interval
  <2> QED
    BY <1>1, <2>1
<1>9. Cardinality(seen) = wanted
  BY <1>7, <1>8, FS_Bijection DEF ExistsBijection
<1>10. Cardinality(AsSet) = count
  BY CountIsCardinality
<1>11. {Copied(capacity)[k] : k \in 1..Len(Copied(capacity))} = seen
  BY <1>2, <1>4
<1> QED
  BY <1>5, <1>9, <1>10, <1>11 DEF wanted

(* A host reads every set address exactly once, or a full buffer of        *)
(* distinct ones (Breakpoints::copy).                                      *)
THEOREM TableCopyIsFaithful == Spec => []CopyIsFaithful
BY InvInit, InvStep, CopyOfInv, PTL DEF Spec

(* The set module's Cardinality is the one of this module.                 *)
LEMMA SameCardinality == \A S : Abstract!Cardinality(S) = Cardinality(S)
BY Zenon DEF Cardinality, Abstract!Cardinality

(* What each call does to the set of addresses.                            *)
LEMMA AddSimulates ==
  ASSUME Inv, NEW a \in Addr, Add(a)
  PROVE  Abstract!SetBreakpoint(a)
<1> USE TableAssumption DEF Inv, TypeOK, Cells, Used
<1>1. Contains(a) <=> a \in AsSet
  BY DEF Contains, AsSet
<1>2. (count < BpCapacity /\ ~Contains(a)) <=> Abstract!CanAdd(AsSet, a)
  BY <1>1, CountIsCardinality, SameCardinality DEF Abstract!CanAdd
<1>3. CASE count < BpCapacity /\ ~Contains(a)
  <2>1. /\ count' = count + 1
        /\ addresses' = [addresses EXCEPT ![count] = a]
        /\ count \in Cells
    BY <1>3 DEF Add
  <2>2. Used' = Used \union {count}
    BY <2>1
  <2>3. \A i \in Used : i \in Cells /\ addresses'[i] = addresses[i]
    BY <2>1
  <2>4. addresses'[count] = a
    BY <2>1
  <2>5. AsSet' = AsSet \union {a}
    BY <2>2, <2>3, <2>4 DEF AsSet
  <2> QED
    BY <1>2, <1>3, <2>5 DEF Add, Abstract!SetBreakpoint, Abstract!AddTo
<1>4. CASE ~(count < BpCapacity /\ ~Contains(a))
  <2>1. AsSet' = AsSet
    BY <1>4 DEF Add, AsSet
  <2>2. ~Abstract!CanAdd(AsSet, a)
    BY Zenon, <1>2, <1>4
  <2>3. AsSet' = Abstract!AddTo(AsSet, a)
    BY Zenon, <2>1, <2>2 DEF Abstract!AddTo
  <2>4. answer' = FALSE
    BY <1>4 DEF Add
  <2>5. Abstract!CanAdd(AsSet, a) = FALSE
    BY <2>2 DEF Abstract!CanAdd
  <2> QED
    BY Zenon, <2>3, <2>4, <2>5 DEF Abstract!SetBreakpoint
<1> QED
  BY <1>3, <1>4

LEMMA RemoveSimulates ==
  ASSUME Inv, NEW a \in Addr, Remove(a)
  PROVE  Abstract!ClearBreakpoint(a)
<1> USE TableAssumption DEF Inv, TypeOK, Cells, Used
<1>1. ASSUME NEW i \in Cells, FirstAt(a, i), RemoveAt(i)
      PROVE  Abstract!ClearBreakpoint(a)
  <2>1. AsSet' = AsSet \ {a}
    BY <1>1 DEF FirstAt, RemoveAt, AsSet, NoDuplicates
  <2>2. a \in AsSet
    BY <1>1 DEF FirstAt, AsSet
  <2> QED
    BY <1>1, <2>1, <2>2 DEF RemoveAt, Abstract!ClearBreakpoint, Abstract!DropFrom
<1>2. ASSUME ~Contains(a), answer' = FALSE, UNCHANGED <<addresses, count>>
      PROVE  Abstract!ClearBreakpoint(a)
  <2>1. a \notin AsSet /\ AsSet' = AsSet
    BY <1>2 DEF Contains, AsSet
  <2>2. AsSet' = Abstract!DropFrom(AsSet, a)
    BY <2>1 DEF Abstract!DropFrom
  <2>3. (a \in AsSet) = FALSE
    BY <2>1
  <2>4. answer' = (a \in AsSet)
    BY Zenon, <1>2, <2>3
  <2> QED
    BY Zenon, <2>2, <2>4 DEF Abstract!ClearBreakpoint
<1> QED
  BY <1>1, <1>2 DEF Remove

(* The table implements the set: every history of calls, with its answers, *)
(* is one that the abstract set allows (class Breakpoints).                *)
THEOREM TableImplementsSet == Spec => ImplementsSet
<1>1. Init => Abstract!Init
  BY DEF Init, Abstract!Init, AsSet, Used
<1>2. Inv /\ [Next]_tableVars => [Abstract!Next]_Abstract!bpVars
  <2> SUFFICES ASSUME Inv, [Next]_tableVars
               PROVE  [Abstract!Next]_Abstract!bpVars
      OBVIOUS
  <2>1. ASSUME NEW a \in Addr, Add(a) PROVE Abstract!Next
    BY <2>1, AddSimulates DEF Abstract!Next
  <2>2. ASSUME NEW a \in Addr, Remove(a) PROVE Abstract!Next
    BY <2>2, RemoveSimulates DEF Abstract!Next
  <2>3. CASE Clear
    BY <2>3 DEF Clear, AsSet, Used, Abstract!Next, Abstract!ClearBreakpoints
  <2>4. CASE UNCHANGED tableVars
    BY <2>4 DEF tableVars, AsSet, Used, Abstract!bpVars
  <2> QED
    BY <2>1, <2>2, <2>3, <2>4 DEF Next
<1> QED
  BY <1>1, <1>2, InvInit, InvStep, PTL DEF Spec, ImplementsSet, Abstract!Spec
=============================================================================
