\* Four addresses and three cells: the table fills up, refuses a fourth
\* address, and every cell can be the removed one and the last one.
CONSTANTS
  Addr = {a0, a1, a2, a3}
  ZeroAddr = a0
  BpCapacity = 3
SPECIFICATION Spec
INVARIANTS TypeOK NoDuplicates CopyIsFaithful
PROPERTY ImplementsSet
