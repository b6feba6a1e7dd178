\* A reader that sees stores in order, overtaken by the writer.
CONSTANTS
  Capacity = 3
  Sizes = {1, 2, 3, 4}
  MaxRecords = 9
SPECIFICATION Spec
INVARIANTS OldestFirst
