SPECIFICATION Spec
CONSTANTS
  Item = {c1, c2, c3, c4}
  None = None
  Name = {"a", "A"}
  Lower <- OneKey
  Value = {"v", "w"}
  Program <- TwoPrograms
SYMMETRY Cells
CHECK_DEADLOCK FALSE
INVARIANTS HeapIsSound
PROPERTY IsForest
