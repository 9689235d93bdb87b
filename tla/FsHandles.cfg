CONSTANTS
  Slots = {f1, f2}
  Handles = {h1, h2, h3}
  Objects = {o1, o2, o3}
  NameCount = 2
  Modes = {"r", "w", "a"}
  MaxSize = 1
  Null = Null
SPECIFICATION Spec
SYMMETRY Symmetry
INVARIANTS
  HandleInv
PROPERTIES
  ReadingKeepsStorage
