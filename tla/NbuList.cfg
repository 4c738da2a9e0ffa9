CONSTANTS
  Node = {n1, n2, n3}
  Datum = {d1, d2, d3, d4}
  Key = {1, 2}
  MaxLen = 3
  MaxLost = 2
  Root = Root
  NULL = NULL
SYMMETRY DataSymmetry
SPECIFICATION Spec
INVARIANTS
  IInv
  Released
  LoopSeesAll
PROPERTIES
  ImplementsList
