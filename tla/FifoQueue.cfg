CONSTANTS
  Bits = 2
  Bytes = {a, b}
  Sizes = {1, 3}
  MaxLen = 2
  Offsets = {0}
  Snapshots = TRUE
SYMMETRY ByteSymmetry
SPECIFICATION Spec
INVARIANTS
  IInv
  RaceFree
PROPERTIES
  ImplementsQueue
