CONSTANTS
  Bits = 4
  Bytes = {a, b}
  Sizes = {5}
  MaxLen = 2
  Offsets = {0}
  Snapshots = FALSE
SPECIFICATION Spec
INVARIANTS
  RoundedUp
