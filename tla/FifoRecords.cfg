CONSTANTS
  Bits = 4
  Bytes = {0, 1}
  Sizes = {}
  MaxLen = 2
  Offsets = {}
  Snapshots = FALSE
  RecSize = 2
  Base = 2
  Capacity = 8
  Payload = {1}
  MaxRec = 2
SPECIFICATION RecSpec
INVARIANTS
  RingInv
  Layout
