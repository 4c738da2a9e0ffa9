CONSTANTS
  Configs <- MCConfigs
  MaxStarts = 3
  MaxMoves = 2
  NoGateway = NoGateway
SPECIFICATION Spec
INVARIANTS
  IInv
  Contained
  SpacedData
