CONSTANTS
  Links = {"wan", "voip", "adsl", "gprs"}
  Gateways = {g1, g2}
  Scripts = {s1, s2, s3}
  None = None
SYMMETRY Symmetry
SPECIFICATION Spec
INVARIANTS
  IInv
  Settled
  SpacedRoute
CHECK_DEADLOCK FALSE
