SPECIFICATION FairSpec
CONSTANTS
  Links = {"wan", "ppp"}
  Releases = 2
  Parts = 2
  Tries = 2
  MaxFlaps = 1
  MaxFails = 2
  MaxCuts = 1
INVARIANTS IInv OnlyGenuine InstalledTogether
PROPERTIES BurnsWhenComplete Recovers
CHECK_DEADLOCK FALSE
