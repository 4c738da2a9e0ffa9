CONSTANTS
  sda = sda
  sdb = sdb
  sda1 = sda1
  sdb1 = sdb1
  Scripts = {s1, s2, s3}
  Blocks = {sda, sda1, sdb1}
  Disks = {sda, sdb}
  DevRoot <- TwoDisks
  Mountable = {sda1, sdb1}
  Like <- Names
  None = None
SPECIFICATION FairSpec
INVARIANTS
  IInv
  OneMaster
  NoLostLine
  ServicesCurrent
  SpacedMatch
PROPERTIES
  EventsTreated
CHECK_DEADLOCK FALSE
