CONSTANTS
  t1 = t1
  t2 = t2
  serial = serial
  rival = rival
  Ttys <- DongleTtys
  Others <- OtherTtys
  Role <- RoleOf
  Scripts = {s1, s2}
  NoTty = NoTty
  NoScript = NoScript
SPECIFICATION Spec
INVARIANTS
  IInv
  NotWithoutDevice
  SpacedDongle
PROPERTIES
  ScriptsEnd
