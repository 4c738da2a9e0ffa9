CONSTANTS
  Hosts = {h1}
  Plugs = {p0, p1}
  Local = p0
  Interval = 2
  Timeout = 3
  QueueLen = 1
  MaxSignals = 1
  MaxFaults = 1
SPECIFICATION Spec
INVARIANTS
  IInv
PROPERTIES
  GoneNoticed
  PlugsFound
  SilentSettled
