CONSTANTS
  Devs = {d1, d2}
  Threads = {t1, t2}
  Shared = TRUE
  PortNum = 2
  MaxOpen = 8
  AnyPort = AnyPort
  Invalid = Invalid
  None = None
SPECIFICATION Spec
SYMMETRY Symmetry
INVARIANT UsedExact
