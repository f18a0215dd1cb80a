SPECIFICATION Spec
CONSTANTS
  Threads = {t1}
  Sizes = {3, 11}
  Depth = 3
  Loc = 1
  IdMod = 4
  None = None
INVARIANT NonBlocking
