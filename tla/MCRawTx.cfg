SPECIFICATION FairSpec
CONSTANTS
  Threads = {t1, t2}
  Sizes = {3, 4, 19}
  Depth = 3
  Loc = 1
  IdMod = 3
  None = None
INVARIANTS PacketsWhole
PROPERTIES WaitsEnd
