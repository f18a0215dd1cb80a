SPECIFICATION Spec
CONSTANTS
  Threads = {t1, t2}
  Slots = {s1, s2}
  N = 2
  Sizes = {524280, 524288}
  MaxCount = 2
  None = None
SYMMETRY Symmetric
INVARIANTS TokensExact WaitCompletes WaitNotInVain
