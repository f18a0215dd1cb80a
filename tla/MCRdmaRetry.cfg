SPECIFICATION Spec
CONSTANTS
  Slots = {s1}
  Threads = {t1}
  Nodes = {n1}
  NullNode = null
  None = None
  Kthread = Kthread
  MaxRetry = 1000
  RetriesMod = 256
  CounterMod = 4
  HwLen = 1
  MaxReqs = 1
  MaxErrors = 1001
SYMMETRY Symmetry
VIEW View
INVARIANT
  RetryLimit
