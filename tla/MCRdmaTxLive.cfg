SPECIFICATION FairSpec
CONSTANTS
  Slots = {s1, s2}
  Threads = {t1}
  Nodes = {n1}
  NullNode = null
  None = None
  Kthread = Kthread
  MaxRetry = 1000
  RetriesMod = 256
  CounterMod = 4
  HwLen = 1
  MaxReqs = 2
  MaxErrors = 1
PROPERTIES Answered WaitsEnd
