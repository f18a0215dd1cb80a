SPECIFICATION FairSpec
CONSTANTS
  Slots = {s1}
  Threads = {t1}
  Nodes = {n1}
  NullNode = null
  None = None
  Kthread = Kthread
  MaxRetry = 1000
  RetriesMod = 256
  CounterMod = 4
  HwLen = 1
  MaxReqs = 3
  MaxErrors = 1
PROPERTIES Answered WaitsEnd
