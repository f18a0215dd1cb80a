SPECIFICATION FairSpec
CONSTANTS
  Slots = {s1, s2}
  Threads = {t1, t2, t3}
  MaxReqs = 3
  None = None
INVARIANTS OneOwner PayloadStable NoLostWakeup
PROPERTIES SenderWoken
