SPECIFICATION Spec
CONSTANTS
  Threads = {t1}
  Slots = {s1, s2}
  N = 2
  Sizes = {8}
  MaxCount = 1
  None = None
INVARIANTS WaitMeansDone
