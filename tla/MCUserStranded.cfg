SPECIFICATION FairSpec
CONSTANTS
  Threads = {t1, t2}
  Devs = {d1}
  Setters = {}
  Flushers = {}
  SendOps = {"send"}
  Sizes = {5, 250}
  Caps = {250}
  QLen = 1
PROPERTIES Responsive
