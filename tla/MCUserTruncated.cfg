SPECIFICATION Spec
CONSTANTS
  Threads = {t1}
  Devs = {d1}
  Setters = {}
  Flushers = {}
  SendOps = {"send"}
  Sizes = {5, 65541}
  Caps = {5}
  QLen = 1
PROPERTIES SentWhole
